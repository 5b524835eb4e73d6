------------------------------ MODULE Storage ------------------------------
(***************************************************************************)
(* Stored files (package storage): the service, its HTTP handlers, and the *)
(* driver for the local disk with the handler of its content routes.  The  *)
(* driver keeps a file in two, the content and a .meta file with its type. *)
(* Requests interleave between system calls.                               *)
(*                                                                         *)
(* Content is a sequence of blocks, each the number of the PUT or Save it  *)
(* came from.  A signed URL is a record in urls: a token that verifies is  *)
(* one that was issued.                                                    *)
(***************************************************************************)
EXTENDS Integers, Sequences, FiniteSets, FiniteSetsExt

CONSTANTS
    Requests,       \* concurrent requests
    Services,       \* options of NewService: [allowed, inline, extensions]; no type in
                    \* allowed stands for none set: any type may be uploaded
    MediaTypes,     \* types that clients send
    Extensions,     \* extensions of file names; "" is none
    maxUploadSize,  \* in blocks
    presignTTL,     \* in ticks
    MaxFiles,       \* bound: keys
    MaxSaves,       \* bound: PUTs and Saves
    MaxClock        \* bound: ticks

VARIABLES
    service,    \* the options, and whether NewService accepted them
    clock,
    urls,       \* upload and download URLs issued
    keys,       \* the keys made, a sequence: key k is keys[k]
    disk,       \* the content file of each key, and its .meta file
    req,        \* the requests under way
    saves,      \* the number of PUTs and Saves that have begun
    answered,   \* what the last writer of each key was told
    torn        \* keys whose writers overlapped, or were cut by a crash

storageVars == <<service, clock, urls, keys, disk, req, saves, answered, torn>>

DefaultMime == "octet-stream"
DefaultInlineTypes == {"pdf", "text"}
None == "none"

\* Limits are numbers, and no media type stands for none.
ASSUME StorageAssumption == maxUploadSize \in Nat /\ None \notin MediaTypes

Absent == [ino |-> 0, data |-> <<>>]
NoRequest == [pc |-> "idle", op |-> None, key |-> 0, type |-> None, size |-> 0, max |-> 0, save |-> 0,
              ino |-> 0, done |-> 0]
NoAnswer == [what |-> None, save |-> 0, size |-> 0]
Told(what) == [NoAnswer EXCEPT !.what = what]
Fresh == [content |-> Absent, meta |-> None]

-----------------------------------------------------------------------------
(***************************************************************************)
(* The service.                                                            *)
(***************************************************************************)

\* Types that clients may upload and that open in the browser are of the default list.
checkUploadableInline(s) ==
    s.inline \cap (IF s.allowed = {} THEN s.inline ELSE s.allowed) \subseteq DefaultInlineTypes

NewService ==
    /\ service.state = "new"
    /\ service' = [service EXCEPT !.state = IF checkUploadableInline(service) THEN "serving" ELSE "refused"]
    /\ UNCHANGED <<clock, urls, keys, disk, req, saves, answered, torn>>

disposition(type) == IF type \in service.inline THEN "inline" ELSE "attachment"

\* The extension is one of its type; a name that has none gets the first.
match(ext, type) ==
    LET exts == IF type \in DOMAIN service.extensions THEN service.extensions[type] ELSE <<>> IN
    IF exts = <<>> THEN ext
    ELSE IF ext = "" THEN exts[1]
    ELSE IF \E k \in DOMAIN exts : exts[k] = ext THEN ext ELSE "mismatch"

\* A key has the extension of its file if the routes accept it.
validStorageKey(ext) == ext # "odd"
newKey(ext, type) == [ext |-> IF validStorageKey(ext) THEN ext ELSE "", type |-> type]

\* Signed URLs.  A token is verified for one of the two operations.
GetUploadURL(k, type, max) ==
    [op |-> "put", key |-> k, expiresAt |-> clock + presignTTL, type |-> type, max |-> max]
GetDownloadURL(k, shown) ==
    [op |-> "get", key |-> k, expiresAt |-> clock + presignTTL, disposition |-> shown]
VerifyToken(u, op) == u.op = op

Serving == service.state = "serving"
Free(r) == Serving /\ req[r].pc = "idle"

\* HTTPHandler.Upload and Service.Upload: refused, or a new key with a URL to PUT to.
Upload(ext, size, type) ==
    /\ Serving
    /\ Len(keys) < MaxFiles
    /\ size \in 1 .. maxUploadSize
    /\ service.allowed = {} \/ type \in service.allowed
    /\ match(ext, type) # "mismatch"
    /\ keys' = Append(keys, newKey(match(ext, type), type))
    /\ disk' = Append(disk, Fresh)
    /\ answered' = Append(answered, NoAnswer)
    /\ urls' = urls \cup {GetUploadURL(Len(keys) + 1, type, size)}
    /\ UNCHANGED <<service, clock, req, saves, torn>>

-----------------------------------------------------------------------------
(***************************************************************************)
(* The disk.                                                               *)
(***************************************************************************)
IsWriter(r, k) == req[r].key = k /\ req[r].op \in {"put", "save", "delete"}

\* A writer of key k begins.  It overlaps with the writers under way.
WriterBegins(r, k, record) ==
    /\ req' = [req EXCEPT ![r] = record]
    /\ torn' = IF \E q \in Requests : IsWriter(q, k) THEN torn \cup {k} ELSE torn

\* A request is answered; the answer of a writer that changed something is recorded.
Replies(r, answer) ==
    /\ req' = [req EXCEPT ![r] = NoRequest]
    /\ answered' = IF answer = NoAnswer THEN answered ELSE [answered EXCEPT ![req[r].key] = answer]

\* The handler of PUT: the URL has not expired and the type is the one it was made for.
upload(r, u, size) ==
    /\ Free(r)
    /\ VerifyToken(u, "put")
    /\ clock <= u.expiresAt
    /\ saves < MaxSaves
    /\ saves' = saves + 1
    /\ WriterBegins(r, u.key, [NoRequest EXCEPT !.pc = "create", !.op = "put", !.key = u.key, !.type = u.type,
                                            !.size = size, !.max = u.max, !.save = saves + 1])
    /\ UNCHANGED <<service, clock, urls, keys, disk, answered>>

\* Service.Save stores what the host holds, under a key of its own and without a limit.
Save(r, ext, type, size) ==
    /\ Free(r)
    /\ Len(keys) < MaxFiles
    /\ saves < MaxSaves
    /\ saves' = saves + 1
    /\ keys' = Append(keys, newKey(ext, type))
    /\ disk' = Append(disk, Fresh)
    /\ answered' = Append(answered, NoAnswer)
    /\ WriterBegins(r, Len(keys) + 1, [NoRequest EXCEPT !.pc = "create", !.op = "save", !.key = Len(keys) + 1,
                                     !.type = type, !.size = size, !.max = size, !.save = saves + 1])
    /\ UNCHANGED <<service, clock, urls>>

At(r, pc) == req[r].pc = pc
ContentOf(r) == disk[req[r].key].content

\* The file is opened as it is there.
OpensAsIs(r) ==
    LET ino == IF ContentOf(r) = Absent THEN req[r].save ELSE ContentOf(r).ino IN
    /\ At(r, "create")
    /\ disk' = [disk EXCEPT ![req[r].key].content.ino = ino]
    /\ req' = [req EXCEPT ![r].pc = "copy", ![r].ino = ino]
    /\ UNCHANGED <<service, clock, urls, keys, saves, answered, torn>>

\* os.Create: a new file, or the one that is there without its content.
Creates(r) ==
    LET ino == IF ContentOf(r) = Absent THEN req[r].save ELSE ContentOf(r).ino IN
    /\ At(r, "create")
    /\ disk' = [disk EXCEPT ![req[r].key].content = [ino |-> ino, data |-> <<>>]]
    /\ req' = [req EXCEPT ![r].pc = "copy", ![r].ino = ino]
    /\ UNCHANGED <<service, clock, urls, keys, saves, answered, torn>>

CreateFails(r) ==
    /\ At(r, "create")
    /\ Replies(r, NoAnswer)
    /\ UNCHANGED <<service, clock, urls, keys, disk, saves, torn>>

\* A block goes to the file that was opened, which may no longer be the one of the key.
WrittenAt(data, k, save) ==
    [j \in 1 .. Max({Len(data), k}) |-> IF j = k THEN save ELSE IF j <= Len(data) THEN data[j] ELSE 0]
Copies(r) ==
    LET k == req[r].done + 1 IN
    /\ At(r, "copy")
    /\ k <= Min({req[r].size, req[r].max})
    /\ disk' = IF ContentOf(r).ino = req[r].ino
               THEN [disk EXCEPT ![req[r].key].content.data = WrittenAt(@, k, req[r].save)]
               ELSE disk
    /\ req' = [req EXCEPT ![r].done = k]
    /\ UNCHANGED <<service, clock, urls, keys, saves, answered, torn>>

\* A writer is told that it failed.  It removed the content file before, unless that failed
\* too: nobody looks at the error of os.Remove.
Left(r) == {Absent, ContentOf(r)}
Failed(r) == [what |-> "failed", save |-> req[r].save, size |-> req[r].size]

\* The body ended, or went over the limit or broke off.
CopyEnds(r) ==
    /\ At(r, "copy")
    /\ req[r].done = req[r].size
    /\ req' = [req EXCEPT ![r].pc = "meta"]
    /\ UNCHANGED <<service, clock, urls, keys, disk, saves, answered, torn>>
CopyFails(r) ==
    /\ At(r, "copy")
    /\ \E left \in Left(r) : disk' = [disk EXCEPT ![req[r].key].content = left]
    /\ Replies(r, Failed(r))
    /\ UNCHANGED <<service, clock, urls, keys, saves, torn>>

WritesMeta(r) ==
    /\ At(r, "meta")
    /\ disk' = [disk EXCEPT ![req[r].key].meta = req[r].type]
    /\ Replies(r, [what |-> "stored", save |-> req[r].save, size |-> req[r].size])
    /\ UNCHANGED <<service, clock, urls, keys, saves, torn>>
MetaFails(r) ==
    /\ At(r, "meta")
    /\ \E meta \in {disk[req[r].key].meta, None, req[r].type}, left \in Left(r) :
          disk' = [disk EXCEPT ![req[r].key].meta = meta, ![req[r].key].content = left]
    /\ Replies(r, Failed(r))
    /\ UNCHANGED <<service, clock, urls, keys, saves, torn>>

\* HTTPHandler.Delete: the .meta file first, whether that succeeds or not, then the content.
Delete(r, k) ==
    /\ Free(r)
    /\ WriterBegins(r, k, [NoRequest EXCEPT !.pc = "unlink", !.op = "delete", !.key = k])
    /\ \E left \in {disk[k].meta, None} : disk' = [disk EXCEPT ![k].meta = left]
    /\ UNCHANGED <<service, clock, urls, keys, saves, answered>>
RemovesContent(r) == disk' = [disk EXCEPT ![req[r].key].content = Absent]
DeleteEnds(r) ==
    /\ At(r, "unlink")
    /\ \/ RemovesContent(r) /\ Replies(r, Told("deleted"))
       \/ UNCHANGED disk /\ Replies(r, Told("undeleted"))
    /\ UNCHANGED <<service, clock, urls, keys, saves, torn>>

storedContentType(k) == IF disk[k].meta = None THEN DefaultMime ELSE disk[k].meta

\* Stat, which the URL of a download begins with, and the open of a GET: both find the
\* content file first and read the type after it.
Finds(r, op, k) ==
    /\ Free(r)
    /\ disk[k].content # Absent
    /\ req' = [req EXCEPT ![r] = [NoRequest EXCEPT !.pc = op, !.op = op, !.key = k, !.ino = disk[k].content.ino]]
    /\ UNCHANGED <<service, clock, urls, keys, disk, saves, answered, torn>>
DownloadURL(r) ==
    /\ At(r, "stat")
    /\ urls' = urls \cup {GetDownloadURL(req[r].key, disposition(storedContentType(req[r].key)))}
    /\ Replies(r, NoAnswer)
    /\ UNCHANGED <<service, clock, keys, disk, saves, torn>>
download(r, u) == VerifyToken(u, "get") /\ clock <= u.expiresAt /\ Finds(r, "get", u.key)
Serves(r) ==
    /\ At(r, "get")
    /\ Replies(r, NoAnswer)
    /\ UNCHANGED <<service, clock, urls, keys, disk, saves, torn>>

Tick ==
    /\ Serving
    /\ clock < MaxClock
    /\ clock' = clock + 1
    /\ UNCHANGED <<service, urls, keys, disk, req, saves, answered, torn>>

\* The process stops and starts again: what was under way is cut.
Crash ==
    /\ \E r \in Requests : req[r].pc # "idle"
    /\ torn' = torn \cup {k \in DOMAIN keys : \E r \in Requests : IsWriter(r, k)}
    /\ req' = [r \in Requests |-> NoRequest]
    /\ UNCHANGED <<service, clock, urls, keys, disk, saves, answered>>

StorageInit ==
    /\ \E s \in Services : service = [state |-> "new", allowed |-> s.allowed, inline |-> s.inline,
                                      extensions |-> s.extensions]
    /\ clock = 0
    /\ urls = {}
    /\ keys = <<>>
    /\ disk = <<>>
    /\ req = [r \in Requests |-> NoRequest]
    /\ saves = 0
    /\ answered = <<>>
    /\ torn = {}

StorageNext ==
    \/ NewService \/ Tick \/ Crash
    \/ \E ext \in Extensions, size \in 0 .. maxUploadSize + 1, type \in MediaTypes : Upload(ext, size, type)
    \/ \E r \in Requests :
          \/ \E u \in urls : download(r, u) \/ \E size \in 1 .. maxUploadSize + 1 : upload(r, u, size)
          \/ \E ext \in Extensions, size \in 1 .. maxUploadSize, type \in MediaTypes : Save(r, ext, type, size)
          \/ Creates(r) \/ CreateFails(r) \/ Copies(r) \/ CopyEnds(r) \/ CopyFails(r)
          \/ WritesMeta(r) \/ MetaFails(r)
          \/ \E k \in DOMAIN keys : Delete(r, k) \/ Finds(r, "stat", k)
          \/ DeleteEnds(r) \/ DownloadURL(r) \/ Serves(r)

StorageSpec == StorageInit /\ [][StorageNext]_storageVars

-----------------------------------------------------------------------------
(***************************************************************************)
(* Properties.                                                             *)
(***************************************************************************)

\* A key that no writer is at work on, and whose writers came one after the other and
\* were not cut, holds what its last writer was told: all blocks of an upload that was
\* accepted, in order and with its type; nothing after a delete; and after an upload that
\* failed midway nothing, or, where its file could not be removed either, what that
\* upload itself had written: never a block of an earlier PUT of the same URL
\* (LocalFSDriver.Save and Delete).  What write() took is on the disk: an error of Close,
\* which Save ignores, is left out.
StoredAsAnswered ==
    \A k \in DOMAIN keys \ torn :
        (\A r \in Requests : ~IsWriter(r, k)) =>
            LET a == answered[k] IN
            /\ a.what \in {None, "deleted"} => disk[k].content = Absent
            /\ a.what = "failed" =>
                  \E n \in 0 .. a.size : disk[k].content.data = [j \in 1 .. n |-> a.save]
            /\ a.what = "stored" => /\ disk[k].content.data = [j \in 1 .. a.size |-> a.save]
                                    /\ storedContentType(k) = keys[k].type

=============================================================================
