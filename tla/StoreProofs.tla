---------------------------- MODULE StoreProofs ----------------------------
(***************************************************************************)
(* Proofs about the two stores that keep and hand out things for callers:  *)
(* the store of uploaded files (module Storage), for all numbers of        *)
(* requests and files, and the generator of reference IDs (module RefId),  *)
(* for all configurations, parameters, stores and callers.                 *)
(***************************************************************************)
EXTENDS Storage, RefId, TLAPS

-----------------------------------------------------------------------------
(***************************************************************************)
(* Files.                                                                  *)
(***************************************************************************)

\* The requests that write.
Writers == {"put", "save", "delete"}

\* What a file holds.
Contents == [ino : Nat, data : Seq(Nat)]

\* A file and its .meta.
Files == [content : Contents, meta : MediaTypes \cup {None}]

\* The requests.
Records == [pc : {"idle", "create", "copy", "meta", "unlink", "stat", "get"},
            op : Writers \cup {None, "stat", "get"}, key : Nat, type : MediaTypes \cup {None},
            size : Nat, max : Nat, save : Nat, ino : Nat, done : Nat]

\* What a caller was told last.
Tellings == [what : {None, "failed", "deleted", "undeleted", "stored"}, save : Nat, size : Nat]

\* Each key has a file and an answer, and a URL or a writer is for a key that was made.
FilesTypeOK ==
    /\ \E E : keys \in Seq([ext : E, type : MediaTypes])
    /\ disk \in Seq(Files)
    /\ answered \in Seq(Tellings)
    /\ Len(disk) = Len(keys) /\ Len(answered) = Len(keys)
    /\ req \in [Requests -> Records]
    /\ saves \in Nat

\* An upload URL was made for its key, with the type of the key.
UrlsInv ==
    \A u \in urls : /\ u.key \in DOMAIN keys
                    /\ u.op = "put" => u.type = keys[u.key].type /\ u.max \in Nat

\* A file of a type is what the last writer was told.
ToldOf(answer, file, type) ==
    /\ answer.what \in {None, "deleted"} => file.content = Absent
    /\ answer.what = "failed" =>
          \E n \in 0 .. answer.size : file.content.data = [j \in 1 .. n |-> answer.save]
    /\ answer.what = "stored" => /\ file.content.data = [j \in 1 .. answer.size |-> answer.save]
                                 /\ (IF file.meta = None THEN DefaultMime ELSE file.meta) = type

\* The file of a key is what its last caller was told.
AsTold(k) == ToldOf(answered[k], disk[k], keys[k].type)

\* What a writer has written so far.
Written(rec, content) ==
    /\ rec.pc = "create" => rec.done = 0
    /\ rec.pc = "copy" => /\ rec.done <= rec.size
                          /\ content = [ino |-> rec.ino, data |-> [j \in 1 .. rec.done |-> rec.save]]
    /\ rec.pc = "meta" => content.data = [j \in 1 .. rec.size |-> rec.save]

\* A writer that has not begun has changed nothing.
Progress(r, k) == (req[r].pc = "create" => AsTold(k)) /\ Written(req[r], disk[k].content)

\* Where a writer is, and the type that it will store.
WriterAt(r) ==
    /\ req[r].pc \in {"create", "copy", "meta", "unlink"}
    /\ req[r].pc # "unlink" => req[r].type = keys[req[r].key].type

\* Whoever writes is the writer of its key.
RequestsInv ==
    \A r \in Requests :
        /\ req[r].pc \in {"create", "copy", "meta", "unlink"} => IsWriter(r, req[r].key)
        /\ req[r].op \in Writers => req[r].key \in DOMAIN keys /\ WriterAt(r)
        /\ req[r].pc = "stat" => req[r].key \in DOMAIN keys

\* A key has at most one writer, and without a writer it is as told.
KeyOK(k) ==
    /\ \A q, r \in Requests : IsWriter(q, k) /\ IsWriter(r, k) => q = r
    /\ \A r \in Requests : IsWriter(r, k) => Progress(r, k)
    /\ (\A r \in Requests : ~IsWriter(r, k)) => AsTold(k)

\* This holds of all keys but those whose writers overlapped or were cut off.
KeysInv == \A k \in DOMAIN keys \ torn : KeyOK(k)

\* The inductive invariant of the store of files.
StorageIInv == FilesTypeOK /\ UrlsInv /\ RequestsInv /\ KeysInv

-----------------------------------------------------------------------------
(***************************************************************************)
(* What a step does to one key.                                            *)
(***************************************************************************)

\* A sequence has values of its set.
LEMMA Listed == ASSUME NEW S, NEW s \in Seq(S), NEW k \in DOMAIN s PROVE s[k] \in S
OBVIOUS

\* A sequence over a set is one over a larger set.
LEMMA ListedIn == ASSUME NEW S, NEW s \in Seq(S), NEW T, S \subseteq T PROVE s \in Seq(T)
<1>1. Len(s) \in Nat /\ s \in [1 .. Len(s) -> S]
    OBVIOUS
<1>2. s \in [1 .. Len(s) -> T]
    BY <1>1, Zenon
<1> QED BY <1>1, <1>2

\* A file or an answer is replaced.
LEMMA Replaced ==
    ASSUME NEW S, NEW s \in Seq(S), NEW k \in DOMAIN s, NEW x \in S, NEW t, t = [s EXCEPT ![k] = x]
    PROVE  /\ t \in Seq(S) /\ Len(t) = Len(s)
           /\ t[k] = x
           /\ \A j \in DOMAIN s \ {k} : t[j] = s[j]
OBVIOUS

\* A key, a file or an answer is added.
LEMMA Added ==
    ASSUME NEW S, NEW s \in Seq(S), NEW x \in S
    PROVE  /\ Append(s, x) \in Seq(S) /\ Len(Append(s, x)) = Len(s) + 1
           /\ Append(s, x)[Len(s) + 1] = x
           /\ \A j \in DOMAIN s : Append(s, x)[j] = s[j]
           /\ DOMAIN s = 1 .. Len(s) /\ Len(s) \in Nat
OBVIOUS

\* The numbers of the keys are those of the files and of the answers.
LEMMA KeyNumbers ==
    ASSUME FilesTypeOK
    PROVE  /\ Len(keys) \in Nat /\ DOMAIN keys = 1 .. Len(keys)
           /\ DOMAIN disk = DOMAIN keys /\ DOMAIN answered = DOMAIN keys
           /\ \A k \in DOMAIN keys : /\ keys[k].type \in MediaTypes
                                     /\ disk[k] \in Files
                                     /\ answered[k] \in Tellings
<1>1. PICK E : keys \in Seq([ext : E, type : MediaTypes])
    BY Zenon DEF FilesTypeOK
<1>2. Len(keys) \in Nat /\ DOMAIN keys = 1 .. Len(keys)
    BY <1>1
<1>3. DOMAIN disk = 1 .. Len(disk) /\ DOMAIN answered = 1 .. Len(answered)
    BY DEF FilesTypeOK
<1>4. DOMAIN disk = DOMAIN keys /\ DOMAIN answered = DOMAIN keys
    BY <1>2, <1>3, Zenon DEF FilesTypeOK
<1>5. ASSUME NEW k \in DOMAIN keys
      PROVE  /\ keys[k].type \in MediaTypes
             /\ disk[k] \in Files
             /\ answered[k] \in Tellings
  <2>1. keys[k] \in [ext : E, type : MediaTypes]
      BY <1>1, Listed, Zenon
  <2>2. k \in DOMAIN disk /\ k \in DOMAIN answered
      BY <1>4, <1>5, Zenon
  <2>3. keys[k].type \in MediaTypes
      BY <2>1, Zenon
  <2>4. disk[k] \in Files /\ answered[k] \in Tellings
      BY <2>2, Listed, Zenon DEF FilesTypeOK
  <2> QED BY <2>3, <2>4, Zenon
<1> QED BY <1>2, <1>4, <1>5, Zenon

\* A file that is left alone is as told if it was.
LEMMA SameFile ==
    ASSUME NEW k, disk'[k] = disk[k], answered'[k] = answered[k], keys'[k] = keys[k]
    PROVE  AsTold(k)' <=> AsTold(k)
BY Zenon DEF AsTold

\* A request that does not write a key leaves it alone.
LEMMA OtherKey ==
    ASSUME NEW k, KeyOK(k), NEW r \in Requests, \A q \in Requests \ {r} : req'[q] = req[q],
           ~IsWriter(r, k), ~IsWriter(r, k)',
           disk'[k] = disk[k], answered'[k] = answered[k], keys'[k] = keys[k]
    PROVE  KeyOK(k)'
<1>1. AsTold(k)' <=> AsTold(k)
    BY SameFile, Zenon
<1>2. \A q \in Requests : IsWriter(q, k)' <=> IsWriter(q, k)
    BY Zenon DEF IsWriter
<1>3. \A q \in Requests : IsWriter(q, k) => (Progress(q, k)' <=> Progress(q, k))
    BY <1>1, Zenon DEF Progress
<1> QED BY <1>1, <1>2, <1>3, Zenon DEF KeyOK

\* The only writer of a key goes on, or ends and leaves the key as told.
LEMMA OwnKey ==
    ASSUME NEW k, KeyOK(k), NEW r \in Requests, \A q \in Requests \ {r} : req'[q] = req[q],
           IsWriter(r, k), IsWriter(r, k)' => Progress(r, k)', ~IsWriter(r, k)' => AsTold(k)'
    PROVE  KeyOK(k)'
<1>1. \A q \in Requests : IsWriter(q, k)' => q = r
    BY Zenon DEF KeyOK, IsWriter
<1> QED BY <1>1, Zenon DEF KeyOK

\* What a record of a request must be for the invariant.
RecordOK(rec) ==
    /\ rec \in Records
    /\ rec.pc \in {"create", "copy", "meta", "unlink"} <=> rec.op \in Writers
    /\ rec.op \in Writers => /\ rec.key \in DOMAIN keys
                             /\ rec.pc # "unlink" => rec.type = keys[rec.key].type
    /\ rec.pc = "stat" => rec.key \in DOMAIN keys

\* The requests are as they should be when the one that changed is.
LEMMA OneRequest ==
    ASSUME FilesTypeOK, RequestsInv, NEW r \in Requests, NEW rec, req' = [req EXCEPT ![r] = rec],
           RecordOK(rec)', \A k \in DOMAIN keys : k \in DOMAIN keys' /\ keys'[k] = keys[k]
    PROVE  /\ req' \in [Requests -> Records] /\ RequestsInv'
           /\ req'[r] = rec /\ \A q \in Requests \ {r} : req'[q] = req[q]
<1>1. rec \in Records
    BY Zenon DEF RecordOK
<1>2. req \in [Requests -> Records]
    BY Zenon DEF FilesTypeOK
<1> HIDE DEF Records
<1>3. /\ req' \in [Requests -> Records]
      /\ req'[r] = rec /\ \A q \in Requests \ {r} : req'[q] = req[q]
    BY <1>1, <1>2, Zenon
<1>4. ASSUME NEW q \in Requests, q # r
      PROVE  /\ req'[q].pc \in {"create", "copy", "meta", "unlink"} => IsWriter(q, req[q].key)'
             /\ req'[q].op \in Writers => req'[q].key \in DOMAIN keys' /\ WriterAt(q)'
             /\ req'[q].pc = "stat" => req'[q].key \in DOMAIN keys'
    BY <1>3, <1>4 DEF RequestsInv, WriterAt, IsWriter
<1>5. /\ req'[r].pc \in {"create", "copy", "meta", "unlink"} => IsWriter(r, req[r].key)'
      /\ req'[r].op \in Writers => req'[r].key \in DOMAIN keys' /\ WriterAt(r)'
      /\ req'[r].pc = "stat" => req'[r].key \in DOMAIN keys'
    BY <1>3, Zenon DEF RecordOK, WriterAt, IsWriter, Writers
<1>6. RequestsInv'
    BY <1>3, <1>4, <1>5, Zenon DEF RequestsInv
<1> QED BY <1>3, <1>6, Zenon

\* A request at work on a key is its writer.
LEMMA AtWork ==
    ASSUME StorageIInv, NEW r \in Requests, req[r].pc \in {"create", "copy", "meta", "unlink"}
    PROVE  /\ IsWriter(r, req[r].key) /\ req[r].key \in DOMAIN keys /\ req[r].op \in Writers
           /\ req[r] \in Records /\ RecordOK(req[r])
           /\ disk[req[r].key] \in Files /\ answered[req[r].key] \in Tellings
           /\ req[r].key \notin torn => Progress(r, req[r].key)
<1>1. IsWriter(r, req[r].key)
    BY Zenon DEF StorageIInv, RequestsInv
<1>2. req[r].op \in Writers
    BY <1>1, Zenon DEF IsWriter, Writers
<1>3. req[r].key \in DOMAIN keys /\ WriterAt(r)
    BY <1>2, Zenon DEF StorageIInv, RequestsInv
<1>4. req[r] \in Records
    BY Zenon DEF StorageIInv, FilesTypeOK
<1>5. RecordOK(req[r])
    BY <1>2, <1>3, <1>4, Zenon DEF RecordOK, WriterAt
<1>6. disk[req[r].key] \in Files /\ answered[req[r].key] \in Tellings
    BY <1>3, KeyNumbers, Zenon DEF StorageIInv
<1>7. req[r].key \notin torn => Progress(r, req[r].key)
    BY <1>1, <1>3, Zenon DEF StorageIInv, KeysInv, KeyOK
<1> QED BY <1>1, <1>2, <1>3, <1>4, <1>5, <1>6, <1>7, Zenon

\* A step of a writer: it goes on with its key, or it is answered.
LEMMA WriterStep ==
    ASSUME StorageIInv, NEW r \in Requests, req[r].pc \in {"create", "copy", "meta", "unlink"},
           NEW key, key = req[r].key, UNCHANGED <<urls, keys, saves, torn>>,
           NEW rec, req' = [req EXCEPT ![r] = rec], RecordOK(rec), rec.op \in Writers => rec.key = key,
           NEW file \in Files, disk' = [disk EXCEPT ![key] = file],
           NEW answer \in Tellings, answered' = [answered EXCEPT ![key] = answer],
           key \notin torn => IF rec.op \in Writers THEN rec.pc # "create" /\ Written(rec, file.content)
                                                  ELSE ToldOf(answer, file, keys[key].type)
    PROVE  StorageIInv'
<1>1. IsWriter(r, key) /\ key \in DOMAIN keys
    BY AtWork, Zenon
<1>2. PICK E : keys \in Seq([ext : E, type : MediaTypes])
    BY Zenon DEF StorageIInv, FilesTypeOK
<1>3. FilesTypeOK /\ DOMAIN disk = DOMAIN keys /\ DOMAIN answered = DOMAIN keys
    BY KeyNumbers, Zenon DEF StorageIInv
<1>4. /\ disk' \in Seq(Files) /\ Len(disk') = Len(disk)
      /\ disk'[key] = file /\ \A k \in DOMAIN keys \ {key} : disk'[k] = disk[k]
  <2>1. disk \in Seq(Files) /\ key \in DOMAIN disk
      BY <1>1, <1>3, Zenon DEF FilesTypeOK
  <2> QED BY <1>3, <2>1, Replaced
<1>5. /\ answered' \in Seq(Tellings) /\ Len(answered') = Len(answered)
      /\ answered'[key] = answer /\ \A k \in DOMAIN keys \ {key} : answered'[k] = answered[k]
  <2>1. answered \in Seq(Tellings) /\ key \in DOMAIN answered
      BY <1>1, <1>3, Zenon DEF FilesTypeOK
  <2> QED BY <1>3, <2>1, Replaced
<1>6. RecordOK(rec)'
    BY Zenon DEF RecordOK
<1>7. /\ req' \in [Requests -> Records] /\ RequestsInv'
      /\ req'[r] = rec /\ \A q \in Requests \ {r} : req'[q] = req[q]
    BY <1>3, <1>6, OneRequest, Zenon DEF StorageIInv
<1>8. FilesTypeOK'
    BY <1>2, <1>3, <1>4, <1>5, <1>7, Zenon DEF FilesTypeOK
<1>9. UrlsInv'
    BY Zenon DEF StorageIInv, UrlsInv
<1>10. ASSUME NEW k \in DOMAIN keys \ torn, k # key
       PROVE  KeyOK(k)'
  <2>1. KeyOK(k)
      BY <1>10, Zenon DEF StorageIInv, KeysInv
  <2>2. ~IsWriter(r, k) /\ ~IsWriter(r, k)'
      BY <1>7, <1>10, Zenon DEF IsWriter, Writers
  <2> QED BY <1>4, <1>5, <1>7, <1>10, <2>1, <2>2, OtherKey, Zenon
<1>11. ASSUME key \notin torn
       PROVE  KeyOK(key)'
  <2>1. KeyOK(key)
      BY <1>1, <1>11, Zenon DEF StorageIInv, KeysInv
  <2>2. IsWriter(r, key)' <=> rec.op \in Writers
      BY <1>7, Zenon DEF IsWriter, Writers
  <2>3. IsWriter(r, key)' => Progress(r, key)'
      BY <1>4, <1>7, <1>11, <2>2, Zenon DEF Progress
  <2>4. ~IsWriter(r, key)' => AsTold(key)'
      BY <1>4, <1>5, <1>11, <2>2, Zenon DEF AsTold
  <2> QED BY <1>1, <1>7, <2>1, <2>3, <2>4, OwnKey, Zenon
<1>12. KeysInv'
    BY <1>10, <1>11, Zenon DEF KeysInv
<1> QED BY <1>7, <1>8, <1>9, <1>12, Zenon DEF StorageIInv

\* The larger of two numbers.
LEMMA MaxOfTwo == ASSUME NEW a \in Nat, NEW b \in Nat PROVE Max({a, b}) \in Nat /\ (a <= b => Max({a, b}) = b)
BY DEF Max

\* The smaller of two numbers.
LEMMA MinOfTwo == ASSUME NEW a \in Nat, NEW b \in Nat PROVE Min({a, b}) <= a /\ Min({a, b}) \in Nat
BY DEF Min

\* What is left alone is replaced by itself.
LEMMA NothingReplaced ==
    ASSUME StorageIInv, NEW k \in DOMAIN keys
    PROVE  disk = [disk EXCEPT ![k] = disk[k]] /\ answered = [answered EXCEPT ![k] = answered[k]]
BY KeyNumbers DEF StorageIInv, FilesTypeOK

\* A writer goes on with its key.
LEMMA GoesOnStep ==
    ASSUME StorageIInv, NEW r \in Requests, req[r].pc \in {"create", "copy", "meta", "unlink"},
           NEW key, key = req[r].key, UNCHANGED <<urls, keys, saves, torn, answered>>,
           NEW rec, req' = [req EXCEPT ![r] = rec], RecordOK(rec),
           rec.op \in Writers, rec.key = key, rec.pc # "create",
           NEW file \in Files, disk' = [disk EXCEPT ![key] = file],
           key \notin torn => Written(rec, file.content)
    PROVE  StorageIInv'
<1>1. key \in DOMAIN keys /\ answered[key] \in Tellings
    BY AtWork, Zenon
<1>2. answered' = [answered EXCEPT ![key] = answered[key]]
    BY <1>1, NothingReplaced, Zenon
<1>3. UNCHANGED <<urls, keys, saves, torn>>
    BY Zenon
<1>4. key \notin torn => IF rec.op \in Writers THEN rec.pc # "create" /\ Written(rec, file.content)
                                               ELSE ToldOf(answered[key], file, keys[key].type)
    BY Zenon
<1> QED BY <1>1, <1>2, <1>3, <1>4, WriterStep, Zenon

\* The file is created, or truncated: nothing of it is written yet (Save).
LEMMA CreatesStep == ASSUME StorageIInv, NEW r \in Requests, Creates(r) PROVE StorageIInv'
<1>1. PICK key : key = req[r].key
    BY Zenon
<1> DEFINE ino == IF ContentOf(r) = Absent THEN req[r].save ELSE ContentOf(r).ino
           content == [ino |-> ino, data |-> <<>>]
           rec == [req[r] EXCEPT !.pc = "copy", !.ino = ino]
           file == [disk[key] EXCEPT !.content = content]
<1>2. /\ key \in DOMAIN keys /\ req[r].op \in Writers /\ req[r] \in Records /\ RecordOK(req[r])
      /\ disk[key] \in Files /\ answered[key] \in Tellings
      /\ key \notin torn => Progress(r, key)
      /\ req[r].pc = "create"
    BY <1>1, AtWork, Zenon DEF Creates, At
<1>3. ino \in Nat
    BY <1>1, <1>2, Zenon DEF ContentOf, Files, Contents, Records
<1>4. file \in Files /\ file.content = content
  <2>1. content \in Contents
      BY <1>3 DEF Contents
  <2> QED BY <1>2, <2>1, Zenon DEF Files
<1>5. /\ rec \in Records /\ rec.pc = "copy" /\ rec.ino = ino
      /\ rec.op = req[r].op /\ rec.key = key /\ rec.type = req[r].type /\ rec.done = req[r].done
      /\ rec.size = req[r].size /\ rec.save = req[r].save
    BY <1>1, <1>2, <1>3, Zenon DEF Records
<1>6. RecordOK(rec)
    BY <1>2, <1>5, <1>1, Zenon DEF RecordOK
<1>7. /\ req' = [req EXCEPT ![r] = rec] /\ disk' = [disk EXCEPT ![key] = file]
      /\ UNCHANGED <<urls, keys, saves, torn, answered>>
    BY <1>1, Zenon DEF Creates
<1>8. key \notin torn => Written(rec, file.content)
  <2>1. ASSUME key \notin torn PROVE req[r].done = 0 /\ 0 <= req[r].size
      BY <1>2, <2>1 DEF Progress, Written, Records
  <2> QED BY <1>4, <1>5, <2>1 DEF Written
<1> HIDE DEF rec, file
<1>9. req[r].pc \in {"create", "copy", "meta", "unlink"} /\ rec.op \in Writers /\ rec.key = key /\ rec.pc # "create"
    BY <1>2, <1>5, Zenon
<1> QED BY <1>1, <1>4, <1>6, <1>7, <1>8, <1>9, GoesOnStep, Zenon

\* The record of no request.
LEMMA NoRequestOK == NoRequest \in Records /\ NoRequest.op \notin Writers /\ RecordOK(NoRequest)
BY Zenon DEF NoRequest, Records, Writers, RecordOK, None

\* A writer is answered.
LEMMA AnsweredStep ==
    ASSUME StorageIInv, NEW r \in Requests, req[r].pc \in {"create", "copy", "meta", "unlink"},
           NEW key, key = req[r].key, UNCHANGED <<urls, keys, saves, torn>>,
           NEW file \in Files, disk' = [disk EXCEPT ![key] = file],
           NEW answer \in Tellings, Replies(r, answer),
           key \notin torn => ToldOf(IF answer = NoAnswer THEN answered[key] ELSE answer, file, keys[key].type)
    PROVE  StorageIInv'
<1> DEFINE last == IF answer = NoAnswer THEN answered[key] ELSE answer
<1>1. key \in DOMAIN keys /\ answered[key] \in Tellings
    BY AtWork, Zenon
<1>2. last \in Tellings
    BY <1>1, Zenon
<1>3. answered' = [answered EXCEPT ![key] = last]
  <2>1. CASE answer = NoAnswer
      BY <1>1, <2>1, NothingReplaced, Zenon DEF Replies
  <2>2. CASE answer # NoAnswer
      BY <2>2, Zenon DEF Replies
  <2> QED BY <2>1, <2>2, Zenon
<1>4. req' = [req EXCEPT ![r] = NoRequest]
    BY Zenon DEF Replies
<1>5. key \notin torn => ToldOf(last, file, keys[key].type)
    BY Zenon
<1> HIDE DEF last
<1> QED BY <1>2, <1>3, <1>4, <1>5, NoRequestOK, WriterStep, Zenon

\* What a writer may be told.
LEMMA AnswersOK ==
    /\ NoAnswer \in Tellings
    /\ Told("deleted") \in Tellings /\ Told("undeleted") \in Tellings
    /\ Told("deleted").what = "deleted" /\ Told("undeleted").what = "undeleted"
    /\ NoAnswer.what = None
BY Zenon DEF NoAnswer, Told, Tellings, None

\* A file that loses its content.
LEMMA ContentGone ==
    ASSUME NEW file \in Files
    PROVE  LET gone == [file EXCEPT !.content = Absent] IN gone \in Files /\ gone.content = Absent /\ gone.meta = file.meta
<1>1. Absent \in Contents
    BY DEF Absent, Contents
<1> QED BY <1>1, Zenon DEF Files

\* A file whose content is what a failing writer leaves.
LEMMA LeftInFiles ==
    ASSUME NEW r \in Requests, NEW file \in Files, file.content = disk[req[r].key].content,
           NEW left \in Left(r)
    PROVE  LET kept == [file EXCEPT !.content = left] IN
           kept \in Files /\ kept.content = left /\ kept.meta = file.meta
<1>1. Absent \in Contents
    BY DEF Absent, Contents
<1>2. left \in Contents
    BY <1>1, Zenon DEF Left, ContentOf, Files
<1> QED BY <1>2, Zenon DEF Files

\* It could not be created: the file is as it was.
LEMMA CreateFailsStep == ASSUME StorageIInv, NEW r \in Requests, CreateFails(r) PROVE StorageIInv'
<1>1. PICK key : key = req[r].key
    BY Zenon
<1>2. /\ key \in DOMAIN keys /\ disk[key] \in Files /\ req[r].pc = "create"
      /\ key \notin torn => ToldOf(answered[key], disk[key], keys[key].type)
    BY <1>1, AtWork, Zenon DEF CreateFails, At, Progress, AsTold
<1>3. disk' = [disk EXCEPT ![key] = disk[key]] /\ Replies(r, NoAnswer) /\ UNCHANGED <<urls, keys, saves, torn>>
    BY <1>2, NothingReplaced, Zenon DEF CreateFails
<1>4. key \notin torn => ToldOf(IF NoAnswer = NoAnswer THEN answered[key] ELSE NoAnswer, disk[key], keys[key].type)
    BY <1>2, Zenon
<1>5. req[r].pc \in {"create", "copy", "meta", "unlink"}
    BY <1>2, Zenon
<1> QED BY <1>1, <1>2, <1>3, <1>4, <1>5, AnswersOK, AnsweredStep, Zenon

\* A file that a failing writer leaves is as that writer is told: it is gone, or what the
\* writer wrote.
LEMMA LeftAsTold ==
    ASSUME StorageIInv, NEW r \in Requests, req[r].pc \in {"copy", "meta"}, NEW key, key = req[r].key,
           NEW file \in Files, file.content \in Left(r), key \notin torn
    PROVE  ToldOf(Failed(r), file, keys[key].type)
<1>1. /\ key \in DOMAIN keys /\ req[r] \in Records /\ Progress(r, key)
    BY AtWork, Zenon
<1>2. req[r].size \in Nat /\ req[r].done \in Nat
    BY <1>1, Zenon DEF Records
<1>3. /\ Failed(r).what = "failed" /\ Failed(r).save = req[r].save /\ Failed(r).size = req[r].size
    BY Zenon DEF Failed
<1>4. \E n \in 0 .. req[r].size : file.content.data = [j \in 1 .. n |-> req[r].save]
  <2>1. CASE file.content = Absent
    <3>1. file.content.data = [j \in 1 .. 0 |-> req[r].save]
        BY <2>1 DEF Absent
    <3> QED BY <1>2, <3>1
  <2>2. CASE file.content = disk[key].content /\ req[r].pc = "copy"
    <3>1. PICK d : d = [j \in 1 .. req[r].done |-> req[r].save]
        BY Zenon
    <3>2. disk[key].content = [ino |-> req[r].ino, data |-> d] /\ req[r].done <= req[r].size
        BY <1>1, <2>2, <3>1, Zenon DEF Progress, Written
    <3>3. file.content.data = d
        BY <2>2, <3>2
    <3>4. req[r].done \in 0 .. req[r].size
        BY <1>2, <3>2
    <3> QED BY <3>1, <3>3, <3>4, Zenon
  <2>3. CASE file.content = disk[key].content /\ req[r].pc = "meta"
    <3>1. disk[key].content.data = [j \in 1 .. req[r].size |-> req[r].save]
        BY <1>1, <2>3, Zenon DEF Progress, Written
    <3>2. req[r].size \in 0 .. req[r].size
        BY <1>2
    <3> QED BY <2>3, <3>1, <3>2, Zenon
  <2> QED BY <2>1, <2>2, <2>3, Zenon DEF Left, ContentOf
<1> QED BY <1>3, <1>4, Zenon DEF ToldOf, None

\* What a writer that failed is told is an answer.
LEMMA FailedOK ==
    ASSUME StorageIInv, NEW r \in Requests, req[r].pc \in {"copy", "meta"}
    PROVE  Failed(r) \in Tellings /\ Failed(r) # NoAnswer
<1>1. req[r] \in Records
    BY AtWork, Zenon
<1> QED BY <1>1, Zenon DEF Failed, Records, Tellings, NoAnswer, None

\* A copy that fails removes the file or leaves its own part of it (Save).
LEMMA CopyFailsStep == ASSUME StorageIInv, NEW r \in Requests, CopyFails(r) PROVE StorageIInv'
<1>1. PICK key : key = req[r].key
    BY Zenon
<1>2. req[r].pc = "copy" /\ disk[key] \in Files
    BY <1>1, AtWork, Zenon DEF CopyFails, At
<1>3. PICK left \in Left(r) : disk' = [disk EXCEPT ![key].content = left]
    BY <1>1, Zenon DEF CopyFails
<1> DEFINE file == [disk[key] EXCEPT !.content = left]
<1>4. file \in Files /\ file.content = left
    BY <1>1, <1>2, LeftInFiles, Zenon
<1>5. disk' = [disk EXCEPT ![key] = file] /\ Replies(r, Failed(r)) /\ UNCHANGED <<urls, keys, saves, torn>>
    BY <1>1, <1>3, Zenon DEF CopyFails
<1> HIDE DEF file
<1>6. req[r].pc \in {"copy", "meta"} /\ req[r].pc \in {"create", "copy", "meta", "unlink"}
    BY <1>2, Zenon
<1>7. Failed(r) \in Tellings /\ Failed(r) # NoAnswer
    BY <1>6, FailedOK, Zenon
<1>8. key \notin torn => ToldOf(Failed(r), file, keys[key].type)
    BY <1>1, <1>4, <1>6, LeftAsTold, Zenon
<1>9. key \notin torn => ToldOf(IF Failed(r) = NoAnswer THEN answered[key] ELSE Failed(r), file, keys[key].type)
    BY <1>7, <1>8, Zenon
<1> QED BY <1>1, <1>4, <1>5, <1>6, <1>7, <1>9, AnsweredStep, Zenon

\* One more byte is copied.
LEMMA CopiesStep == ASSUME StorageIInv, NEW r \in Requests, Copies(r) PROVE StorageIInv'
<1>1. PICK key : key = req[r].key
    BY Zenon
<1>0. PICK n : n = req[r].done + 1
    BY Zenon
<1> DEFINE rec == [req[r] EXCEPT !.done = n]
           content == IF ContentOf(r).ino = req[r].ino
                      THEN [disk[key].content EXCEPT !.data = WrittenAt(disk[key].content.data, n, req[r].save)]
                      ELSE disk[key].content
           file == [disk[key] EXCEPT !.content = content]
<1>2. /\ key \in DOMAIN keys /\ req[r].op \in Writers /\ req[r] \in Records /\ RecordOK(req[r])
      /\ disk[key] \in Files /\ answered[key] \in Tellings
      /\ key \notin torn => Progress(r, key)
      /\ req[r].pc = "copy"
    BY <1>1, AtWork, Zenon DEF Copies, At
<1>3. /\ req[r].done \in Nat /\ req[r].size \in Nat /\ req[r].max \in Nat /\ req[r].save \in Nat
      /\ disk[key].content.ino \in Nat /\ disk[key].content.data \in Seq(Nat)
      /\ DOMAIN disk[key].content = {"ino", "data"} /\ disk[key].content \in Contents
    BY <1>2, Zenon DEF Records, Files, Contents
<1>4. n \in Nat /\ n <= req[r].size
  <2>1. Min({req[r].size, req[r].max}) <= req[r].size /\ Min({req[r].size, req[r].max}) \in Nat
      BY <1>3, MinOfTwo, Zenon
  <2>2. n <= Min({req[r].size, req[r].max})
      BY <1>0, Zenon DEF Copies
  <2> QED BY <1>0, <1>3, <2>1, <2>2
<1>5. WrittenAt(disk[key].content.data, n, req[r].save) \in Seq(Nat)
  <2>1. PICK d \in Seq(Nat) : d = disk[key].content.data
      BY <1>3, Zenon
  <2>2. PICK m \in Nat : m = Max({Len(d), n})
    <3>1. Len(d) \in Nat
        OBVIOUS
    <3> QED BY <1>4, <3>1, MaxOfTwo, Zenon
  <2>3. WrittenAt(d, n, req[r].save) \in Seq(Nat)
    <3>1. \A j \in 1 .. m : (IF j = n THEN req[r].save ELSE IF j <= Len(d) THEN d[j] ELSE 0) \in Nat
        BY <1>3
    <3>2. [j \in 1 .. m |-> IF j = n THEN req[r].save ELSE IF j <= Len(d) THEN d[j] ELSE 0] \in Seq(Nat)
        BY <3>1
    <3> QED BY <2>2, <3>2, Zenon DEF WrittenAt
  <2> QED BY <2>1, <2>3, Zenon
<1>6. content \in Contents
    BY <1>3, <1>5, Zenon DEF Contents
<1>7. file \in Files /\ file.content = content
  <2> HIDE DEF content
  <2> QED BY <1>2, <1>6, Zenon DEF Files
<1>8. /\ rec \in Records /\ rec.pc = "copy" /\ rec.ino = req[r].ino
      /\ rec.op = req[r].op /\ rec.key = key /\ rec.type = req[r].type /\ rec.done = n
      /\ rec.size = req[r].size /\ rec.save = req[r].save
    BY <1>1, <1>2, <1>4, Zenon DEF Records
<1>9. RecordOK(rec)
    BY <1>1, <1>2, <1>8, Zenon DEF RecordOK
<1>10. req' = [req EXCEPT ![r] = rec] /\ UNCHANGED <<urls, keys, saves, torn, answered>>
    BY <1>0, Zenon DEF Copies
<1>11. disk' = [disk EXCEPT ![key] = file]
  <2>1. CASE ContentOf(r).ino = req[r].ino
      BY <1>0, <1>1, <2>1, Zenon DEF Copies
  <2>2. CASE ContentOf(r).ino # req[r].ino
    <3>1. file = disk[key]
        BY <1>2, <2>2, Zenon DEF Files
    <3>2. disk' = disk
        BY <2>2, Zenon DEF Copies
    <3> QED BY <1>2, <3>1, <3>2, NothingReplaced, Zenon
  <2> QED BY <2>1, <2>2, Zenon
<1>12. key \notin torn => Written(rec, file.content)
  <2>1. ASSUME key \notin torn
        PROVE  disk[key].content = [ino |-> req[r].ino, data |-> [j \in 1 .. req[r].done |-> req[r].save]]
      BY <1>2, <2>1, Zenon DEF Progress, Written
  <2>2. ASSUME key \notin torn
        PROVE  content = [ino |-> req[r].ino, data |-> [j \in 1 .. n |-> req[r].save]]
    <3>1. PICK d : d = [j \in 1 .. req[r].done |-> req[r].save]
        BY Zenon
    <3>2. Len(d) = req[r].done /\ d \in Seq(Nat)
        BY <1>3, <3>1
    <3>3. Max({Len(d), n}) = n
      <4>1. Len(d) \in Nat /\ n \in Nat /\ Len(d) <= n
          BY <1>0, <1>3, <3>2
      <4> QED BY <4>1, MaxOfTwo, Zenon
    <3>4. WrittenAt(d, n, req[r].save) = [j \in 1 .. n |-> req[r].save]
      <4>1. \A j \in 1 .. n : (IF j = n THEN req[r].save ELSE IF j <= Len(d) THEN d[j] ELSE 0) = req[r].save
          BY <1>0, <1>3, <3>1, <3>2
      <4> QED BY <3>3, <4>1, Zenon DEF WrittenAt
    <3>5. disk[key].content.data = d /\ disk[key].content.ino = req[r].ino
      <4>1. disk[key].content = [ino |-> req[r].ino, data |-> d]
          BY <2>1, <2>2, <3>1, Zenon
      <4> QED BY <4>1
    <3> QED BY <1>1, <1>3, <3>4, <3>5, Zenon DEF ContentOf
  <2> QED BY <1>4, <1>7, <1>8, <2>2, Zenon DEF Written
<1> HIDE DEF rec, file
<1>13. req[r].pc \in {"create", "copy", "meta", "unlink"} /\ rec.op \in Writers /\ rec.key = key /\ rec.pc # "create"
    BY <1>2, <1>8, Zenon
<1> QED BY <1>1, <1>7, <1>9, <1>10, <1>11, <1>12, <1>13, GoesOnStep, Zenon

\* All bytes are copied.
LEMMA CopyEndsStep == ASSUME StorageIInv, NEW r \in Requests, CopyEnds(r) PROVE StorageIInv'
<1>1. PICK key : key = req[r].key
    BY Zenon
<1> DEFINE rec == [req[r] EXCEPT !.pc = "meta"]
<1>2. /\ key \in DOMAIN keys /\ req[r].op \in Writers /\ req[r] \in Records /\ RecordOK(req[r])
      /\ disk[key] \in Files /\ answered[key] \in Tellings
      /\ key \notin torn => Progress(r, key)
      /\ req[r].pc = "copy"
    BY <1>1, AtWork, Zenon DEF CopyEnds, At
<1>3. /\ rec \in Records /\ rec.pc = "meta" /\ rec.op = req[r].op /\ rec.key = key /\ rec.type = req[r].type
      /\ rec.size = req[r].size /\ rec.save = req[r].save
    BY <1>1, <1>2, Zenon DEF Records
<1>4. RecordOK(rec)
    BY <1>1, <1>2, <1>3, Zenon DEF RecordOK
<1>5. /\ req' = [req EXCEPT ![r] = rec] /\ UNCHANGED <<urls, keys, saves, torn, answered, disk>>
      /\ req[r].done = req[r].size
    BY Zenon DEF CopyEnds
<1>6. key \notin torn => Written(rec, disk[key].content)
  <2>1. ASSUME key \notin torn
        PROVE  disk[key].content = [ino |-> req[r].ino, data |-> [j \in 1 .. req[r].size |-> req[r].save]]
      BY <1>2, <1>5, <2>1, Zenon DEF Progress, Written
  <2>2. ASSUME key \notin torn
        PROVE  disk[key].content.data = [j \in 1 .. req[r].size |-> req[r].save]
    <3>1. PICK d : d = [j \in 1 .. req[r].size |-> req[r].save]
        BY Zenon
    <3>2. disk[key].content = [ino |-> req[r].ino, data |-> d]
        BY <2>1, <2>2, <3>1, Zenon
    <3> QED BY <3>1, <3>2
  <2> QED BY <1>3, <2>2, Zenon DEF Written
<1>7. disk' = [disk EXCEPT ![key] = disk[key]]
    BY <1>2, <1>5, NothingReplaced, Zenon
<1> HIDE DEF rec
<1>8. /\ req[r].pc \in {"create", "copy", "meta", "unlink"} /\ UNCHANGED <<urls, keys, saves, torn, answered>>
      /\ rec.op \in Writers /\ rec.key = key /\ rec.pc # "create"
    BY <1>2, <1>3, <1>5, Zenon
<1> QED BY <1>1, <1>2, <1>4, <1>5, <1>6, <1>7, <1>8, GoesOnStep, Zenon

\* The type is written and the caller is told: the file is what they are told (Save).
LEMMA WritesMetaStep == ASSUME StorageIInv, NEW r \in Requests, WritesMeta(r) PROVE StorageIInv'
<1>1. PICK key : key = req[r].key
    BY Zenon
<1> DEFINE file == [disk[key] EXCEPT !.meta = req[r].type]
           answer == [what |-> "stored", save |-> req[r].save, size |-> req[r].size]
<1>2. /\ key \in DOMAIN keys /\ req[r] \in Records /\ RecordOK(req[r]) /\ req[r].op \in Writers
      /\ disk[key] \in Files
      /\ key \notin torn => Progress(r, key)
      /\ req[r].pc = "meta"
    BY <1>1, AtWork, Zenon DEF WritesMeta, At
<1>3. req[r].type = keys[key].type /\ req[r].type \in MediaTypes /\ req[r].save \in Nat /\ req[r].size \in Nat
    BY <1>1, <1>2, KeyNumbers, Zenon DEF StorageIInv, RecordOK, Records
<1>4. file \in Files /\ file.meta = req[r].type /\ file.content = disk[key].content
    BY <1>2, <1>3, Zenon DEF Files
<1>5. answer \in Tellings /\ answer # NoAnswer
    BY <1>3, Zenon DEF Tellings, NoAnswer, None
<1>6. disk' = [disk EXCEPT ![key] = file] /\ Replies(r, answer) /\ UNCHANGED <<urls, keys, saves, torn>>
    BY <1>1, Zenon DEF WritesMeta
<1>7. key \notin torn => ToldOf(answer, file, keys[key].type)
  <2>1. key \notin torn => disk[key].content.data = [j \in 1 .. req[r].size |-> req[r].save]
      BY <1>2, Zenon DEF Progress, Written
  <2> QED BY <1>3, <1>4, <2>1, StorageAssumption, Zenon DEF ToldOf, None
<1> HIDE DEF file, answer
<1>8. key \notin torn => ToldOf(IF answer = NoAnswer THEN answered[key] ELSE answer, file, keys[key].type)
    BY <1>5, <1>7, Zenon
<1>9. req[r].pc \in {"create", "copy", "meta", "unlink"}
    BY <1>2, Zenon
<1> QED BY <1>1, <1>4, <1>5, <1>6, <1>8, <1>9, AnsweredStep, Zenon

\* If the type cannot be written the file is removed or left (Save).
LEMMA MetaFailsStep == ASSUME StorageIInv, NEW r \in Requests, MetaFails(r) PROVE StorageIInv'
<1>1. PICK key : key = req[r].key
    BY Zenon
<1>2. req[r].pc = "meta" /\ disk[key] \in Files /\ req[r].type \in MediaTypes \cup {None}
    BY <1>1, AtWork, Zenon DEF MetaFails, At, Records
<1>3. PICK meta \in {disk[key].meta, None, req[r].type}, left \in Left(r) :
         disk' = [disk EXCEPT ![key].meta = meta, ![key].content = left]
    BY <1>1, Zenon DEF MetaFails
<1> DEFINE kept == [disk[key] EXCEPT !.meta = meta]
           file == [kept EXCEPT !.content = left]
<1>4. kept \in Files /\ kept.content = disk[req[r].key].content
    BY <1>1, <1>2, Zenon DEF Files
<1>5. file \in Files /\ file.content = left
  <2> HIDE DEF kept
  <2> QED BY <1>4, LeftInFiles, Zenon
<1>6. disk' = [disk EXCEPT ![key] = file]
    BY <1>3, Zenon
<1>7. Replies(r, Failed(r)) /\ UNCHANGED <<urls, keys, saves, torn>>
    BY Zenon DEF MetaFails
<1> HIDE DEF file
<1>8. req[r].pc \in {"copy", "meta"} /\ req[r].pc \in {"create", "copy", "meta", "unlink"}
    BY <1>2, Zenon
<1>9. Failed(r) \in Tellings /\ Failed(r) # NoAnswer
    BY <1>8, FailedOK, Zenon
<1>10. key \notin torn => ToldOf(Failed(r), file, keys[key].type)
    BY <1>1, <1>5, <1>8, LeftAsTold, Zenon
<1>11. key \notin torn => ToldOf(IF Failed(r) = NoAnswer THEN answered[key] ELSE Failed(r), file, keys[key].type)
    BY <1>9, <1>10, Zenon
<1> QED BY <1>1, <1>5, <1>6, <1>7, <1>8, <1>9, <1>11, AnsweredStep, Zenon

\* The content goes last (Delete).
LEMMA DeleteEndsStep == ASSUME StorageIInv, NEW r \in Requests, DeleteEnds(r) PROVE StorageIInv'
<1>1. PICK key : key = req[r].key
    BY Zenon
<1>2. /\ req[r].pc \in {"create", "copy", "meta", "unlink"} /\ UNCHANGED <<urls, keys, saves, torn>>
      /\ disk[key] \in Files /\ key \in DOMAIN keys
    BY <1>1, AtWork, Zenon DEF DeleteEnds, At
<1>3. CASE RemovesContent(r) /\ Replies(r, Told("deleted"))
  <2> DEFINE file == [disk[key] EXCEPT !.content = Absent]
  <2>1. file \in Files /\ file.content = Absent
      BY <1>2, ContentGone, Zenon
  <2>2. disk' = [disk EXCEPT ![key] = file]
      BY <1>1, <1>3, Zenon DEF RemovesContent
  <2> HIDE DEF file
  <2>3. ToldOf(IF Told("deleted") = NoAnswer THEN answered[key] ELSE Told("deleted"), file, keys[key].type)
      BY <2>1, AnswersOK, Zenon DEF ToldOf, None
  <2> QED BY <1>1, <1>2, <1>3, <2>1, <2>2, <2>3, AnswersOK, AnsweredStep, Zenon
<1>4. CASE UNCHANGED disk /\ Replies(r, Told("undeleted"))
  <2>1. disk' = [disk EXCEPT ![key] = disk[key]]
      BY <1>2, <1>4, NothingReplaced, Zenon
  <2>2. ToldOf(IF Told("undeleted") = NoAnswer THEN answered[key] ELSE Told("undeleted"), disk[key], keys[key].type)
      BY AnswersOK, Zenon DEF ToldOf, None
  <2> QED BY <1>1, <1>2, <1>4, <2>1, <2>2, AnswersOK, AnsweredStep, Zenon
<1> QED BY <1>3, <1>4, Zenon DEF DeleteEnds

-----------------------------------------------------------------------------
(***************************************************************************)
(* Requests that begin, and requests that read.                            *)
(***************************************************************************)

\* A request that is idle or reads is no writer.
LEMMA NoWriter ==
    ASSUME StorageIInv, NEW r \in Requests, req[r].pc \in {"idle", "stat", "get"}
    PROVE  \A k : ~IsWriter(r, k)
BY Zenon DEF StorageIInv, RequestsInv, WriterAt, IsWriter, Writers

\* A writer begins, on a key that was there or that is made for it.
LEMMA BeginStep ==
    ASSUME StorageIInv, FilesTypeOK', UrlsInv', NEW r \in Requests, req[r].pc = "idle",
           NEW k, NEW rec, WriterBegins(r, k, rec), RecordOK(rec)', rec.key = k, rec.op \in Writers,
           \A j \in DOMAIN keys : j \in DOMAIN keys' /\ keys'[j] = keys[j], DOMAIN keys' \subseteq DOMAIN keys \cup {k},
           \A j \in DOMAIN keys \ {k} : disk'[j] = disk[j] /\ answered'[j] = answered[j],
           k \notin torn' => /\ rec.pc = "create" => AsTold(k)'
                             /\ Written(rec, disk'[k].content)
    PROVE  StorageIInv'
<1>1. req' = [req EXCEPT ![r] = rec]
    BY Zenon DEF WriterBegins
<1>2. RequestsInv' /\ req'[r] = rec /\ \A q \in Requests \ {r} : req'[q] = req[q]
    BY <1>1, OneRequest, Zenon DEF StorageIInv
<1>3. torn \subseteq torn'
    BY Zenon DEF WriterBegins
<1>4. \A j : ~IsWriter(r, j)
    BY NoWriter, Zenon
<1>5. ASSUME NEW j \in DOMAIN keys' \ torn', j # k
      PROVE  KeyOK(j)'
  <2>1. KeyOK(j) /\ j \in DOMAIN keys
      BY <1>3, <1>5, Zenon DEF StorageIInv, KeysInv
  <2>2. ~IsWriter(r, j)'
      BY <1>2, <1>5, Zenon DEF IsWriter
  <2> QED BY <1>2, <1>4, <1>5, <2>1, <2>2, OtherKey, Zenon
<1>6. ASSUME k \notin torn'
      PROVE  KeyOK(k)'
  <2>1. \A q \in Requests : ~IsWriter(q, k)
      BY <1>6, Zenon DEF WriterBegins
  <2>2. \A q \in Requests : IsWriter(q, k)' => q = r
      BY <1>2, <2>1, Zenon DEF IsWriter
  <2>3. IsWriter(r, k)'
      BY <1>2, Zenon DEF IsWriter, Writers
  <2>4. Progress(r, k)'
      BY <1>2, <1>6, Zenon DEF Progress
  <2> QED BY <2>2, <2>3, <2>4, Zenon DEF KeyOK
<1>7. KeysInv'
    BY <1>5, <1>6, Zenon DEF KeysInv
<1> QED BY <1>2, <1>7, Zenon DEF StorageIInv

\* A request that writes nothing, before the step and after it.
LEMMA ReaderStep ==
    ASSUME StorageIInv, UrlsInv', NEW r \in Requests, req[r].pc \in {"idle", "stat", "get"},
           UNCHANGED <<keys, disk, saves, answered, torn>>,
           NEW rec \in Records, req' = [req EXCEPT ![r] = rec],
           rec.pc \in {"idle", "stat", "get"}, rec.op \notin Writers, rec.pc = "stat" => rec.key \in DOMAIN keys
    PROVE  StorageIInv'
<1>1. RecordOK(rec)'
    BY Zenon DEF RecordOK
<1>2. /\ req' \in [Requests -> Records] /\ RequestsInv'
      /\ req'[r] = rec /\ \A q \in Requests \ {r} : req'[q] = req[q]
    BY <1>1, OneRequest, Zenon DEF StorageIInv
<1>3. FilesTypeOK'
    BY <1>2, Zenon DEF StorageIInv, FilesTypeOK
<1>4. ASSUME NEW k \in DOMAIN keys \ torn PROVE KeyOK(k)'
  <2>1. KeyOK(k) /\ ~IsWriter(r, k)
      BY <1>4, NoWriter, Zenon DEF StorageIInv, KeysInv
  <2>2. ~IsWriter(r, k)'
      BY <1>2, Zenon DEF IsWriter, Writers
  <2> QED BY <1>2, <2>1, <2>2, OtherKey, Zenon
<1>5. KeysInv'
    BY <1>4, Zenon DEF KeysInv
<1> QED BY <1>2, <1>3, <1>5, Zenon DEF StorageIInv

\* The bytes that an upload URL takes (upload).
LEMMA uploadStep ==
    ASSUME StorageIInv, NEW r \in Requests, NEW u \in urls, NEW size \in Nat, upload(r, u, size)
    PROVE  StorageIInv'
<1>1. PICK k : k = u.key
    BY Zenon
<1>0. PICK rec : rec = [NoRequest EXCEPT !.pc = "create", !.op = "put", !.key = u.key, !.type = u.type,
                                    !.size = size, !.max = u.max, !.save = saves + 1]
    BY Zenon
<1>2. /\ req[r].pc = "idle" /\ WriterBegins(r, k, rec) /\ saves' = saves + 1
      /\ UNCHANGED <<urls, keys, disk, answered>> /\ u.op = "put"
    BY <1>0, <1>1, Zenon DEF upload, Free, VerifyToken
<1>3. k \in DOMAIN keys /\ u.type = keys[k].type /\ u.max \in Nat
    BY <1>1, <1>2, Zenon DEF StorageIInv, UrlsInv
<1>4. saves \in Nat /\ k \in Nat /\ u.type \in MediaTypes
  <2>1. DOMAIN keys = 1 .. Len(keys) /\ Len(keys) \in Nat /\ keys[k].type \in MediaTypes
      BY <1>3, KeyNumbers, Zenon DEF StorageIInv
  <2>2. saves \in Nat
      BY Zenon DEF StorageIInv, FilesTypeOK
  <2> QED BY <1>3, <2>1, <2>2
<1>5. /\ rec \in Records /\ rec.pc = "create" /\ rec.op = "put" /\ rec.key = k /\ rec.type = u.type /\ rec.done = 0
  <2>1. saves + 1 \in Nat
      BY <1>4
  <2>2. rec = [NoRequest EXCEPT !.pc = "create", !.op = "put", !.key = k, !.type = u.type,
                                !.size = size, !.max = u.max, !.save = saves + 1]
      BY <1>0, <1>1, Zenon
  <2> QED BY <1>3, <1>4, <2>1, <2>2, Zenon DEF NoRequest, Records, Writers
<1>6. rec.op \in Writers
    BY <1>5, Zenon DEF Writers
<1>7. RecordOK(rec)'
    BY <1>2, <1>3, <1>5, <1>6, Zenon DEF RecordOK
<1>8. FilesTypeOK' /\ UrlsInv'
  <2>1. req' \in [Requests -> Records]
      BY <1>2, <1>5, Zenon DEF StorageIInv, FilesTypeOK, WriterBegins
  <2>2. saves' \in Nat
      BY <1>2, <1>4
  <2> QED BY <1>2, <2>1, <2>2, Zenon DEF StorageIInv, FilesTypeOK, UrlsInv
<1>9. ASSUME k \notin torn' PROVE AsTold(k)'
  <2>1. k \notin torn /\ \A q \in Requests : ~IsWriter(q, k)
      BY <1>2, <1>9, Zenon DEF WriterBegins
  <2>2. AsTold(k)
      BY <1>3, <2>1, Zenon DEF StorageIInv, KeysInv, KeyOK
  <2> QED BY <1>2, <2>2, SameFile, Zenon
<1>10. Written(rec, disk'[k].content)
    BY <1>5, Zenon DEF Written
<1>11. /\ \A j \in DOMAIN keys : j \in DOMAIN keys' /\ keys'[j] = keys[j]
       /\ DOMAIN keys' \subseteq DOMAIN keys \cup {k}
       /\ \A j \in DOMAIN keys \ {k} : disk'[j] = disk[j] /\ answered'[j] = answered[j]
    BY <1>2, Zenon
<1> QED BY <1>2, <1>5, <1>6, <1>7, <1>8, <1>9, <1>10, <1>11, BeginStep, Zenon

\* A deletion begins with the type (Delete).
LEMMA DeleteStep ==
    ASSUME StorageIInv, NEW r \in Requests, NEW k \in DOMAIN keys, Delete(r, k)
    PROVE  StorageIInv'
<1> DEFINE rec == [NoRequest EXCEPT !.pc = "unlink", !.op = "delete", !.key = k]
<1>1. /\ req[r].pc = "idle" /\ WriterBegins(r, k, rec) /\ UNCHANGED <<urls, keys, saves, answered>>
    BY Zenon DEF Delete, Free
<1>2. PICK left \in {disk[k].meta, None} : disk' = [disk EXCEPT ![k].meta = left]
    BY Zenon DEF Delete
<1>3. /\ DOMAIN disk = DOMAIN keys /\ DOMAIN keys = 1 .. Len(keys) /\ Len(keys) \in Nat
      /\ disk[k] \in Files /\ disk \in Seq(Files)
    BY KeyNumbers, Zenon DEF StorageIInv, FilesTypeOK
<1> DEFINE file == [disk[k] EXCEPT !.meta = left]
<1>4. file \in Files
    BY <1>3, Zenon DEF Files
<1>5. disk' = [disk EXCEPT ![k] = file]
    BY <1>2, Zenon
<1> HIDE DEF file
<1>6. disk' \in Seq(Files) /\ Len(disk') = Len(disk) /\ \A j \in DOMAIN disk \ {k} : disk'[j] = disk[j]
    BY <1>3, <1>4, <1>5, Replaced
<1>7. rec \in Records /\ rec.pc = "unlink" /\ rec.op = "delete" /\ rec.key = k
  <2>1. k \in Nat
      BY <1>3
  <2> QED BY <2>1, Zenon DEF NoRequest, Records, Writers
<1> HIDE DEF rec
<1>8. rec.op \in Writers
    BY <1>7, Zenon DEF Writers
<1>9. RecordOK(rec)'
    BY <1>1, <1>7, <1>8, Zenon DEF RecordOK
<1>10. FilesTypeOK' /\ UrlsInv'
  <2>1. req' \in [Requests -> Records]
      BY <1>1, <1>7, Zenon DEF StorageIInv, FilesTypeOK, WriterBegins
  <2> QED BY <1>1, <1>6, <2>1, Zenon DEF StorageIInv, FilesTypeOK, UrlsInv
<1>11. rec.pc # "create" /\ Written(rec, disk'[k].content)
    BY <1>7, Zenon DEF Written
<1>12. /\ \A j \in DOMAIN keys : j \in DOMAIN keys' /\ keys'[j] = keys[j]
       /\ DOMAIN keys' \subseteq DOMAIN keys \cup {k}
       /\ \A j \in DOMAIN keys \ {k} : disk'[j] = disk[j] /\ answered'[j] = answered[j]
    BY <1>1, <1>3, <1>6, Zenon
<1> QED BY <1>1, <1>7, <1>8, <1>9, <1>10, <1>11, <1>12, BeginStep, Zenon

\* A key is made, with neither a file nor an answer.
LEMMA KeyMade ==
    ASSUME StorageIInv, NEW ext, NEW type \in MediaTypes, keys' = Append(keys, newKey(ext, type)),
           disk' = Append(disk, Fresh), answered' = Append(answered, NoAnswer), NEW k, k = Len(keys) + 1
    PROVE  /\ \E E : keys' \in Seq([ext : E, type : MediaTypes])
           /\ disk' \in Seq(Files) /\ answered' \in Seq(Tellings)
           /\ Len(disk') = Len(keys') /\ Len(answered') = Len(keys')
           /\ k \in Nat /\ k \notin DOMAIN keys /\ DOMAIN keys' = DOMAIN keys \cup {k}
           /\ keys'[k].type = type /\ AsTold(k)'
           /\ \A j \in DOMAIN keys : keys'[j] = keys[j] /\ disk'[j] = disk[j] /\ answered'[j] = answered[j]
<1>1. PICK E : keys \in Seq([ext : E, type : MediaTypes])
    BY Zenon DEF StorageIInv, FilesTypeOK
<1>2. PICK F : F = E \cup {ext, ""}
    BY Zenon
<1> DEFINE K == [ext : F, type : MediaTypes]
<1>3. newKey(ext, type) \in K /\ newKey(ext, type).type = type
    BY <1>2, Zenon DEF newKey
<1>4. keys \in Seq(K)
  <2>1. [ext : E, type : MediaTypes] \subseteq K
      BY <1>2, Zenon
  <2> HIDE DEF K
  <2> QED BY <1>1, <2>1, ListedIn, Zenon
<1> HIDE DEF K
<1>5. /\ keys' \in Seq(K) /\ Len(keys') = Len(keys) + 1 /\ keys'[k] = newKey(ext, type)
      /\ DOMAIN keys = 1 .. Len(keys) /\ Len(keys) \in Nat
      /\ \A j \in DOMAIN keys : keys'[j] = keys[j]
    BY <1>3, <1>4, Added
<1>6. Fresh \in Files /\ Fresh.content = Absent
    BY DEF Fresh, Files, Contents, Absent
<1>7. disk \in Seq(Files) /\ Len(disk) = Len(keys) /\ answered \in Seq(Tellings) /\ Len(answered) = Len(keys)
    BY Zenon DEF StorageIInv, FilesTypeOK
<1>8. /\ disk' \in Seq(Files) /\ Len(disk') = Len(disk) + 1 /\ disk'[k] = Fresh
      /\ \A j \in DOMAIN disk : disk'[j] = disk[j]
    BY <1>6, <1>7, Added
<1>9. /\ answered' \in Seq(Tellings) /\ Len(answered') = Len(answered) + 1 /\ answered'[k] = NoAnswer
      /\ \A j \in DOMAIN answered : answered'[j] = answered[j]
    BY <1>7, AnswersOK, Added
<1>10. DOMAIN disk = DOMAIN keys /\ DOMAIN answered = DOMAIN keys
    BY KeyNumbers, Zenon DEF StorageIInv
<1>11. AsTold(k)'
    BY <1>6, <1>8, <1>9, AnswersOK, Zenon DEF AsTold, ToldOf, None
<1>12. k \in Nat /\ k \notin DOMAIN keys /\ DOMAIN keys' = DOMAIN keys \cup {k}
  <2>1. DOMAIN keys' = 1 .. Len(keys')
      BY <1>5
  <2> QED BY <1>5, <2>1
<1>13. \E G : keys' \in Seq([ext : G, type : MediaTypes])
    BY <1>5, Zenon DEF K
<1> QED BY <1>3, <1>5, <1>7, <1>8, <1>9, <1>10, <1>11, <1>12, <1>13, Zenon

\* A URL for a key that was there is still for that key.
LEMMA UrlsOfKeys ==
    ASSUME UrlsInv, \A j \in DOMAIN keys : j \in DOMAIN keys' /\ keys'[j] = keys[j]
    PROVE  \A u \in urls : /\ u.key \in DOMAIN keys'
                           /\ u.op = "put" => u.type = keys'[u.key].type /\ u.max \in Nat
BY Zenon DEF UrlsInv

\* A file of the service itself gets a new key (Save).
LEMMA SaveStep ==
    ASSUME StorageIInv, NEW r \in Requests, NEW ext, NEW type \in MediaTypes, NEW size \in Nat, Save(r, ext, type, size)
    PROVE  StorageIInv'
<1>1. PICK k : k = Len(keys) + 1
    BY Zenon
<1>2. PICK rec : rec = [NoRequest EXCEPT !.pc = "create", !.op = "save", !.key = k, !.type = type,
                                         !.size = size, !.max = size, !.save = saves + 1]
    BY Zenon
<1>3. /\ req[r].pc = "idle" /\ WriterBegins(r, k, rec) /\ saves' = saves + 1 /\ UNCHANGED urls
      /\ keys' = Append(keys, newKey(ext, type)) /\ disk' = Append(disk, Fresh)
      /\ answered' = Append(answered, NoAnswer)
    BY <1>1, <1>2, Zenon DEF Save, Free
<1>4. /\ \E E : keys' \in Seq([ext : E, type : MediaTypes])
      /\ disk' \in Seq(Files) /\ answered' \in Seq(Tellings)
      /\ Len(disk') = Len(keys') /\ Len(answered') = Len(keys')
      /\ k \in Nat /\ k \notin DOMAIN keys /\ DOMAIN keys' = DOMAIN keys \cup {k}
      /\ keys'[k].type = type /\ AsTold(k)'
      /\ \A j \in DOMAIN keys : keys'[j] = keys[j] /\ disk'[j] = disk[j] /\ answered'[j] = answered[j]
    BY <1>1, <1>3, KeyMade, Zenon
<1>5. saves \in Nat
    BY Zenon DEF StorageIInv, FilesTypeOK
<1>6. rec \in Records /\ rec.pc = "create" /\ rec.op = "save" /\ rec.key = k /\ rec.type = type /\ rec.done = 0
  <2>1. saves + 1 \in Nat
      BY <1>5
  <2> QED BY <1>2, <1>4, <2>1, Zenon DEF NoRequest, Records, Writers
<1>7. RecordOK(rec)' /\ rec.op \in Writers
    BY <1>4, <1>6, Zenon DEF RecordOK, Writers
<1>8. FilesTypeOK'
  <2>1. req' \in [Requests -> Records]
      BY <1>3, <1>6, Zenon DEF StorageIInv, FilesTypeOK, WriterBegins
  <2>2. saves' \in Nat
      BY <1>3, <1>5
  <2> QED BY <1>4, <2>1, <2>2, Zenon DEF FilesTypeOK
<1>9. UrlsInv'
  <2>1. \A j \in DOMAIN keys : j \in DOMAIN keys' /\ keys'[j] = keys[j]
      BY <1>4, Zenon
  <2> QED BY <1>3, <2>1, UrlsOfKeys, Zenon DEF StorageIInv, UrlsInv
<1>10. Written(rec, disk'[k].content)
    BY <1>6, Zenon DEF Written
<1>11. /\ \A j \in DOMAIN keys : j \in DOMAIN keys' /\ keys'[j] = keys[j]
       /\ DOMAIN keys' \subseteq DOMAIN keys \cup {k}
       /\ \A j \in DOMAIN keys \ {k} : disk'[j] = disk[j] /\ answered'[j] = answered[j]
    BY <1>4, Zenon
<1> QED BY <1>3, <1>4, <1>6, <1>7, <1>8, <1>9, <1>10, <1>11, BeginStep, Zenon

\* An upload URL is for a new key (Upload).
LEMMA UploadStep ==
    ASSUME StorageIInv, NEW ext, NEW size \in Nat, NEW type \in MediaTypes, Upload(ext, size, type)
    PROVE  StorageIInv'
<1>1. PICK k : k = Len(keys) + 1
    BY Zenon
<1>2. /\ urls' = urls \cup {GetUploadURL(k, type, size)} /\ UNCHANGED <<req, saves, torn>>
      /\ keys' = Append(keys, newKey(match(ext, type), type)) /\ disk' = Append(disk, Fresh)
      /\ answered' = Append(answered, NoAnswer)
    BY <1>1, Zenon DEF Upload
<1>3. /\ \E E : keys' \in Seq([ext : E, type : MediaTypes])
      /\ disk' \in Seq(Files) /\ answered' \in Seq(Tellings)
      /\ Len(disk') = Len(keys') /\ Len(answered') = Len(keys')
      /\ k \in Nat /\ k \notin DOMAIN keys /\ DOMAIN keys' = DOMAIN keys \cup {k}
      /\ keys'[k].type = type /\ AsTold(k)'
      /\ \A j \in DOMAIN keys : keys'[j] = keys[j] /\ disk'[j] = disk[j] /\ answered'[j] = answered[j]
    BY <1>1, <1>2, KeyMade, Zenon
<1>4. FilesTypeOK'
    BY <1>2, <1>3, Zenon DEF StorageIInv, FilesTypeOK
<1>5. UrlsInv'
  <2>1. \A j \in DOMAIN keys : j \in DOMAIN keys' /\ keys'[j] = keys[j]
      BY <1>3, Zenon
  <2>2. PICK u : u = GetUploadURL(k, type, size)
      BY Zenon
  <2>3. u.key = k /\ u.type = type /\ u.max = size
      BY <2>2, Zenon DEF GetUploadURL
  <2>4. \A v \in urls : /\ v.key \in DOMAIN keys'
                        /\ v.op = "put" => v.type = keys'[v.key].type /\ v.max \in Nat
      BY <2>1, UrlsOfKeys, Zenon DEF StorageIInv
  <2> QED BY <1>2, <1>3, <2>2, <2>3, <2>4, Zenon DEF UrlsInv
<1>6. RequestsInv'
    BY <1>2, <1>3, Zenon DEF StorageIInv, RequestsInv, WriterAt, IsWriter
<1>7. ASSUME NEW j \in DOMAIN keys \ torn PROVE KeyOK(j)'
  <2>1. KeyOK(j)
      BY <1>7, Zenon DEF StorageIInv, KeysInv
  <2>2. AsTold(j)' <=> AsTold(j)
      BY <1>3, <1>7, SameFile, Zenon
  <2>3. \A q \in Requests : /\ IsWriter(q, j)' <=> IsWriter(q, j)
                            /\ Progress(q, j)' <=> Progress(q, j)
      BY <1>2, <1>3, <1>7, <2>2, Zenon DEF IsWriter, Progress
  <2> QED BY <2>1, <2>2, <2>3, Zenon DEF KeyOK
<1>8. KeyOK(k)'
  <2>1. \A q \in Requests : ~IsWriter(q, k)'
      BY <1>2, <1>3, Zenon DEF StorageIInv, RequestsInv, IsWriter, Writers
  <2> QED BY <1>3, <2>1, Zenon DEF KeyOK
<1>9. KeysInv'
    BY <1>2, <1>3, <1>7, <1>8, Zenon DEF KeysInv
<1> QED BY <1>4, <1>5, <1>6, <1>9, Zenon DEF StorageIInv

\* A reader opens the file and changes nothing (Get).
LEMMA FindsStep ==
    ASSUME StorageIInv, NEW r \in Requests, NEW op \in {"stat", "get"}, NEW k \in DOMAIN keys, Finds(r, op, k)
    PROVE  StorageIInv'
<1>1. PICK rec : rec = [NoRequest EXCEPT !.pc = op, !.op = op, !.key = k, !.ino = disk[k].content.ino]
    BY Zenon
<1>2. /\ req[r].pc = "idle" /\ req' = [req EXCEPT ![r] = rec]
      /\ UNCHANGED <<keys, disk, saves, answered, torn>> /\ UNCHANGED urls
    BY <1>1, Zenon DEF Finds, Free
<1>3. k \in Nat /\ disk[k].content.ino \in Nat
  <2>1. DOMAIN keys = 1 .. Len(keys) /\ Len(keys) \in Nat /\ disk[k] \in Files
      BY KeyNumbers, Zenon DEF StorageIInv
  <2> QED BY <2>1 DEF Files, Contents
<1>4. rec \in Records /\ rec.pc = op /\ rec.op = op /\ rec.key = k
    BY <1>1, <1>3, Zenon DEF NoRequest, Records
<1>5. rec.pc \in {"idle", "stat", "get"} /\ rec.op \notin Writers /\ req[r].pc \in {"idle", "stat", "get"}
    BY <1>2, <1>4, Zenon DEF Writers
<1>6. UrlsInv'
    BY <1>2, Zenon DEF StorageIInv, UrlsInv
<1> QED BY <1>2, <1>4, <1>5, <1>6, ReaderStep, Zenon

\* A download URL is given out, or a download is answered.
LEMMA ReadsStep ==
    ASSUME StorageIInv, NEW r \in Requests, DownloadURL(r) \/ Serves(r)
    PROVE  StorageIInv'
<1>1. /\ req[r].pc \in {"stat", "get"} /\ Replies(r, NoAnswer)
      /\ UNCHANGED <<keys, disk, saves, torn>>
    BY Zenon DEF DownloadURL, Serves, At
<1>2. req' = [req EXCEPT ![r] = NoRequest] /\ UNCHANGED <<keys, disk, saves, answered, torn>>
    BY <1>1, Zenon DEF Replies
<1>3. /\ NoRequest \in Records /\ NoRequest.pc \in {"idle", "stat", "get"} /\ NoRequest.op \notin Writers
      /\ NoRequest.pc # "stat"
    BY NoRequestOK, Zenon DEF NoRequest
<1>4. UrlsInv'
  <2>1. CASE Serves(r)
      BY <2>1, Zenon DEF Serves, StorageIInv, UrlsInv
  <2>2. CASE DownloadURL(r)
    <3>1. PICK u : u = GetDownloadURL(req[r].key, disposition(storedContentType(req[r].key)))
        BY Zenon
    <3>2. u.key = req[r].key /\ u.op = "get"
        BY <3>1, Zenon DEF GetDownloadURL
    <3>3. urls' = urls \cup {u}
        BY <2>2, <3>1, Zenon DEF DownloadURL
    <3>4. req[r].key \in DOMAIN keys
        BY <2>2, Zenon DEF DownloadURL, At, StorageIInv, RequestsInv
    <3> QED BY <1>1, <3>2, <3>3, <3>4, Zenon DEF StorageIInv, UrlsInv
  <2> QED BY <2>1, <2>2, Zenon
<1>5. req[r].pc \in {"idle", "stat", "get"}
    BY <1>1, Zenon
<1> QED BY <1>2, <1>3, <1>4, <1>5, ReaderStep, Zenon

\* What the invariant does not mention leaves it alone.
LEMMA UnchangedFiles ==
    ASSUME StorageIInv, UNCHANGED <<urls, keys, disk, req, saves, answered, torn>>
    PROVE  StorageIInv'
<1>1. FilesTypeOK' /\ UrlsInv'
    BY Zenon DEF StorageIInv, FilesTypeOK, UrlsInv
<1>2. RequestsInv'
    BY Zenon DEF StorageIInv, RequestsInv, IsWriter, WriterAt
<1>3. ASSUME NEW k PROVE KeyOK(k)' <=> KeyOK(k)
    BY Zenon DEF KeyOK, IsWriter, Progress, AsTold
<1>4. KeysInv'
    BY <1>3, Zenon DEF StorageIInv, KeysInv
<1> QED BY <1>1, <1>2, <1>4, Zenon DEF StorageIInv

\* A crash ends all requests, and tears the keys that had a writer.
LEMMA CrashStep == ASSUME StorageIInv, Crash PROVE StorageIInv'
<1>1. /\ torn' = torn \cup {k \in DOMAIN keys : \E r \in Requests : IsWriter(r, k)}
      /\ req' = [r \in Requests |-> NoRequest]
      /\ UNCHANGED <<urls, keys, disk, saves, answered>>
    BY Zenon DEF Crash
<1>2. req' \in [Requests -> Records] /\ \A r \in Requests : req'[r] = NoRequest
    BY <1>1, NoRequestOK, Zenon
<1>3. FilesTypeOK' /\ UrlsInv'
    BY <1>1, <1>2, Zenon DEF StorageIInv, FilesTypeOK, UrlsInv
<1>4. NoRequest.pc = "idle" /\ NoRequest.op \notin Writers
    BY NoRequestOK, Zenon DEF NoRequest
<1>5. RequestsInv'
    BY <1>2, <1>4, Zenon DEF RequestsInv
<1>6. ASSUME NEW k \in DOMAIN keys \ torn' PROVE KeyOK(k)'
  <2>1. \A q \in Requests : ~IsWriter(q, k)
      BY <1>1, <1>6, Zenon
  <2>2. k \in DOMAIN keys \ torn
      BY <1>1, <1>6, Zenon
  <2>3. AsTold(k)
      BY <2>1, <2>2, Zenon DEF StorageIInv, KeysInv, KeyOK
  <2>4. AsTold(k)'
      BY <1>1, <2>3, SameFile, Zenon
  <2>5. \A q \in Requests : ~IsWriter(q, k)'
      BY <1>2, <1>4, Zenon DEF IsWriter, Writers
  <2> QED BY <2>4, <2>5, Zenon DEF KeyOK
<1>7. KeysInv'
    BY <1>1, <1>6, Zenon DEF KeysInv
<1> QED BY <1>3, <1>5, <1>7, Zenon DEF StorageIInv

\* There is no file initially.
LEMMA InitFiles == StorageInit => StorageIInv
<1> SUFFICES ASSUME StorageInit PROVE StorageIInv
    BY Zenon
<1>1. keys = <<>> /\ disk = <<>> /\ answered = <<>> /\ urls = {} /\ saves = 0 /\ req = [r \in Requests |-> NoRequest]
    BY Zenon DEF StorageInit
<1>2. keys \in Seq([ext : {}, type : MediaTypes]) /\ disk \in Seq(Files) /\ answered \in Seq(Tellings)
    BY <1>1
<1>3. req \in [Requests -> Records] /\ \A r \in Requests : req[r] = NoRequest
    BY <1>1, NoRequestOK, Zenon
<1>4. FilesTypeOK
    BY <1>1, <1>2, <1>3, Zenon DEF FilesTypeOK
<1>5. UrlsInv
    BY <1>1, Zenon DEF UrlsInv
<1>6. NoRequest.pc = "idle" /\ NoRequest.op \notin Writers
    BY NoRequestOK, Zenon DEF NoRequest
<1>7. RequestsInv
    BY <1>3, <1>6, Zenon DEF RequestsInv
<1>8. DOMAIN keys = {}
    BY <1>1
<1>9. KeysInv
    BY <1>8, Zenon DEF KeysInv
<1> QED BY <1>4, <1>5, <1>7, <1>9, Zenon DEF StorageIInv

\* Every step preserves the invariant.
LEMMA NextFiles == ASSUME StorageIInv, [StorageNext]_storageVars PROVE StorageIInv'
<1>1. CASE UNCHANGED storageVars \/ NewService \/ Tick
    BY <1>1, UnchangedFiles, Zenon DEF storageVars, NewService, Tick
<1>2. CASE Crash
    BY <1>2, CrashStep, Zenon
<1>3. ASSUME NEW ext \in Extensions, NEW size \in 0 .. maxUploadSize + 1, NEW type \in MediaTypes, Upload(ext, size, type)
      PROVE  StorageIInv'
  <2>1. size \in Nat
      BY <1>3, StorageAssumption
  <2> QED BY <1>3, <2>1, UploadStep, Zenon
<1>4. ASSUME NEW r \in Requests, NEW u \in urls, download(r, u)
      PROVE  StorageIInv'
  <2>1. u.key \in DOMAIN keys /\ Finds(r, "get", u.key)
      BY <1>4, Zenon DEF StorageIInv, UrlsInv, download
  <2> QED BY <2>1, FindsStep, Zenon
<1>5. ASSUME NEW r \in Requests, NEW u \in urls, NEW size \in 1 .. maxUploadSize + 1, upload(r, u, size)
      PROVE  StorageIInv'
  <2>1. size \in Nat
      BY <1>5, StorageAssumption
  <2> QED BY <1>5, <2>1, uploadStep, Zenon
<1>6. ASSUME NEW r \in Requests, NEW ext \in Extensions, NEW size \in 1 .. maxUploadSize, NEW type \in MediaTypes,
             Save(r, ext, type, size)
      PROVE  StorageIInv'
  <2>1. size \in Nat
      BY <1>6, StorageAssumption
  <2> QED BY <1>6, <2>1, SaveStep, Zenon
<1>7. ASSUME NEW r \in Requests,
             \/ Creates(r) \/ CreateFails(r) \/ Copies(r) \/ CopyEnds(r) \/ CopyFails(r)
             \/ WritesMeta(r) \/ MetaFails(r) \/ DeleteEnds(r)
      PROVE  StorageIInv'
    BY <1>7, CreatesStep, CreateFailsStep, CopiesStep, CopyEndsStep, CopyFailsStep, WritesMetaStep, MetaFailsStep,
       DeleteEndsStep
<1>8. ASSUME NEW r \in Requests, NEW k \in DOMAIN keys, Delete(r, k) \/ Finds(r, "stat", k)
      PROVE  StorageIInv'
    BY <1>8, DeleteStep, FindsStep, Zenon
<1>9. ASSUME NEW r \in Requests, DownloadURL(r) \/ Serves(r)
      PROVE  StorageIInv'
    BY <1>9, ReadsStep, Zenon
<1> QED BY <1>1, <1>2, <1>3, <1>4, <1>5, <1>6, <1>7, <1>8, <1>9, Zenon DEF StorageNext

\* The inductive invariant.
THEOREM StorageInvariance == StorageSpec => []StorageIInv
BY InitFiles, NextFiles, PTL DEF StorageSpec

\* A caller who was told that a file is stored, deleted or not stored finds it so, unless
\* another writer of this key was under way or the process crashed (Put, Delete, Save).
THEOREM FilesAreAsTold == StorageSpec => []StoredAsAnswered
<1>1. StorageIInv => StoredAsAnswered
    BY Zenon DEF StorageIInv, KeysInv, KeyOK, AsTold, ToldOf, StoredAsAnswered, storedContentType
<1> QED BY <1>1, StorageInvariance, PTL

-----------------------------------------------------------------------------
(***************************************************************************)
(* Reference IDs.                                                          *)
(***************************************************************************)

\* The fields of a call.
CallFields == {"call", "format", "params", "now", "seg", "text", "attempts", "took"}

\* A call has a segment to render.  What it took from a store it took for an earlier one.
CallsInv ==
    /\ DOMAIN gen = Generators
    /\ \A c \in Generators :
          /\ DOMAIN gen[c] = CallFields
          /\ gen[c].format = 0 => gen[c].took = {}
          /\ gen[c].format # 0 =>
                /\ registry = "built"
                /\ gen[c].format \in DOMAIN config
                /\ gen[c].seg \in DOMAIN FormatOf(c).segments
                /\ gen[c].took # {} => \E j \in 1 .. gen[c].seg - 1 : isStateful(FormatOf(c).segments[j])

\* A registry that was built has checked all formats.
RegistryInv ==
    /\ config \in Configs
    /\ registry = "built" => \A k \in DOMAIN config : config[k].segments # <<>> /\ OneStateful(config[k])

\* The stores.
StoresInv ==
    /\ \A key \in DOMAIN counters : counters[key] \in Nat
    /\ \A entry \in reserved : entry = <<entry[1], entry[2]>>

\* All that the stores have given out.
GivenOut ==
    (UNION {{Counted(key, n) : n \in 1 .. counters[key]} : key \in DOMAIN counters}) \cup {Drawn(e) : e \in reserved}

\* No value of a store is in two IDs, with two calls, or in two of these places.
EachValueOnce ==
    /\ \A c \in Generators :
          /\ \A d \in Generators : c # d => gen[c].took \cap gen[d].took = {}
          /\ gen[c].took \cap lost = {}
    /\ \A x \in issued :
          /\ \A y \in issued : x # y => x.took \cap y.took = {}
          /\ \A c \in Generators : x.took \cap gen[c].took = {}
          /\ x.took \cap lost = {}

\* The inductive invariant of the generator.
RefIInv == CallsInv /\ RegistryInv /\ StoresInv /\ Accounted = GivenOut /\ EachValueOnce

\* The formats are numbered from 1, and so are their segments.
LEMMA FormatsAreSequences ==
    ASSUME config \in Configs
    PROVE  /\ DOMAIN config \subseteq Nat \ {0}
           /\ \A k \in DOMAIN config :
                 /\ Len(config[k].segments) \in Nat /\ DOMAIN config[k].segments = 1 .. Len(config[k].segments)
                 /\ config[k].segments # <<>> => 1 \in DOMAIN config[k].segments
BY ConfigsAssumption

\* Two places of a format that draw on a store are one place.
LEMMA OneStatefulPlace ==
    ASSUME NEW f, OneStateful(f),
           NEW j \in DOMAIN f.segments, NEW k \in DOMAIN f.segments,
           isStateful(f.segments[j]), isStateful(f.segments[k])
    PROVE  j = k
BY Zenon DEF OneStateful

\* A call whose segment draws on a store has taken nothing yet.
LEMMA NothingTakenYet ==
    ASSUME CallsInv, RegistryInv, NEW c \in Generators, gen[c].format # 0, isStateful(Segment(c))
    PROVE  gen[c].took = {}
<1> SUFFICES ASSUME gen[c].took # {} PROVE FALSE
    BY Zenon
<1>1. /\ gen[c].format \in DOMAIN config /\ registry = "built"
      /\ gen[c].seg \in DOMAIN FormatOf(c).segments
    BY Zenon DEF CallsInv
<1>2. PICK j \in 1 .. gen[c].seg - 1 : isStateful(FormatOf(c).segments[j])
    BY Zenon DEF CallsInv
<1>3. /\ Len(FormatOf(c).segments) \in Nat
      /\ DOMAIN FormatOf(c).segments = 1 .. Len(FormatOf(c).segments)
      /\ OneStateful(FormatOf(c))
    BY <1>1, FormatsAreSequences, Zenon DEF RegistryInv, FormatOf
<1>4. j \in DOMAIN FormatOf(c).segments /\ j # gen[c].seg
    BY <1>1, <1>2, <1>3
<1> QED BY <1>1, <1>2, <1>3, <1>4, OneStatefulPlace, Zenon DEF Segment

\* What is accounted for, element by element.
LEMMA AccountedIff ==
    \A e : e \in Accounted <=> \/ \E x \in issued : e \in x.took
                               \/ \E c \in Generators : e \in gen[c].took
                               \/ e \in lost
BY Zenon DEF Accounted

\* Where a value of a store may be after a step.
LEMMA AccountedIffNext ==
    \A e : e \in Accounted' <=> \/ \E x \in issued' : e \in x.took
                                \/ \E c \in Generators : e \in gen'[c].took
                                \/ e \in lost'
BY Zenon DEF Accounted

\* A call that goes on, or makes its ID, keeps what it took and adds to it.
LEMMA JoinsAccounts ==
    ASSUME CallsInv, NEW c \in Generators, gen[c].format # 0, NEW text, NEW took, Joins(c, text, took), UNCHANGED lost
    PROVE  Accounted' = Accounted \cup took
<1>1. \A q \in Generators \ {c} : gen'[q] = gen[q]
    BY Zenon DEF Joins, CallsInv
<1>2. CASE gen[c].seg = Len(FormatOf(c).segments)
  <2> DEFINE x == [call |-> gen[c].call, format |-> gen[c].format, id |-> gen[c].text \o text,
                   took |-> gen[c].took \cup took]
  <2>1. gen'[c].took = {}
      BY <1>2 DEF Joins, CallsInv, NotGenerating
  <2>2. issued' = issued \cup {x} /\ x.took = gen[c].took \cup took
      BY <1>2, Zenon DEF Joins
  <2> HIDE DEF x
  <2>3. \A e : e \in Accounted' <=> e \in Accounted \cup took
      BY <1>1, <2>1, <2>2, AccountedIff, AccountedIffNext, Zenon
  <2> QED BY <2>3, Zenon
<1>3. CASE gen[c].seg # Len(FormatOf(c).segments)
  <2>1. gen'[c].took = gen[c].took \cup took /\ issued' = issued
      BY <1>3 DEF Joins, CallsInv, CallFields
  <2>2. \A e : e \in Accounted' <=> e \in Accounted \cup took
      BY <1>1, <2>1, AccountedIff, AccountedIffNext, Zenon
  <2> QED BY <2>2, Zenon
<1> QED BY <1>2, <1>3, Zenon

\* A call that fails before it took anything leaves nothing behind.
LEMMA FailsAccounts ==
    ASSUME CallsInv, NEW c \in Generators, gen[c].took = {}, Fails(c), NEW took, lost' = lost \cup took
    PROVE  Accounted' = Accounted \cup took
<1>1. /\ \A q \in Generators \ {c} : gen'[q] = gen[q]
      /\ gen'[c].took = {} /\ issued' = issued
    BY Zenon DEF Fails, CallsInv, NotGenerating
<1> QED BY <1>1 DEF Accounted

\* What a call that goes on, or makes its ID, leaves as it should be: it took nothing, or
\* something that no store has given out before.
LEMMA JoinsKeeps ==
    ASSUME RefIInv, NEW c \in Generators, gen[c].format # 0, NEW text, NEW took, Joins(c, text, took),
           UNCHANGED <<config, registry, lost>>, StoresInv',
           took # {} => isStateful(Segment(c)),
           took \cap GivenOut = {}, GivenOut' = GivenOut \cup took
    PROVE  RefIInv'
<1> DEFINE all == gen[c].took \cup took
           x == [call |-> gen[c].call, format |-> gen[c].format, id |-> gen[c].text \o text, took |-> all]
           last == gen[c].seg = Len(FormatOf(c).segments)
<1>1. DOMAIN gen' = Generators /\ \A q \in Generators \ {c} : gen'[q] = gen[q]
    BY Zenon DEF Joins, RefIInv, CallsInv
<1>2. last => gen'[c] = NotGenerating /\ issued' = issued \cup {x}
    BY Zenon DEF Joins, RefIInv, CallsInv
<1>3. ~last => /\ gen'[c].took = all /\ issued' = issued
               /\ gen'[c].format = gen[c].format /\ gen'[c].seg = gen[c].seg + 1
               /\ DOMAIN gen'[c] = CallFields
    BY DEF Joins, RefIInv, CallsInv, CallFields
<1>4. /\ gen[c].format \in DOMAIN config /\ registry = "built"
      /\ gen[c].seg \in DOMAIN FormatOf(c).segments
    BY Zenon DEF RefIInv, CallsInv
<1>5. /\ Len(FormatOf(c).segments) \in Nat
      /\ DOMAIN FormatOf(c).segments = 1 .. Len(FormatOf(c).segments)
    BY <1>4, FormatsAreSequences, Zenon DEF RefIInv, RegistryInv, FormatOf
<1>6. x.took = all
    BY Zenon
<1>7. Accounted' = GivenOut'
    BY JoinsAccounts, Zenon DEF RefIInv
<1>8. CallsInv'
  <2>1. ASSUME NEW q \in Generators, q # c
        PROVE  /\ DOMAIN gen'[q] = CallFields
               /\ gen'[q].format = 0 => gen'[q].took = {}
               /\ gen'[q].format # 0 =>
                     /\ registry' = "built"
                     /\ gen'[q].format \in DOMAIN config'
                     /\ gen'[q].seg \in DOMAIN FormatOf(q)'.segments
                     /\ gen'[q].took # {} => \E j \in 1 .. gen'[q].seg - 1 : isStateful(FormatOf(q)'.segments[j])
      BY <1>1, <2>1 DEF RefIInv, CallsInv, FormatOf
  <2>2. CASE last
    <3>1. gen'[c].format = 0 /\ gen'[c].took = {} /\ DOMAIN gen'[c] = CallFields
        BY <1>2, <2>2 DEF NotGenerating, CallFields
    <3> QED BY <1>1, <2>1, <3>1, Zenon DEF CallsInv
  <2>3. CASE ~last
    <3>1. gen'[c].seg \in DOMAIN FormatOf(c).segments
        BY <1>3, <1>4, <1>5, <2>3
    <3>2. FormatOf(c)' = FormatOf(c)
        BY <1>3, <2>3, Zenon DEF FormatOf
    <3>3. gen'[c].took # {} => \E j \in 1 .. gen'[c].seg - 1 : isStateful(FormatOf(c).segments[j])
      <4>1. CASE took # {}
          BY <1>3, <1>4, <1>5, <2>3, <4>1 DEF Segment
      <4>2. CASE took = {}
        <5>1. gen[c].took # {} => \E j \in 1 .. gen[c].seg - 1 : isStateful(FormatOf(c).segments[j])
            BY Zenon DEF RefIInv, CallsInv
        <5>2. gen'[c].took = gen[c].took /\ gen'[c].seg = gen[c].seg + 1
            BY <1>3, <2>3, <4>2
        <5>3. 1 .. gen[c].seg - 1 \subseteq 1 .. gen'[c].seg - 1
            BY <1>4, <1>5, <5>2
        <5> QED BY <5>1, <5>2, <5>3, Zenon
      <4> QED BY <4>1, <4>2, Zenon
    <3> QED BY <1>1, <1>3, <1>4, <2>1, <2>3, <3>1, <3>2, <3>3, Zenon DEF CallsInv
  <2> QED BY <2>2, <2>3, Zenon
<1>9. RegistryInv'
    BY Zenon DEF RefIInv, RegistryInv
<1>10. /\ \A q \in Generators \ {c} : all \cap gen[q].took = {}
       /\ \A y \in issued : all \cap y.took = {}
       /\ all \cap lost = {}
  <2>1. \A e \in took : e \notin Accounted
      BY Zenon DEF RefIInv
  <2>2. /\ \A q \in Generators : took \cap gen[q].took = {}
        /\ \A y \in issued : took \cap y.took = {}
        /\ took \cap lost = {}
      BY <2>1, AccountedIff, Zenon
  <2>3. EachValueOnce
      BY Zenon DEF RefIInv
  <2>4. /\ \A q \in Generators \ {c} : gen[c].took \cap gen[q].took = {}
        /\ gen[c].took \cap lost = {}
      BY <2>3, Zenon DEF EachValueOnce
  <2>5. \A y \in issued : y.took \cap gen[c].took = {}
      BY <2>3, Zenon DEF EachValueOnce
  <2>6. ASSUME NEW S, took \cap S = {}, gen[c].took \cap S = {}
        PROVE  all \cap S = {}
      BY <2>6, Zenon
  <2>7. \A y \in issued : gen[c].took \cap y.took = {}
      BY <2>5, Zenon
  <2> HIDE DEF all
  <2> QED BY <2>2, <2>4, <2>6, <2>7, Zenon
<1>11. EachValueOnce'
  <2> HIDE DEF all, x, last
  <2>1. CASE last
    <3>1. gen'[c].took = {}
        BY <1>2, <2>1 DEF NotGenerating
    <3>2. \A q \in Generators :
             /\ \A d \in Generators : q # d => gen'[q].took \cap gen'[d].took = {}
             /\ gen'[q].took \cap lost' = {}
        BY <1>1, <3>1 DEF RefIInv, EachValueOnce
    <3>3. issued' = issued \cup {x}
        BY <1>2, <2>1, Zenon
    <3>4. \A y \in issued :
             /\ \A z \in issued : y # z => y.took \cap z.took = {}
             /\ \A q \in Generators : y.took \cap gen[q].took = {}
             /\ y.took \cap lost = {}
      <4>1. EachValueOnce
          BY Zenon DEF RefIInv
      <4> QED BY <4>1, Zenon DEF EachValueOnce
    <3>5. \A y \in issued' :
             /\ \A z \in issued' : y # z => y.took \cap z.took = {}
             /\ y.took \cap lost' = {}
        BY <1>6, <1>10, <3>3, <3>4, Zenon
    <3>6. \A y \in issued', q \in Generators : y.took \cap gen'[q].took = {}
        BY <1>1, <1>6, <1>10, <3>1, <3>3, <3>4, Zenon
    <3> QED BY <3>2, <3>5, <3>6, Zenon DEF EachValueOnce
  <2>2. CASE ~last
    <3>1. gen'[c].took = all /\ issued' = issued
        BY <1>3, <2>2, Zenon
    <3> QED BY <1>1, <1>10, <3>1 DEF RefIInv, EachValueOnce
  <2> QED BY <2>1, <2>2, Zenon
<1> QED BY <1>7, <1>8, <1>9, <1>11, Zenon DEF RefIInv

\* What a call that fails leaves as it should be.  It may lose what it was given.
LEMMA FailsKeeps ==
    ASSUME RefIInv, NEW c \in Generators, gen[c].took = {}, Fails(c), NEW took, lost' = lost \cup took,
           UNCHANGED <<config, registry>>, StoresInv',
           took \cap GivenOut = {}, GivenOut' = GivenOut \cup took
    PROVE  RefIInv'
<1>1. DOMAIN gen' = Generators /\ \A q \in Generators \ {c} : gen'[q] = gen[q]
    BY Zenon DEF Fails, RefIInv, CallsInv
<1>2. gen'[c].took = {} /\ gen'[c].format = 0 /\ DOMAIN gen'[c] = CallFields /\ issued' = issued
    BY Zenon DEF Fails, RefIInv, CallsInv, NotGenerating, CallFields
<1>3. CallsInv'
    BY <1>1, <1>2 DEF RefIInv, CallsInv, FormatOf
<1>4. RegistryInv'
    BY Zenon DEF RefIInv, RegistryInv
<1>5. Accounted' = GivenOut'
    BY FailsAccounts, Zenon DEF RefIInv
<1>6. EachValueOnce'
  <2>1. \A e \in took : e \notin Accounted
      BY Zenon DEF RefIInv
  <2> QED BY <1>1, <1>2, <2>1, AccountedIff DEF RefIInv, EachValueOnce
<1> QED BY <1>3, <1>4, <1>5, <1>6, Zenon DEF RefIInv

\* Steps that leave the stores alone take nothing.
LEMMA NothingGiven ==
    ASSUME RefIInv, UNCHANGED <<counters, reserved>>
    PROVE  StoresInv' /\ GivenOut' = GivenOut \cup {}
BY DEF RefIInv, StoresInv, GivenOut

\* The sequence store: a call gets a count that nobody had before.
LEMMA CountIsNew ==
    ASSUME RefIInv, NEW key, Increments(key), UNCHANGED reserved
    PROVE  /\ StoresInv'
           /\ GivenOut' = GivenOut \cup {Counted(key, Counter(key) + 1)}
           /\ Counted(key, Counter(key) + 1) \notin GivenOut
<1> DEFINE n == Counter(key) + 1
           Counts == UNION {{Counted(k, m) : m \in 1 .. counters[k]} : k \in DOMAIN counters}
<1>1. /\ DOMAIN counters' = DOMAIN counters \cup {key}
      /\ counters'[key] = n
      /\ \A k \in DOMAIN counters \ {key} : counters'[k] = counters[k]
    BY Zenon DEF Increments
<1>2. /\ Counter(key) \in Nat /\ \A k \in DOMAIN counters : counters[k] \in Nat
      /\ key \in DOMAIN counters => counters[key] = Counter(key)
      /\ key \notin DOMAIN counters => Counter(key) = 0
    BY Zenon DEF RefIInv, StoresInv, Counter
<1>3. \A e : e \in Counts <=> \E k \in DOMAIN counters : \E m \in 1 .. counters[k] : e = Counted(k, m)
    OBVIOUS
<1>4. \A e : e \in Counts' <=> \E k \in DOMAIN counters' : \E m \in 1 .. counters'[k] : e = Counted(k, m)
    OBVIOUS
<1>5. \A k, m, l, o : Counted(k, m) = Counted(l, o) => k = l /\ m = o
    BY Zenon DEF Counted
<1>6. \A k, m, e : Counted(k, m) # Drawn(e)
    BY Zenon DEF Counted, Drawn
<1> HIDE DEF n, Counts
<1>7. n = Counter(key) + 1
    BY Zenon DEF n
<1>8. \A m : m \in 1 .. counters'[key] <=> (key \in DOMAIN counters /\ m \in 1 .. counters[key]) \/ m = n
    BY <1>1, <1>2, <1>7
<1>9. \A e : e \in Counts' <=> e \in Counts \cup {Counted(key, n)}
  <2>1. SUFFICES ASSUME NEW e
                 PROVE  e \in Counts' <=> e \in Counts \/ e = Counted(key, n)
      BY Zenon
  <2>2. ASSUME e \in Counts' PROVE e \in Counts \/ e = Counted(key, n)
    <3>0. PICK k \in DOMAIN counters' : \E m \in 1 .. counters'[k] : e = Counted(k, m)
        BY <1>4, <2>2, Zenon
    <3>1. PICK m \in 1 .. counters'[k] : e = Counted(k, m)
        BY <3>0, Zenon
    <3>2. CASE k = key
        BY <1>3, <1>8, <3>1, <3>2, Zenon
    <3>3. CASE k # key
        BY <1>1, <1>3, <3>1, <3>3, Zenon
    <3> QED BY <3>2, <3>3, Zenon
  <2>3. ASSUME e = Counted(key, n) PROVE e \in Counts'
      BY <1>1, <1>4, <1>8, <2>3, Zenon
  <2>4. ASSUME e \in Counts PROVE e \in Counts'
    <3>0. PICK k \in DOMAIN counters : \E m \in 1 .. counters[k] : e = Counted(k, m)
        BY <1>3, <2>4, Zenon
    <3>1. PICK m \in 1 .. counters[k] : e = Counted(k, m)
        BY <3>0, Zenon
    <3>2. CASE k = key
        BY <1>1, <1>4, <1>8, <3>1, <3>2, Zenon
    <3>3. CASE k # key
        BY <1>1, <1>4, <3>1, <3>3, Zenon
    <3> QED BY <3>2, <3>3, Zenon
  <2> QED BY <2>2, <2>3, <2>4, Zenon
<1>10. Counted(key, n) \notin GivenOut
  <2>1. Counted(key, n) \notin Counts
      BY <1>2, <1>3, <1>5, <1>7
  <2>2. GivenOut = Counts \cup {Drawn(e) : e \in reserved}
      BY Zenon DEF GivenOut, Counts
  <2> QED BY <1>6, <2>1, <2>2, Zenon
<1>11. GivenOut' = GivenOut \cup {Counted(key, n)}
  <2>1. GivenOut = Counts \cup {Drawn(e) : e \in reserved}
      BY Zenon DEF GivenOut, Counts
  <2>2. GivenOut' = Counts' \cup {Drawn(e) : e \in reserved'}
      BY Zenon DEF GivenOut, Counts
  <2> QED BY <1>9, <2>1, <2>2, Zenon
<1>12. StoresInv'
    BY <1>1, <1>2, <1>7 DEF RefIInv, StoresInv
<1> QED BY <1>7, <1>10, <1>11, <1>12, Zenon

\* The random store: a value that is not there is reserved.
LEMMA DrawIsNew ==
    ASSUME RefIInv, NEW key, NEW value, Reserve(<<key, value>>), UNCHANGED counters
    PROVE  /\ StoresInv'
           /\ GivenOut' = GivenOut \cup {Drawn(<<key, value>>)}
           /\ Drawn(<<key, value>>) \notin GivenOut
<1> DEFINE Counts == UNION {{Counted(k, m) : m \in 1 .. counters[k]} : k \in DOMAIN counters}
           entry == <<key, value>>
<1>1. entry \notin reserved /\ reserved' = reserved \cup {entry}
    BY Zenon DEF Reserve
<1>2. \A e \in reserved : e = <<e[1], e[2]>>
    BY Zenon DEF RefIInv, StoresInv
<1>3. StoresInv'
    BY <1>1, <1>2 DEF RefIInv, StoresInv
<1>4. \A e \in reserved : Drawn(e) # Drawn(entry)
    BY <1>1, <1>2, Zenon DEF Drawn
<1>5. \A k, m : Counted(k, m) # Drawn(entry)
    BY Zenon DEF Counted, Drawn
<1>6. Drawn(entry) \notin Counts
    BY <1>5, Zenon
<1>7. Counts' = Counts
    OBVIOUS
<1>8. GivenOut = Counts \cup {Drawn(e) : e \in reserved} /\ GivenOut' = Counts' \cup {Drawn(e) : e \in reserved'}
    BY Zenon DEF GivenOut, Counts
<1> HIDE DEF Counts, entry
<1>9. Drawn(entry) \notin GivenOut
    BY <1>4, <1>6, <1>8, Zenon
<1>10. GivenOut' = GivenOut \cup {Drawn(entry)}
    BY <1>1, <1>7, <1>8, Zenon
<1> QED BY <1>3, <1>9, <1>10, Zenon DEF entry

-----------------------------------------------------------------------------
(***************************************************************************)
(* Every step of the specification.                                        *)
(***************************************************************************)

\* Nothing is given out initially.
LEMMA InitRef == RefInit => RefIInv
<1> SUFFICES ASSUME RefInit PROVE RefIInv
    BY Zenon
<1>1. DOMAIN gen = Generators /\ \A c \in Generators : gen[c] = NotGenerating
    BY Zenon DEF RefInit
<1>2. NotGenerating.took = {} /\ NotGenerating.format = 0 /\ DOMAIN NotGenerating = CallFields
    BY Zenon DEF NotGenerating, CallFields
<1>3. CallsInv /\ RegistryInv /\ StoresInv
    BY <1>1, <1>2, Zenon DEF RefInit, CallsInv, RegistryInv, StoresInv
<1>4. DOMAIN counters = {}
    BY Zenon DEF RefInit
<1>5. Accounted = {} /\ GivenOut = {}
    BY <1>1, <1>2, <1>4, Zenon DEF RefInit, Accounted, GivenOut
<1>6. EachValueOnce
    BY <1>1, <1>2, Zenon DEF RefInit, EachValueOnce
<1> QED BY <1>3, <1>5, <1>6, Zenon DEF RefIInv

\* What the variables of the invariant do not show leaves it alone.
LEMMA UnchangedRef ==
    ASSUME RefIInv, UNCHANGED <<config, registry, gen, counters, reserved, issued, lost>>
    PROVE  RefIInv'
<1>1. CallsInv' /\ RegistryInv' /\ StoresInv'
    BY Zenon DEF RefIInv, CallsInv, RegistryInv, StoresInv, FormatOf
<1>2. Accounted' = Accounted /\ GivenOut' = GivenOut
    BY DEF Accounted, GivenOut
<1>3. EachValueOnce'
    BY Zenon DEF RefIInv, EachValueOnce
<1> QED BY <1>1, <1>2, <1>3, Zenon DEF RefIInv

\* A registry is built before any call is made (NewRegistry).
LEMMA NewRegistryRef == ASSUME RefIInv, NewRegistry PROVE RefIInv'
<1>1. \A c \in Generators : gen[c].format = 0
    BY Zenon DEF NewRegistry, RefIInv, CallsInv
<1>2. CallsInv'
    BY <1>1, Zenon DEF NewRegistry, RefIInv, CallsInv
<1>3. registry' = "built" => \A k \in DOMAIN config : compileFormat(config[k])
    BY Zenon DEF NewRegistry
<1>4. RegistryInv'
    BY <1>3, Zenon DEF NewRegistry, RefIInv, RegistryInv, compileFormat
<1>5. UNCHANGED <<gen, counters, reserved, issued, lost>>
    BY Zenon DEF NewRegistry
<1>6. StoresInv' /\ EachValueOnce'
    BY <1>5, Zenon DEF RefIInv, StoresInv, EachValueOnce
<1>7. Accounted' = Accounted /\ GivenOut' = GivenOut
    BY <1>5 DEF Accounted, GivenOut
<1> QED BY <1>2, <1>4, <1>6, <1>7, Zenon DEF RefIInv

\* A call begins with nothing taken (Generate).
LEMMA GenerateRef ==
    ASSUME RefIInv, NEW c \in Generators, NEW k \in DOMAIN config, NEW params, Generate(c, k, params)
    PROVE  RefIInv'
<1>1. CASE gen' = gen
    BY <1>1, UnchangedRef, Zenon DEF Generate
<1>2. CASE gen' # gen
  <2> DEFINE g == [NotGenerating EXCEPT !.call = generated', !.format = k, !.params = params, !.now = Now(config[k])]
  <2>1. gen' = [gen EXCEPT ![c] = g]
      BY <1>2, Zenon DEF Generate
  <2>2. DOMAIN gen' = Generators /\ gen'[c] = g /\ \A q \in Generators \ {c} : gen'[q] = gen[q]
      BY <2>1, Zenon DEF RefIInv, CallsInv
  <2>3. g.took = {} /\ g.format = k /\ g.seg = 1 /\ DOMAIN g = CallFields
      BY Zenon DEF NotGenerating, CallFields
  <2> HIDE DEF g
  <2>4. UNCHANGED <<config, registry, counters, reserved, issued, lost>> /\ registry = "built"
      BY Zenon DEF Generate
  <2>5. gen[c].took = {}
      BY Zenon DEF RefIInv, CallsInv, Generate
  <2>6. 1 \in DOMAIN config[k].segments
      BY <2>4, FormatsAreSequences, Zenon DEF RefIInv, RegistryInv
  <2>7. CallsInv'
    <3>1. FormatOf(c)' = config[k]
        BY <2>2, <2>3, <2>4, Zenon DEF FormatOf
    <3>2. \A q \in Generators \ {c} : FormatOf(q)' = FormatOf(q)
        BY <2>2, <2>4, Zenon DEF FormatOf
    <3> QED BY <2>2, <2>3, <2>4, <2>6, <3>1, <3>2 DEF RefIInv, CallsInv
  <2>8. RegistryInv' /\ StoresInv' /\ GivenOut' = GivenOut
      BY <2>4 DEF RefIInv, RegistryInv, StoresInv, GivenOut
  <2>9. \A q \in Generators : gen'[q].took = gen[q].took
      BY <2>2, <2>3, <2>5, Zenon
  <2>10. Accounted' = Accounted /\ EachValueOnce'
      BY <2>4, <2>9 DEF RefIInv, Accounted, EachValueOnce
  <2> QED BY <2>7, <2>8, <2>10, Zenon DEF RefIInv
<1> QED BY <1>1, <1>2, Zenon

\* A segment that draws on no store.
LEMMA PlainRef ==
    ASSUME RefIInv, NEW c \in Generators, RenderLiteral(c) \/ RenderParam(c) \/ RenderDateOf(c)
    PROVE  RefIInv'
<1>1. PICK text : Joins(c, text, {})
    BY Zenon DEF RenderLiteral, RenderParam, RenderDateOf
<1>2. gen[c].format # 0 /\ UNCHANGED <<config, registry, counters, reserved, lost>>
    BY Zenon DEF RenderLiteral, RenderParam, RenderDateOf, Rendering
<1>3. StoresInv' /\ GivenOut' = GivenOut \cup {}
    BY <1>2, NothingGiven, Zenon
<1> QED BY <1>1, <1>2, <1>3, JoinsKeeps, Zenon

\* The next number of a counter was never given out, and the call takes it (Sequence).
LEMMA SequenceRef ==
    ASSUME RefIInv, NEW c \in Generators, RenderSequence(c)
    PROVE  RefIInv'
<1> DEFINE key == ScopeKeyOf(c)
           v == Counted(key, Counter(key) + 1)
           text == intPart(Counter(key) + 1, Radix, Segment(c).padding)
<1>1. gen[c].format # 0 /\ isStateful(Segment(c))
    BY Zenon DEF RenderSequence, Rendering, isStateful
<1>2. gen[c].took = {}
    BY <1>1, NothingTakenYet, Zenon DEF RefIInv
<1>3. UNCHANGED <<config, registry, reserved>>
    BY Zenon DEF RenderSequence
<1>4. \/ Increments(key) /\ Joins(c, text, {v}) /\ UNCHANGED lost
      \/ Increments(key) /\ Fails(c) /\ lost' = lost \cup {v}
      \/ Fails(c) /\ UNCHANGED <<counters, lost>>
    BY Zenon DEF RenderSequence
<1> HIDE DEF key, v, text
<1>5. ASSUME Increments(key)
      PROVE  StoresInv' /\ GivenOut' = GivenOut \cup {v} /\ {v} \cap GivenOut = {}
    BY <1>3, <1>5, CountIsNew, Zenon DEF v
<1>6. CASE Increments(key) /\ Joins(c, text, {v}) /\ UNCHANGED lost
    BY <1>1, <1>3, <1>5, <1>6, JoinsKeeps, Zenon
<1>7. CASE Increments(key) /\ Fails(c) /\ lost' = lost \cup {v}
    BY <1>2, <1>3, <1>5, <1>7, FailsKeeps, Zenon
<1>8. CASE Fails(c) /\ UNCHANGED <<counters, lost>>
  <2>1. StoresInv' /\ GivenOut' = GivenOut \cup {} /\ lost' = lost \cup {}
      BY <1>3, <1>8, NothingGiven, Zenon
  <2> QED BY <1>2, <1>3, <1>8, <2>1, FailsKeeps, Zenon
<1> QED BY <1>4, <1>6, <1>7, <1>8, Zenon

\* A text that is reserved now was not reserved before, and the call takes it, or it is lost
\* with the call that gives up (Random).
LEMMA RandomRef ==
    ASSUME RefIInv, NEW c \in Generators, NEW value, RenderRandom(c, value)
    PROVE  RefIInv'
<1> DEFINE entry == <<ScopeKeyOf(c), value>>
           v == Drawn(entry)
<1>1. gen[c].format # 0 /\ isStateful(Segment(c))
    BY Zenon DEF RenderRandom, Rendering, isStateful
<1>2. gen[c].took = {}
    BY <1>1, NothingTakenYet, Zenon DEF RefIInv
<1>3. UNCHANGED <<config, registry, counters>>
    BY Zenon DEF RenderRandom
<1>4. \/ Reserve(entry) /\ Joins(c, value, {v}) /\ UNCHANGED lost
      \/ Reserve(entry) /\ Fails(c) /\ lost' = lost \cup {v}
      \/ gen' = [gen EXCEPT ![c].attempts = @ + 1] /\ UNCHANGED <<reserved, issued, lost>>
      \/ Fails(c) /\ UNCHANGED <<reserved, lost>>
    BY Zenon DEF RenderRandom
<1> HIDE DEF v
<1>5. ASSUME Reserve(entry)
      PROVE  StoresInv' /\ GivenOut' = GivenOut \cup {v} /\ {v} \cap GivenOut = {}
    BY <1>3, <1>5, DrawIsNew, Zenon DEF v
<1> HIDE DEF entry
<1>6. CASE Reserve(entry) /\ Joins(c, value, {v}) /\ UNCHANGED lost
    BY <1>1, <1>3, <1>5, <1>6, JoinsKeeps, Zenon
<1>7. CASE Reserve(entry) /\ Fails(c) /\ lost' = lost \cup {v}
    BY <1>2, <1>3, <1>5, <1>7, FailsKeeps, Zenon
<1>8. CASE gen' = [gen EXCEPT ![c].attempts = @ + 1] /\ UNCHANGED <<reserved, issued, lost>>
  <2>1. /\ DOMAIN gen' = Generators
        /\ \A q \in Generators : /\ DOMAIN gen'[q] = CallFields /\ gen'[q].format = gen[q].format
                                 /\ gen'[q].seg = gen[q].seg /\ gen'[q].took = gen[q].took
      BY <1>8, Zenon DEF RefIInv, CallsInv, CallFields
  <2>2. \A q \in Generators : FormatOf(q)' = FormatOf(q)
      BY <1>3, <2>1, Zenon DEF FormatOf
  <2>3. CallsInv'
      BY <1>3, <2>1, <2>2, Zenon DEF RefIInv, CallsInv
  <2>4. RegistryInv' /\ StoresInv' /\ GivenOut' = GivenOut
      BY <1>3, <1>8 DEF RefIInv, RegistryInv, StoresInv, GivenOut
  <2>5. Accounted' = Accounted /\ EachValueOnce'
      BY <1>8, <2>1 DEF RefIInv, Accounted, EachValueOnce
  <2> QED BY <2>3, <2>4, <2>5, Zenon DEF RefIInv
<1>9. CASE Fails(c) /\ UNCHANGED <<reserved, lost>>
  <2>1. StoresInv' /\ GivenOut' = GivenOut \cup {} /\ lost' = lost \cup {}
      BY <1>3, <1>9, NothingGiven, Zenon
  <2> QED BY <1>2, <1>3, <1>9, <2>1, FailsKeeps, Zenon
<1> QED BY <1>4, <1>6, <1>7, <1>8, <1>9, Zenon

\* Every step preserves the invariant.
LEMMA NextRef == ASSUME RefIInv, [RefNext]_refVars PROVE RefIInv'
<1>1. CASE UNCHANGED refVars
    BY <1>1, UnchangedRef, Zenon DEF refVars
<1>2. CASE NewRegistry
    BY <1>2, NewRegistryRef, Zenon
<1>3. CASE Midnight
    BY <1>3, UnchangedRef, Zenon DEF Midnight
<1>4. ASSUME NEW c \in Generators, NEW k \in DOMAIN config, NEW params \in ParamSets, Generate(c, k, params)
      PROVE  RefIInv'
    BY <1>4, GenerateRef, Zenon
<1>5. ASSUME NEW c \in Generators, RenderLiteral(c) \/ RenderParam(c) \/ RenderDateOf(c)
      PROVE  RefIInv'
    BY <1>5, PlainRef, Zenon
<1>6. ASSUME NEW c \in Generators, RenderSequence(c)
      PROVE  RefIInv'
    BY <1>6, SequenceRef, Zenon
<1>7. ASSUME NEW c \in Generators, NEW value, RenderRandom(c, value)
      PROVE  RefIInv'
    BY <1>7, RandomRef, Zenon
<1> QED BY <1>1, <1>2, <1>3, <1>4, <1>5, <1>6, <1>7, Zenon DEF RefNext

\* The inductive invariant.
THEOREM RefIdInvariance == RefSpec => []RefIInv
BY InitRef, NextRef, PTL DEF RefSpec

\* What was given out is in an ID, with a call, or lost.
LEMMA GivenIsAccounted == RefIInv => NothingIsOrphaned
<1> SUFFICES ASSUME RefIInv PROVE NothingIsOrphaned
    BY Zenon
<1>1. /\ \A key \in DOMAIN counters : \A n \in 1 .. counters[key] : Counted(key, n) \in GivenOut
      /\ \A entry \in reserved : Drawn(entry) \in GivenOut
    BY DEF GivenOut
<1>2. Accounted = GivenOut
    BY Zenon DEF RefIInv
<1> QED BY <1>1, <1>2, Zenon DEF NothingIsOrphaned

\* Every number and every reserved text that a store gave out is in an ID, with a call under
\* way, or was lost with a call that failed: no other caller can have it (Generate).
THEOREM StoreValuesAreAccounted == RefSpec => []NothingIsOrphaned
BY RefIdInvariance, GivenIsAccounted, PTL

\* No value of a store is in two IDs, with two calls, or in two of these places.
THEOREM StoreValuesAreSpentOnce == RefSpec => []EachValueOnce
<1>1. RefIInv => EachValueOnce
    BY Zenon DEF RefIInv
<1> QED BY <1>1, RefIdInvariance, PTL

=============================================================================
