----------------------------- MODULE Artifacts -----------------------------
(***************************************************************************)
(* Published artifacts (package artifact): the set of manifests, which     *)
(* loads newer ones on demand and holds back after a fruitless probe, and  *)
(* the cache of files in front of the loader.                              *)
(*                                                                         *)
(* Manifests are numbered from 1 and published in this order.  A manifest  *)
(* is a sequence of rows [id, version, path], where id stands for the id   *)
(* and the kind, "" for one that is left out, and version 0 is none.       *)
(* The back-off is the time that is left of it: no clock is needed.        *)
(***************************************************************************)
EXTENDS Integers, Sequences, FiniteSetsExt

CONSTANTS
    Repositories,       \* what may be published: a sequence of manifests, and manifest.json
    Pins,               \* pinned versions; 0 is none
    Lookups,            \* concurrent callers
    Malformed,          \* a manifest that does not parse
    Missing,            \* no manifest.json
    sizeOf,             \* the size of each file, by path
    maxBytes,           \* of the cache
    reprobeInterval,    \* in ticks
    MaxFaults           \* bound: loads that fail, callers that give up

\* Manifests are published in a row, and sizes are numbers.
ASSUME ArtifactAssumption ==
    /\ \A r \in Repositories : r.manifests \in Seq(Range(r.manifests))
    /\ sizeOf \in [DOMAIN sizeOf -> Nat]
    /\ maxBytes \in Nat

VARIABLES
    repo,       \* the manifests, published or not
    published,  \* how many are published
    set,        \* the Set
    backoff,    \* what is left of the wait after lastEmptyProbe
    look,       \* the callers
    cache,      \* cached files, the most recently used first, and their size
    faults

artifactVars == <<repo, published, set, backoff, look, cache, faults>>

NoCache == [order |-> <<>>, size |-> 0]
NoLookup == [pc |-> "idle", want |-> 0, key |-> <<"", 0>>, latest |-> 0, got |-> <<>>,
             erred |-> FALSE, path |-> ""]

-----------------------------------------------------------------------------
(***************************************************************************)
(* Manifests, and the set of those that are loaded: its views, the file of *)
(* each explicit version, and whether a cache is in front of the files.    *)
(***************************************************************************)
KeyOf(row) == <<row.id, row.version>>
ExplicitRows(m) == {row \in Range(m) : row.version # 0}

\* Every row has an id, a kind and a path, and no two have one key.
RegisterFromConfig(m) ==
    /\ \A k \in DOMAIN m : m[k].id # "" /\ m[k].path # ""
    /\ \A j, k \in DOMAIN m : j # k => KeyOf(m[j]) # KeyOf(m[k])

\* An explicit version must keep its file.
AnyFile(explicit, row) == TRUE
KeepsFile(explicit, row) == KeyOf(row) \in DOMAIN explicit => explicit[KeyOf(row)].path = row.path

\* Manifest m becomes the next view, unless it is rejected, as is all that follows it.
add(s, m) ==
    LET rows == ExplicitRows(m)
        new == {KeyOf(row) : row \in rows} \ DOMAIN s.explicit
        entry(key) == [manifest |-> Len(s.views) + 1, path |-> (CHOOSE row \in rows : KeyOf(row) = key).path]
    IN  IF ~s.rejected /\ RegisterFromConfig(m) /\ \A row \in rows : KeepsFile(s.explicit, row)
        THEN [s EXCEPT !.views = Append(@, m),
                       !.explicit = [key \in DOMAIN @ \cup new |-> IF key \in new THEN entry(key) ELSE @[key]]]
        ELSE [s EXCEPT !.rejected = TRUE]

\* Several manifests, one after the other.
AddAll(s, ms) ==
    LET after[n \in 0 .. Len(ms)] == IF n = 0 THEN [s EXCEPT !.rejected = FALSE] ELSE add(after[n - 1], ms[n])
    IN  after[Len(ms)]

\* fetchManifests from one version to another (0: no limit) may return the manifests got:
\* all up to the limit or to the first that is missing, or, failing, fewer.
fetchManifests(from, to, got, failed) ==
    LET last == from + Len(got) - 1
        full == to # 0 /\ last = to
    IN
    /\ got = SubSeq(repo.manifests, from, last)
    /\ got # <<>> => last <= published
    /\ to # 0 => last <= to
    /\ Malformed \notin Range(got)
    /\ IF failed THEN ~full ELSE full \/ last >= published

\* A malformed manifest always fails.  Another one may be hit by a fault of the source, and
\* so may the answer that there is none.
Faulty(from, got, failed) ==
    LET next == from + Len(got) IN
    IF failed /\ (next > published \/ repo.manifests[next] # Malformed)
    THEN faults < MaxFaults /\ faults' = faults + 1 ELSE UNCHANGED faults

Fetched(from) == {<<>>} \cup {SubSeq(repo.manifests, from, k) : k \in from .. published}

-----------------------------------------------------------------------------
(***************************************************************************)
(* The set.                                                                *)
(***************************************************************************)

\* The unversioned manifest stands in for version 1, and turns the cache off.
loadUnversioned(got) ==
    IF got = <<>> /\ set.pin <= 1 /\ repo.unversioned # Missing
    THEN <<repo.unversioned>> ELSE got

LoadSet(got, failed) ==
    LET cfgs == loadUnversioned(got)
        loaded == AddAll(set, cfgs)
    IN  /\ set.state = "loading"
        /\ fetchManifests(1, set.pin, got, failed)
        /\ Faulty(1, got, failed)
        /\ set' = IF failed \/ Malformed \in Range(cfgs) \/ loaded.rejected
                     \/ loaded.views = <<>> \/ set.pin > Len(loaded.views)
                  THEN [set EXCEPT !.state = "failed"]
                  ELSE [loaded EXCEPT !.state = "ready", !.current = Len(loaded.views), !.caches = cfgs = got]
        /\ UNCHANGED <<repo, published, backoff, look, cache>>

\* A replica that could not load its set starts again.
Restart ==
    /\ set.state = "failed"
    /\ set' = [set EXCEPT !.state = "loading"]
    /\ UNCHANGED <<repo, published, backoff, look, cache, faults>>

latest == Len(set.views)
At(c, pc) == set.state = "ready" /\ look[c].pc = pc
Goes(c, pc) == look' = [look EXCEPT ![c] = IF pc = "idle" THEN NoLookup
                                           ELSE [NoLookup EXCEPT !.pc = pc, !.want = look[c].want, !.key = look[c].key]]

\* What the caller asks for is loaded: the version, or a manifest that lists the key.
Loaded(c) == IF look[c].want # 0 THEN look[c].want <= latest ELSE look[c].key \in DOMAIN set.explicit

\* The lookup of a version or of an explicit key.  What is not loaded is probed for.
Registry(c, v) ==
    /\ At(c, "idle")
    /\ look' = [look EXCEPT ![c] = [NoLookup EXCEPT !.pc = IF v <= latest THEN "found" ELSE "slot", !.want = v]]
    /\ UNCHANGED <<repo, published, set, backoff, cache, faults>>

GetExplicit(c, key) ==
    /\ At(c, "idle")
    /\ look' = [look EXCEPT ![c] = [NoLookup EXCEPT !.pc = IF key \in DOMAIN set.explicit THEN "found" ELSE "slot",
                                                     !.key = key]]
    /\ UNCHANGED <<repo, published, set, backoff, cache, faults>>

SlotIsFree == \A c \in Lookups : look[c].pc \notin {"fetch", "install"}

\* Loaded while this caller waited for the slot.
NextIsLoaded(c) == look[c].want # 0 /\ look[c].want <= latest + 1
NothingToLoad(c) == look[c].want # 0 /\ look[c].want <= latest

\* The slot is taken, and a fetch begins unless there is nothing to load or it is too early.
probe(c) ==
    /\ At(c, "slot")
    /\ SlotIsFree
    /\ IF NothingToLoad(c) \/ backoff > 0
       THEN Goes(c, "again")
       ELSE look' = [look EXCEPT ![c].pc = "fetch", ![c].latest = latest]
    /\ UNCHANGED <<repo, published, set, backoff, cache, faults>>

\* The caller's context ends while it waits for the slot.
GivesUp(c) ==
    /\ At(c, "slot")
    /\ faults < MaxFaults
    /\ faults' = faults + 1
    /\ Goes(c, "idle")
    /\ UNCHANGED <<repo, published, set, backoff, cache>>

\* The source has answered.  No lock is held.
Fetches(c, got, failed) ==
    /\ At(c, "fetch")
    /\ fetchManifests(look[c].latest + 1, look[c].want, got, failed)
    /\ Faulty(look[c].latest + 1, got, failed)
    /\ look' = [look EXCEPT ![c].pc = "install", ![c].got = got, ![c].erred = failed]
    /\ UNCHANGED <<repo, published, set, backoff, cache>>

\* What was fetched is added, under the lock.  The back-off ends, begins, or is left alone
\* if the fetch failed because the caller's context had ended (cut).
Installs(c, cut) ==
    LET after == AddAll(set, look[c].got)
        reached == look[c].want # 0 /\ Len(after.views) >= look[c].want
        erred == look[c].erred \/ after.rejected
    IN  /\ At(c, "install")
        /\ cut => look[c].erred
        /\ set' = after
        /\ backoff' =
              IF reached \/ (look[c].want = 0 /\ Len(after.views) > latest /\ ~erred) THEN 0
              ELSE IF cut THEN backoff ELSE reprobeInterval
        /\ Goes(c, IF erred /\ ~reached THEN "idle" ELSE "again")
        /\ UNCHANGED <<repo, published, cache, faults>>

\* After the probe: it is there, or it is unknown.
LooksAgain(c) ==
    /\ At(c, "again")
    /\ Goes(c, IF Loaded(c) THEN "found" ELSE "idle")
    /\ UNCHANGED <<repo, published, set, backoff, cache, faults>>

Publish ==
    /\ published < Len(repo.manifests)
    /\ published' = published + 1
    /\ UNCHANGED <<repo, set, backoff, look, cache, faults>>

Tick ==
    /\ backoff > 0
    /\ backoff' = backoff - 1
    /\ UNCHANGED <<repo, published, set, look, cache, faults>>

-----------------------------------------------------------------------------
(***************************************************************************)
(* Files, and the cache of the least recently used ones.                   *)
(***************************************************************************)

\* The row of a manifest with this key, and the one that Latest chooses for an id: the row
\* without a version, or else the one with the highest.
Get(m, key) == {row \in Range(m) : KeyOf(row) = key}
Latest(m, id) ==
    LET rows == {row \in Range(m) : row.id = id} IN
    {row \in rows : IF \E r \in rows : r.version = 0 THEN row.version = 0
                     ELSE \A r \in rows : r.version <= row.version}

\* The rows that the caller may have asked for.
Rows(c) ==
    IF look[c].want = 0 THEN Get(set.views[set.explicit[look[c].key].manifest], look[c].key)
    ELSE LET m == set.views[look[c].want] IN
         UNION ({Get(m, KeyOf(row)) : row \in Range(m)} \cup {Latest(m, row.id) : row \in Range(m)})

SizeOf(order) ==
    LET sum[n \in 0 .. Len(order)] == IF n = 0 THEN 0 ELSE sum[n - 1] + sizeOf[order[n]]
    IN  sum[Len(order)]

MovedToFront(order, k) == <<order[k]>> \o (SubSeq(order, 1, k - 1) \o SubSeq(order, k + 1, Len(order)))

\* loadAndParse, through the cache: a hit, or a fetch from the source.
Load(c, path) ==
    /\ At(c, "found")
    /\ path \in {row.path : row \in Rows(c)}
    /\ IF path \in Range(cache.order)
       THEN /\ \E k \in DOMAIN cache.order :
                  cache.order[k] = path /\ cache' = [cache EXCEPT !.order = MovedToFront(@, k)]
            /\ Goes(c, "idle")
       ELSE look' = [look EXCEPT ![c].pc = "load", ![c].path = path] /\ UNCHANGED cache
    /\ UNCHANGED <<repo, published, set, backoff, faults>>

LoadFails(c) ==
    /\ At(c, "load")
    /\ faults < MaxFaults
    /\ faults' = faults + 1
    /\ Goes(c, "idle")
    /\ UNCHANGED <<repo, published, set, backoff, cache>>

\* Another caller may have stored the file while this one fetched it.
StoredMeanwhile(path) == path \in Range(cache.order)

\* One file makes room.
KeptButLast(room) ==
    IF cache.size <= room THEN cache.order ELSE SubSeq(cache.order, 1, Len(cache.order) - 1)

\* The files that stay when those at the back make room for one more.
Kept(room) ==
    LET fits == {n \in 0 .. Len(cache.order) :
                    cache.size - SizeOf(SubSeq(cache.order, n + 1, Len(cache.order))) <= room}
    IN  SubSeq(cache.order, 1, Max(fits))

store(c) ==
    LET path == look[c].path
        kept == Kept(maxBytes - sizeOf[path])
    IN  /\ At(c, "load")
        /\ IF ~set.caches \/ sizeOf[path] > maxBytes \/ StoredMeanwhile(path)
           THEN UNCHANGED cache
           ELSE cache' = [order |-> <<path>> \o kept,
                          size |-> cache.size - (SizeOf(cache.order) - SizeOf(kept)) + sizeOf[path]]
        /\ Goes(c, "idle")
        /\ UNCHANGED <<repo, published, set, backoff, faults>>

-----------------------------------------------------------------------------
Keys == UNION {{KeyOf(row) : row \in ExplicitRows(repo.manifests[k])} :
                  k \in {j \in DOMAIN repo.manifests : repo.manifests[j] # Malformed}}

ArtifactInit ==
    /\ repo \in Repositories
    /\ published \in 0 .. Len(repo.manifests)
    /\ \E pin \in Pins :
          set = [state |-> "loading", pin |-> pin, current |-> 0, views |-> <<>>,
                 explicit |-> [key \in {} |-> 0], rejected |-> FALSE, caches |-> FALSE]
    /\ backoff = 0
    /\ look = [c \in Lookups |-> NoLookup]
    /\ cache = NoCache
    /\ faults = 0

Steps(c) ==
    \/ probe(c)
    \/ \E got \in Fetched(look[c].latest + 1), failed \in BOOLEAN : Fetches(c, got, failed)
    \/ \E cut \in BOOLEAN : Installs(c, cut)
    \/ LooksAgain(c)

ArtifactNext ==
    \/ \E got \in Fetched(1), failed \in BOOLEAN : LoadSet(got, failed)
    \/ Restart \/ Publish \/ Tick
    \/ \E c \in Lookups :
          \/ \E v \in 1 .. Len(repo.manifests) : Registry(c, v)
          \/ \E key \in Keys : GetExplicit(c, key)
          \/ Steps(c)
          \/ GivesUp(c)
          \/ \E path \in DOMAIN sizeOf : Load(c, path)
          \/ LoadFails(c)
          \/ store(c)

\* Every call that is under way goes on, and time passes.
ArtifactFairness == WF_artifactVars(Tick) /\ \A c \in Lookups : WF_artifactVars(Steps(c))

ArtifactSpec == ArtifactInit /\ [][ArtifactNext]_artifactVars /\ ArtifactFairness

-----------------------------------------------------------------------------
(***************************************************************************)
(* Properties.                                                             *)
(***************************************************************************)

\* All loaded manifests agree on the file of an explicit version, so that a lookup by
\* explicit version does not depend on the manifest it is answered from, in whichever
\* order they were loaded (add, GetExplicit).
ExplicitKeepsFile ==
    \A k \in DOMAIN set.views : \A row \in ExplicitRows(set.views[k]) :
        /\ KeyOf(row) \in DOMAIN set.explicit
        /\ set.explicit[KeyOf(row)].path = row.path

\* The cache holds each file once, counts its bytes right and stays within its bound,
\* whichever callers missed on a file together and however many files a new one drives
\* out (cachingLoader).
CacheIsBounded ==
    /\ IsInjective(cache.order)
    /\ cache.size = SizeOf(cache.order)
    /\ cache.size <= maxBytes

\* The set can take the manifests up to v, and a caller asks for v.
Loadable(v) ==
    /\ set.state = "ready" /\ v <= published
    /\ LET more == SubSeq(repo.manifests, latest + 1, v) IN
       Malformed \notin Range(more) /\ ~AddAll(set, more).rejected
AskedFor(v) == \E c \in Lookups : At(c, "slot") /\ look[c].want = v
Versions == 1 .. Max({Len(r.manifests) : r \in Repositories})

\* A manifest that is published, and that the set can take with those before it, is
\* loaded if callers go on asking for it: neither the back-off nor the single slot
\* hides it for ever, and neither do the faults of the source (Registry, probe).
PublishedIsFound ==
    \A v \in Versions : []<>AskedFor(v) => [](Loadable(v) => <>(v <= latest))

=============================================================================
