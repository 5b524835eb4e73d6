---------------------------- MODULE AuthnProofs ----------------------------
(***************************************************************************)
(* Proofs about Authn, for any number of requests and keys and any lengths *)
(* of time: no request is refused for an unknown key whose key has been    *)
(* published since it came in; none is accepted with a key that was        *)
(* withdrawn longer ago than the cache and one fetch last; and, for every  *)
(* extractor and token, a principal has the claims required of it.         *)
(***************************************************************************)
EXTENDS Authn, TLAPS

-----------------------------------------------------------------------------
(***************************************************************************)
(* Which keys are found.                                                   *)
(***************************************************************************)

Fields == {"pc", "kid", "known", "forced", "now", "snapshot", "got", "left"}

\* What the proofs need to know of the values that the variables take.
Shape ==
    /\ time \in Nat \ {0} /\ lastJWKSFetch \in Nat
    /\ DOMAIN withdrawn = Kids /\ published \subseteq Kids
    /\ DOMAIN bearer = Bearers
    /\ \A r \in Bearers : DOMAIN bearer[r] = Fields /\ bearer[r].now \in Nat
    /\ queue \in Seq(Bearers)

\* The request that fetches holds the lock, and those that wait for it are in the queue once.
LockInv ==
    /\ \A r \in Bearers : bearer[r].pc \in {"fetch", "answer"} => holder = r
    /\ \A k \in 1 .. Len(queue) : bearer[queue[k]].pc = "lock"
    /\ \A j, k \in 1 .. Len(queue) : queue[j] = queue[k] => j = k

\* The key of this request was published when it came in, and has been ever since.
StillThere(r) == bearer[r].known /\ bearer[r].kid \in published

\* A key is published once: one that was published and is not any more has been withdrawn.
PublishedOnce ==
    /\ \A kid \in published : withdrawn[kid] = 0
    /\ \A r \in Bearers : bearer[r].known =>
          bearer[r].kid \in Kids /\ (bearer[r].kid \in published \/ withdrawn[bearer[r].kid] # 0)

\* An answer of the identity provider has the keys of the request that fetches and of all
\* that wait for the lock: they looked at the cache when no fetch was under way.
AnswerHasKeys ==
    \A h, r \in Bearers :
        bearer[h].pc = "answer" /\ (r = h \/ bearer[r].pc = "lock") /\ StillThere(r) => bearer[r].kid \in bearer[h].got

\* So has the cache, for those that have waited through a fetch.
CacheHasKeys ==
    \A r \in Bearers :
        bearer[r].pc = "lock" /\ lastJWKSFetch > bearer[r].snapshot /\ StillThere(r) => bearer[r].kid \in cachedJWKS

AuthnIInv == Shape /\ LockInv /\ PublishedOnce /\ AnswerHasKeys /\ CacheHasKeys /\ KnownKeyIsFound

\* What a step of one request leaves alone.
OwnStep(r) ==
    /\ DOMAIN bearer' = Bearers
    /\ \A q \in Bearers \ {r} : bearer'[q] = bearer[q]

\* The state of no request.
LEMMA NoBearerFields ==
    DOMAIN NoBearer = Fields /\ NoBearer.pc = "idle" /\ NoBearer.known = FALSE /\ NoBearer.now = 0
BY Zenon DEF NoBearer, Asks, Fields

\* The initial state.
LEMMA InitAuthnIInv == AuthnInit => AuthnIInv
<1> SUFFICES ASSUME AuthnInit PROVE AuthnIInv
    BY Zenon
<1>1. \A r \in Bearers : bearer[r] = NoBearer
    BY Zenon DEF AuthnInit
<1>2. Shape
    BY <1>1, NoBearerFields DEF AuthnInit, Shape
<1>3. LockInv
    BY <1>1, NoBearerFields DEF AuthnInit, LockInv
<1>4. PublishedOnce
    BY <1>1, NoBearerFields, Zenon DEF AuthnInit, PublishedOnce
<1>5. AnswerHasKeys /\ CacheHasKeys /\ KnownKeyIsFound
    BY <1>1, NoBearerFields, Zenon DEF AnswerHasKeys, CacheHasKeys, KnownKeyIsFound, BearerAt
<1> QED BY <1>2, <1>3, <1>4, <1>5, Zenon DEF AuthnIInv

\* keyFunc leaves the request served, refused, gone, or reading again with a forced
\* refresh; it is refused only after one.
Judged(r, keys) ==
    /\ OwnStep(r)
    /\ DOMAIN bearer'[r] = Fields /\ bearer'[r].now \in Nat
    /\ bearer'[r].pc \in {"idle", "served", "unknown key", "read"}
    /\ bearer'[r].known => bearer[r].known /\ bearer'[r].kid = bearer[r].kid
    /\ bearer'[r].pc = "unknown key" => bearer[r].forced /\ bearer[r].kid \notin keys
    /\ bearer'[r].pc = "served" => bearer[r].kid \in keys /\ bearer'[r].kid = bearer[r].kid
    /\ bearer'[r].pc = "read" => bearer'[r].now = time

\* The outcomes of keyFunc as states of a request.
Outcome(q, kid, known, forced, no, yes, found, now) ==
    \/ q = NoBearer
    \/ found /\ q = Asks("served", kid, known, no, 0)
    \/ forced /\ ~found /\ q = Asks("unknown key", kid, known, no, 0)
    \/ q = Asks("read", kid, known, yes, now)

\* What each outcome leaves in the record of a request (keyFunc).
LEMMA OutcomeFields ==
    ASSUME NEW q, NEW kid, NEW known, NEW forced, NEW no, NEW yes, NEW found, NEW now \in Nat,
           Outcome(q, kid, known, forced, no, yes, found, now)
    PROVE  /\ DOMAIN q = Fields /\ q.now \in Nat
           /\ q.pc \in {"idle", "served", "unknown key", "read"}
           /\ q = NoBearer \/ (q.known = known /\ q.kid = kid)
           /\ q.pc = "unknown key" => forced /\ ~found
           /\ q.pc = "served" => found /\ q.kid = kid
           /\ q.pc = "read" => q.now = now
<1>1. CASE q = NoBearer
    BY <1>1, NoBearerFields
<1>2. CASE found /\ q = Asks("served", kid, known, no, 0)
    BY <1>2, Zenon DEF Asks, Fields
<1>3. CASE forced /\ ~found /\ q = Asks("unknown key", kid, known, no, 0)
    BY <1>3, Zenon DEF Asks, Fields
<1>4. CASE q = Asks("read", kid, known, yes, now)
    BY <1>4, Zenon DEF Asks, Fields
<1> QED BY <1>1, <1>2, <1>3, <1>4, Zenon DEF Outcome

\* keyFunc ends a request, or sends it back once with a forced refresh.
LEMMA KeyFuncJudges ==
    ASSUME Shape, NEW r \in Bearers, NEW keys, keyFunc(r, keys)
    PROVE  Judged(r, keys)
<1> DEFINE kid == bearer[r].kid
           known == bearer[r].known
           forced == bearer[r].forced
           served == kid \notin BadKids /\ ExtractPrincipal(extractor, token).claims
           next == IF kid \in keys THEN IF served THEN Asks("served", kid, known, FALSE, 0) ELSE NoBearer
                   ELSE IF forced THEN Asks("unknown key", kid, known, FALSE, 0)
                   ELSE Asks("read", kid, known, TRUE, time)
<1>1. bearer' = [bearer EXCEPT ![r] = next]
    BY Zenon DEF keyFunc
<1> HIDE DEF next
<1>2. OwnStep(r) /\ bearer'[r] = next
    BY <1>1, Zenon DEF Shape, OwnStep
<1> HIDE DEF kid, known, forced, served
<1>3. Outcome(next, kid, known, forced, FALSE, TRUE, kid \in keys, time)
    BY Zenon DEF next, Outcome
<1>4. time \in Nat
    BY Zenon DEF Shape
<1>5. /\ DOMAIN next = Fields /\ next.now \in Nat
      /\ next.pc \in {"idle", "served", "unknown key", "read"}
      /\ next = NoBearer \/ (next.known = known /\ next.kid = kid)
      /\ next.pc = "unknown key" => forced /\ ~(kid \in keys)
      /\ next.pc = "served" => (kid \in keys) /\ next.kid = kid
      /\ next.pc = "read" => next.now = time
    BY <1>3, <1>4, OutcomeFields, Zenon
<1>6. next.known => known /\ next.kid = kid
    BY <1>5, NoBearerFields, Zenon
<1> QED BY <1>2, <1>5, <1>6, Zenon DEF Judged, kid, known, forced

\* What is not about the lock and the keys, after keyFunc: a request is refused only if
\* the keys it looked in lack one that has been published all the time.
LEMMA JudgedKeeps ==
    ASSUME AuthnIInv, NEW r \in Bearers, NEW keys, Judged(r, keys), UNCHANGED <<published, withdrawn, time>>,
           bearer[r].forced /\ StillThere(r) => bearer[r].kid \in keys
    PROVE  /\ DOMAIN bearer' = Bearers
           /\ \A q \in Bearers : DOMAIN bearer'[q] = Fields /\ bearer'[q].now \in Nat
           /\ PublishedOnce'
           /\ KnownKeyIsFound'
<1>1. DOMAIN bearer' = Bearers /\ \A q \in Bearers : DOMAIN bearer'[q] = Fields /\ bearer'[q].now \in Nat
    BY Zenon DEF AuthnIInv, Shape, Judged, OwnStep
<1>2. PublishedOnce'
  <2>1. ASSUME NEW q \in Bearers, bearer'[q].known
        PROVE  bearer[q].known /\ bearer'[q].kid = bearer[q].kid
    <3>1. CASE q # r
        BY <2>1, <3>1, Zenon DEF Judged, OwnStep
    <3>2. CASE q = r
        BY <2>1, <3>2, Zenon DEF Judged
    <3> QED BY <3>1, <3>2, Zenon
  <2> QED BY <2>1, Zenon DEF AuthnIInv, PublishedOnce
<1>3. ASSUME NEW q \in Bearers, bearer'[q].pc = "unknown key", bearer'[q].known
      PROVE  bearer'[q].kid \notin published
  <2>1. CASE q # r
    <3>1. bearer'[q] = bearer[q]
        BY <2>1, Zenon DEF Judged, OwnStep
    <3> QED BY <1>3, <3>1, Zenon DEF AuthnIInv, KnownKeyIsFound, BearerAt
  <2>2. CASE q = r
    <3>1. bearer[r].forced /\ bearer[r].kid \notin keys /\ bearer[r].known /\ bearer'[r].kid = bearer[r].kid
        BY <1>3, <2>2, Zenon DEF Judged
    <3> QED BY <2>2, <3>1, Zenon DEF StillThere
  <2> QED BY <2>1, <2>2, Zenon
<1>4. KnownKeyIsFound'
    BY <1>3, Zenon DEF KnownKeyIsFound, BearerAt
<1> QED BY <1>1, <1>2, <1>4, Zenon

\* Steps of a request that is not in the queue.
LEMMA LockKept ==
    ASSUME AuthnIInv, NEW r \in Bearers, OwnStep(r), UNCHANGED <<holder, queue>>, bearer[r].pc # "lock",
           bearer'[r].pc \in {"fetch", "answer"} => holder = r
    PROVE  LockInv'
<1>1. \A k \in 1 .. Len(queue) : queue[k] \in Bearers
    BY DEF AuthnIInv, Shape
<1>2. \A k \in 1 .. Len(queue) : queue[k] # r
    BY Zenon DEF AuthnIInv, LockInv
<1> QED BY <1>1, <1>2 DEF AuthnIInv, LockInv, OwnStep

\* A request comes in.
LEMMA AuthenticateKeeps ==
    ASSUME AuthnIInv, NEW r \in Bearers, NEW kid \in Kids, Authenticate(r, kid)
    PROVE  AuthnIInv'
<1> DEFINE known == kid \in published
           no == FALSE
<1>1. bearer' = [bearer EXCEPT ![r] = Asks("read", kid, known, no, time)]
    BY Zenon DEF Authenticate
<1>2. UNCHANGED <<published, withdrawn, time, cachedJWKS, lastJWKSFetch, holder, queue>> /\ bearer[r].pc = "idle"
    BY Zenon DEF Authenticate, BearerAt
<1> HIDE DEF known, no
<1>3. OwnStep(r) /\ bearer'[r] = Asks("read", kid, known, no, time)
    BY <1>1, Zenon DEF AuthnIInv, Shape, OwnStep
<1>4. /\ DOMAIN bearer'[r] = Fields /\ bearer'[r].pc = "read" /\ bearer'[r].kid = kid /\ bearer'[r].known = known
      /\ bearer'[r].now = time
    BY <1>3 DEF Asks, Fields
<1>5. Shape'
    BY <1>2, <1>3, <1>4, Zenon DEF AuthnIInv, Shape, OwnStep
<1>6. LockInv'
    BY <1>2, <1>3, <1>4, LockKept, Zenon
<1>7. PublishedOnce'
  <2>1. bearer'[r].known => kid \in published
      BY <1>4, Zenon DEF known
  <2> QED BY <1>2, <1>3, <1>4, <2>1 DEF AuthnIInv, PublishedOnce, OwnStep
<1>8. AnswerHasKeys' /\ CacheHasKeys'
    BY <1>2, <1>3, <1>4 DEF AuthnIInv, AnswerHasKeys, CacheHasKeys, StillThere, OwnStep
<1>9. KnownKeyIsFound'
    BY <1>2, <1>3, <1>4, Zenon DEF AuthnIInv, KnownKeyIsFound, BearerAt, OwnStep
<1> QED BY <1>5, <1>6, <1>7, <1>8, <1>9, Zenon DEF AuthnIInv

\* A request reads the cache.  It waits for the lock when no fetch is under way.
LEMMA GetJWKSKeeps ==
    ASSUME AuthnIInv, NEW r \in Bearers, getJWKS(r)
    PROVE  AuthnIInv'
<1>1. /\ UNCHANGED <<published, withdrawn, time, cachedJWKS, lastJWKSFetch, holder>>
      /\ bearer[r].pc = "read" /\ holder = Unheld
    BY Zenon DEF getJWKS, BearerAt
<1>2. CASE ~bearer[r].forced /\ keyFunc(r, cachedJWKS) /\ UNCHANGED queue
  <2>1. Judged(r, cachedJWKS)
      BY <1>2, KeyFuncJudges, Zenon DEF AuthnIInv
  <2>2. /\ DOMAIN bearer' = Bearers
        /\ \A q \in Bearers : DOMAIN bearer'[q] = Fields /\ bearer'[q].now \in Nat
        /\ PublishedOnce'
        /\ KnownKeyIsFound'
      BY <1>1, <1>2, <2>1, JudgedKeeps, Zenon
  <2>3. Shape'
      BY <1>1, <1>2, <2>2, Zenon DEF AuthnIInv, Shape
  <2>4. OwnStep(r) /\ bearer'[r].pc \notin {"lock", "fetch", "answer"}
      BY <2>1, Zenon DEF Judged
  <2>5. UNCHANGED queue
      BY <1>2, Zenon
  <2>6. LockInv'
      BY <1>1, <2>4, <2>5, LockKept, Zenon
  <2>7. AnswerHasKeys' /\ CacheHasKeys'
      BY <1>1, <2>4 DEF AuthnIInv, AnswerHasKeys, CacheHasKeys, StillThere, OwnStep
  <2> QED BY <2>2, <2>3, <2>6, <2>7, Zenon DEF AuthnIInv
<1>3. CASE /\ bearer' = [bearer EXCEPT ![r].pc = "lock", ![r].now = 0, ![r].snapshot = lastJWKSFetch]
           /\ queue' = Append(queue, r)
  <2>1. OwnStep(r)
      BY <1>3, Zenon DEF AuthnIInv, Shape, OwnStep
  <2>2. /\ DOMAIN bearer'[r] = Fields /\ bearer'[r].pc = "lock" /\ bearer'[r].snapshot = lastJWKSFetch
        /\ bearer'[r].now = 0
        /\ bearer'[r].known = bearer[r].known /\ bearer'[r].kid = bearer[r].kid
      BY <1>3, Zenon DEF AuthnIInv, Shape, Fields
  <2>3. Shape'
      BY <1>1, <1>3, <2>1, <2>2 DEF AuthnIInv, Shape, OwnStep
  <2>4. \A k \in 1 .. Len(queue) : queue[k] # r
      BY <1>1, Zenon DEF AuthnIInv, LockInv
  <2>5. LockInv'
    <3>1. queue \in Seq(Bearers)
        BY Zenon DEF AuthnIInv, Shape
    <3>2. /\ Len(queue') = Len(queue) + 1 /\ Len(queue) \in Nat
          /\ queue'[Len(queue) + 1] = r
          /\ \A k \in 1 .. Len(queue) : queue'[k] = queue[k] /\ queue[k] \in Bearers
        BY <1>3, <3>1
    <3> QED BY <1>1, <2>1, <2>2, <2>4, <3>2, SMTT(20) DEF AuthnIInv, LockInv, OwnStep
  <2>6. PublishedOnce'
      BY <1>1, <2>1, <2>2 DEF AuthnIInv, PublishedOnce, OwnStep
  <2>7. \A h \in Bearers : bearer'[h].pc # "answer"
      BY <1>1, <2>1, <2>2, BearersAssumption DEF AuthnIInv, LockInv, OwnStep
  <2>8. AnswerHasKeys'
      BY <2>7, Zenon DEF AnswerHasKeys
  <2>9. CacheHasKeys'
    <3>1. ~(lastJWKSFetch > lastJWKSFetch)
        BY DEF AuthnIInv, Shape
    <3> QED BY <1>1, <2>1, <2>2, <3>1, Zenon DEF AuthnIInv, CacheHasKeys, StillThere, OwnStep
  <2>10. KnownKeyIsFound'
      BY <1>1, <2>1, <2>2, Zenon DEF AuthnIInv, KnownKeyIsFound, BearerAt, OwnStep
  <2> QED BY <2>3, <2>5, <2>6, <2>8, <2>9, <2>10, Zenon DEF AuthnIInv
<1> QED BY <1>1, <1>2, <1>3, Zenon DEF getJWKS

\* The first request of the queue leaves it.
LEMMA QueueShrinks ==
    ASSUME AuthnIInv, NEW r \in Bearers, OwnStep(r), queue # <<>>, r = Head(queue), queue' = Tail(queue)
    PROVE  /\ bearer[r].pc = "lock"
           /\ queue' \in Seq(Bearers)
           /\ \A k \in 1 .. Len(queue') : bearer'[queue'[k]].pc = "lock"
           /\ \A j, k \in 1 .. Len(queue') : queue'[j] = queue'[k] => j = k
<1>1. queue \in Seq(Bearers)
    BY Zenon DEF AuthnIInv, Shape
<1>2. /\ Len(queue) \in Nat \ {0} /\ r = queue[1]
      /\ queue' \in Seq(Bearers) /\ Len(queue') = Len(queue) - 1
      /\ \A k \in 1 .. Len(queue') : queue'[k] = queue[k + 1] /\ queue[k + 1] \in Bearers
    BY <1>1
<1>3. bearer[r].pc = "lock"
    BY <1>2 DEF AuthnIInv, LockInv
<1>4. \A k \in 1 .. Len(queue') : queue[k + 1] # r /\ bearer[queue[k + 1]].pc = "lock"
    BY <1>2 DEF AuthnIInv, LockInv
<1>5. \A k \in 1 .. Len(queue') : bearer'[queue'[k]].pc = "lock"
    BY <1>2, <1>4 DEF OwnStep
<1>6. \A j, k \in 1 .. Len(queue') : queue'[j] = queue'[k] => j = k
    BY <1>2 DEF AuthnIInv, LockInv
<1> QED BY <1>2, <1>3, <1>5, <1>6, Zenon

\* A request gets the lock.  A forced refresh that takes over the keys in the cache finds
\* its key among them.
LEMMA LocksKeeps ==
    ASSUME AuthnIInv, NEW r \in Bearers, Locks(r)
    PROVE  AuthnIInv'
<1>1. /\ UNCHANGED <<published, withdrawn, time, cachedJWKS, lastJWKSFetch>>
      /\ holder = Unheld /\ queue # <<>> /\ r = Head(queue) /\ queue' = Tail(queue)
    BY Zenon DEF Locks
<1>2. \A q \in Bearers : bearer[q].pc \notin {"fetch", "answer"}
    BY <1>1, BearersAssumption, Zenon DEF AuthnIInv, LockInv
<1>3. CASE (bearer[r].forced => FetchedMeanwhile(r)) /\ keyFunc(r, cachedJWKS) /\ UNCHANGED holder
  <2>1. Judged(r, cachedJWKS)
      BY <1>3, KeyFuncJudges, Zenon DEF AuthnIInv
  <2>2. OwnStep(r) /\ bearer'[r].pc \notin {"lock", "fetch", "answer"}
      BY <2>1, Zenon DEF Judged
  <2>3. /\ bearer[r].pc = "lock"
        /\ queue' \in Seq(Bearers)
        /\ \A k \in 1 .. Len(queue') : bearer'[queue'[k]].pc = "lock"
        /\ \A j, k \in 1 .. Len(queue') : queue'[j] = queue'[k] => j = k
      BY <1>1, <2>2, QueueShrinks, Zenon
  <2>4. bearer[r].forced /\ StillThere(r) => bearer[r].kid \in cachedJWKS
      BY <1>3, <2>3, Zenon DEF AuthnIInv, CacheHasKeys, FetchedMeanwhile
  <2>5. /\ DOMAIN bearer' = Bearers
        /\ \A q \in Bearers : DOMAIN bearer'[q] = Fields /\ bearer'[q].now \in Nat
        /\ PublishedOnce'
        /\ KnownKeyIsFound'
      BY <1>1, <2>1, <2>4, JudgedKeeps, Zenon
  <2>6. Shape'
      BY <1>1, <2>3, <2>5, Zenon DEF AuthnIInv, Shape
  <2>7. LockInv'
      BY <1>2, <2>2, <2>3, Zenon DEF LockInv, OwnStep
  <2>8. AnswerHasKeys' /\ CacheHasKeys'
      BY <1>1, <2>2 DEF AuthnIInv, AnswerHasKeys, CacheHasKeys, StillThere, OwnStep
  <2> QED BY <2>5, <2>6, <2>7, <2>8, Zenon DEF AuthnIInv
<1>4. CASE /\ holder' = r
           /\ bearer' = [bearer EXCEPT ![r].pc = "fetch", ![r].snapshot = 0, ![r].now = time, ![r].left = FetchTimeout]
  <2>1. OwnStep(r)
      BY <1>4, Zenon DEF AuthnIInv, Shape, OwnStep
  <2>2. /\ DOMAIN bearer'[r] = Fields /\ bearer'[r].pc = "fetch" /\ bearer'[r].now = time
        /\ bearer'[r].known = bearer[r].known /\ bearer'[r].kid = bearer[r].kid
      BY <1>4 DEF AuthnIInv, Shape, Fields
  <2>3. /\ queue' \in Seq(Bearers)
        /\ \A k \in 1 .. Len(queue') : bearer'[queue'[k]].pc = "lock"
        /\ \A j, k \in 1 .. Len(queue') : queue'[j] = queue'[k] => j = k
      BY <1>1, <2>1, QueueShrinks, Zenon
  <2>4. Shape'
    <3>1. DOMAIN bearer' = Bearers /\ \A q \in Bearers : DOMAIN bearer'[q] = Fields /\ bearer'[q].now \in Nat
        BY <2>1, <2>2, Zenon DEF AuthnIInv, Shape, OwnStep
    <3> QED BY <1>1, <2>3, <3>1, Zenon DEF AuthnIInv, Shape
  <2>5. LockInv'
      BY <1>2, <1>4, <2>1, <2>2, <2>3 DEF LockInv, OwnStep
  <2>6. PublishedOnce'
      BY <1>1, <2>1, <2>2 DEF AuthnIInv, PublishedOnce, OwnStep
  <2>7. AnswerHasKeys' /\ CacheHasKeys'
      BY <1>1, <2>1, <2>2 DEF AuthnIInv, AnswerHasKeys, CacheHasKeys, StillThere, OwnStep
  <2>8. KnownKeyIsFound'
      BY <1>1, <2>1, <2>2, Zenon DEF AuthnIInv, KnownKeyIsFound, BearerAt, OwnStep
  <2> QED BY <2>4, <2>5, <2>6, <2>7, <2>8, Zenon DEF AuthnIInv
<1> QED BY <1>3, <1>4, Zenon DEF Locks

\* The identity provider answers with all the keys that it publishes.
LEMMA KeysAnsweredKeeps ==
    ASSUME AuthnIInv, NEW r \in Bearers, KeysAnswered(r)
    PROVE  AuthnIInv'
<1>1. /\ UNCHANGED <<published, withdrawn, time, cachedJWKS, lastJWKSFetch, holder, queue>>
      /\ bearer[r].pc = "fetch" /\ holder = r
    BY Zenon DEF KeysAnswered, BearerAt, AuthnIInv, LockInv
<1>2. OwnStep(r)
    BY Zenon DEF AuthnIInv, Shape, KeysAnswered, OwnStep
<1>3. /\ DOMAIN bearer'[r] = Fields /\ bearer'[r].pc = "answer" /\ bearer'[r].got = published
      /\ bearer'[r].known = bearer[r].known /\ bearer'[r].kid = bearer[r].kid /\ bearer'[r].now = bearer[r].now
    BY Zenon DEF AuthnIInv, Shape, KeysAnswered, Fields
<1>4. Shape'
    BY <1>1, <1>2, <1>3, Zenon DEF AuthnIInv, Shape, OwnStep
<1>5. LockInv'
    BY <1>1, <1>2, <1>3, LockKept, Zenon
<1>6. PublishedOnce'
    BY <1>1, <1>2, <1>3 DEF AuthnIInv, PublishedOnce, OwnStep
<1>7. AnswerHasKeys' /\ CacheHasKeys'
    BY <1>1, <1>2, <1>3 DEF AuthnIInv, AnswerHasKeys, CacheHasKeys, StillThere, OwnStep
<1>8. KnownKeyIsFound'
    BY <1>1, <1>2, <1>3, Zenon DEF AuthnIInv, KnownKeyIsFound, BearerAt, OwnStep
<1> QED BY <1>4, <1>5, <1>6, <1>7, <1>8, Zenon DEF AuthnIInv

\* The lock is given back by the request that fetched.
LEMMA LockGivenBack ==
    ASSUME AuthnIInv, NEW r \in Bearers, OwnStep(r), UNCHANGED queue,
           bearer[r].pc \in {"fetch", "answer"}, bearer'[r].pc \notin {"lock", "fetch", "answer"}
    PROVE  LockInv' /\ \A h \in Bearers : bearer'[h].pc # "answer"
<1>1. \A q \in Bearers \ {r} : bearer[q].pc \notin {"fetch", "answer"}
    BY Zenon DEF AuthnIInv, LockInv
<1>2. \A k \in 1 .. Len(queue) : queue[k] \in Bearers /\ queue[k] # r
    BY DEF AuthnIInv, Shape, LockInv
<1> QED BY <1>1, <1>2 DEF AuthnIInv, LockInv, OwnStep

\* The answer is stored in the cache: it has the keys of all that wait.
LEMMA FetchJWKSKeeps ==
    ASSUME AuthnIInv, NEW r \in Bearers, fetchJWKS(r)
    PROVE  AuthnIInv'
<1>1. /\ UNCHANGED <<published, withdrawn, time, queue>>
      /\ cachedJWKS' = bearer[r].got /\ lastJWKSFetch' = bearer[r].now
      /\ bearer[r].pc = "answer"
    BY Zenon DEF fetchJWKS, BearerAt, DatedBefore
<1>2. Judged(r, bearer[r].got)
  <2>1. keyFunc(r, bearer[r].got)
      BY Zenon DEF fetchJWKS
  <2> QED BY <2>1, KeyFuncJudges, Zenon DEF AuthnIInv
<1>3. OwnStep(r) /\ bearer'[r].pc \notin {"lock", "fetch", "answer"}
    BY <1>2, Zenon DEF Judged
<1>4. StillThere(r) => bearer[r].kid \in bearer[r].got
    BY <1>1, Zenon DEF AuthnIInv, AnswerHasKeys
<1>5. /\ DOMAIN bearer' = Bearers
      /\ \A q \in Bearers : DOMAIN bearer'[q] = Fields /\ bearer'[q].now \in Nat
      /\ PublishedOnce'
      /\ KnownKeyIsFound'
    BY <1>1, <1>2, <1>4, JudgedKeeps, Zenon
<1>6. Shape'
    BY <1>1, <1>5, Zenon DEF AuthnIInv, Shape
<1>7. LockInv' /\ \A h \in Bearers : bearer'[h].pc # "answer"
    BY <1>1, <1>3, LockGivenBack, Zenon
<1>8. AnswerHasKeys'
    BY <1>7, Zenon DEF AnswerHasKeys
<1>9. CacheHasKeys'
  <2> SUFFICES ASSUME NEW q \in Bearers, bearer'[q].pc = "lock", StillThere(q)'
               PROVE  bearer'[q].kid \in cachedJWKS'
      BY Zenon DEF CacheHasKeys
  <2>1. bearer'[q] = bearer[q]
      BY <1>3, Zenon DEF OwnStep
  <2> QED BY <1>1, <2>1, Zenon DEF AuthnIInv, AnswerHasKeys, StillThere
<1> QED BY <1>5, <1>6, <1>7, <1>8, <1>9, Zenon DEF AuthnIInv

\* A request is over: its fetch has failed, or it has been answered.
LEMMA LeavesKeeps ==
    ASSUME AuthnIInv, NEW r \in Bearers, FetchFails(r) \/ BearerDone(r)
    PROVE  AuthnIInv'
<1>1. /\ UNCHANGED <<published, withdrawn, time, cachedJWKS, lastJWKSFetch, queue>>
      /\ OwnStep(r) /\ bearer'[r] = NoBearer
    BY Zenon DEF AuthnIInv, Shape, FetchFails, BearerDone, OwnStep
<1>2. DOMAIN bearer'[r] = Fields /\ bearer'[r].pc = "idle" /\ ~bearer'[r].known /\ bearer'[r].now = 0
    BY <1>1, NoBearerFields, Zenon
<1>3. Shape'
    BY <1>1, <1>2, SMTT(20) DEF AuthnIInv, Shape, OwnStep
<1>4. LockInv'
  <2>1. CASE FetchFails(r)
      BY <1>1, <1>2, <2>1, LockGivenBack, Zenon DEF FetchFails
  <2>2. CASE BearerDone(r)
      BY <1>1, <1>2, <2>2, LockKept, Zenon DEF BearerDone
  <2> QED BY <2>1, <2>2, Zenon
<1>5. PublishedOnce'
    BY <1>1, <1>2, Zenon DEF AuthnIInv, PublishedOnce, OwnStep
<1>6. AnswerHasKeys' /\ CacheHasKeys'
    BY <1>1, <1>2 DEF AuthnIInv, AnswerHasKeys, CacheHasKeys, StillThere, OwnStep
<1>7. KnownKeyIsFound'
    BY <1>1, <1>2, Zenon DEF AuthnIInv, KnownKeyIsFound, BearerAt, OwnStep
<1> QED BY <1>3, <1>4, <1>5, <1>6, <1>7, Zenon DEF AuthnIInv

\* A key is published for the first time, or withdrawn for good.
LEMMA ProviderKeeps ==
    ASSUME AuthnIInv, NEW kid \in Kids, Publish(kid) \/ Withdraw(kid)
    PROVE  AuthnIInv'
<1>1. UNCHANGED <<time, cachedJWKS, lastJWKSFetch, holder, queue, bearer>>
    BY Zenon DEF Publish, Withdraw
<1>2. Shape' /\ LockInv'
    BY <1>1, Zenon DEF AuthnIInv, Shape, LockInv, Publish, Withdraw
<1>3. PublishedOnce'
  <2>1. CASE Publish(kid)
      BY <1>1, <2>1, Zenon DEF AuthnIInv, PublishedOnce, Publish
  <2>2. CASE Withdraw(kid)
    <3>1. published' = published \ {kid} /\ withdrawn' = [withdrawn EXCEPT ![kid] = time] /\ time # 0
        BY <2>2, Zenon DEF Withdraw, AuthnIInv, Shape
    <3> QED BY <1>1, <3>1, Zenon DEF AuthnIInv, Shape, PublishedOnce
  <2> QED BY <2>1, <2>2, Zenon
<1>4. \A r \in Bearers : bearer[r].known /\ bearer[r].kid \in published' => bearer[r].kid \in published
    BY Zenon DEF AuthnIInv, PublishedOnce, Publish, Withdraw
<1>5. AnswerHasKeys' /\ CacheHasKeys'
    BY <1>1, <1>4, Zenon DEF AuthnIInv, AnswerHasKeys, CacheHasKeys, StillThere
<1>6. KnownKeyIsFound'
    BY <1>1, <1>4, Zenon DEF AuthnIInv, KnownKeyIsFound, BearerAt
<1> QED BY <1>2, <1>3, <1>5, <1>6, Zenon DEF AuthnIInv

\* Time passes.
LEMMA TickKeeps ==
    ASSUME AuthnIInv, AuthnTick
    PROVE  AuthnIInv'
<1>1. UNCHANGED <<published, withdrawn, cachedJWKS, lastJWKSFetch, holder, queue>> /\ time' \in Nat \ {0}
    BY DEF AuthnIInv, Shape, AuthnTick
<1>2. DOMAIN bearer' = Bearers
    BY Zenon DEF AuthnTick
<1>3. ASSUME NEW r \in Bearers
      PROVE  /\ DOMAIN bearer'[r] = Fields /\ bearer'[r].pc = bearer[r].pc /\ bearer'[r].kid = bearer[r].kid
             /\ bearer'[r].known = bearer[r].known /\ bearer'[r].now = bearer[r].now
             /\ bearer'[r].snapshot = bearer[r].snapshot /\ bearer'[r].got = bearer[r].got
    BY Zenon DEF AuthnIInv, Shape, AuthnTick, Fields
<1>4. Shape'
    BY <1>1, <1>2, <1>3, Zenon DEF AuthnIInv, Shape
<1>5. LockInv'
  <2>1. \A k \in 1 .. Len(queue) : queue[k] \in Bearers
      BY DEF AuthnIInv, Shape
  <2> QED BY <1>1, <1>3, <2>1, SMTT(20) DEF AuthnIInv, LockInv
<1>6. PublishedOnce'
    BY <1>1, <1>3, Zenon DEF AuthnIInv, PublishedOnce
<1>7. AnswerHasKeys' /\ CacheHasKeys'
    BY <1>1, <1>3, Zenon DEF AuthnIInv, AnswerHasKeys, CacheHasKeys, StillThere
<1>8. KnownKeyIsFound'
    BY <1>1, <1>3, Zenon DEF AuthnIInv, KnownKeyIsFound, BearerAt
<1> QED BY <1>4, <1>5, <1>6, <1>7, <1>8, Zenon DEF AuthnIInv

\* Every step.
LEMMA NextAuthnIInv == AuthnIInv /\ [AuthnNext]_authnVars => AuthnIInv'
<1> SUFFICES ASSUME AuthnIInv, [AuthnNext]_authnVars PROVE AuthnIInv'
    BY Zenon
<1>1. CASE \E r \in Bearers, kid \in Kids : Authenticate(r, kid)
    BY <1>1, AuthenticateKeeps, Zenon
<1>2. CASE \E r \in Bearers : getJWKS(r) \/ Locks(r) \/ KeysAnswered(r) \/ fetchJWKS(r)
    BY <1>2, GetJWKSKeeps, LocksKeeps, KeysAnsweredKeeps, FetchJWKSKeeps, Zenon
<1>3. CASE \E r \in Bearers : FetchFails(r) \/ BearerDone(r)
    BY <1>3, LeavesKeeps, Zenon
<1>4. CASE \E kid \in Kids : Publish(kid) \/ Withdraw(kid)
    BY <1>4, ProviderKeeps, Zenon
<1>5. CASE AuthnTick
    BY <1>5, TickKeeps, Zenon
<1>6. CASE UNCHANGED authnVars
  <2>1. UNCHANGED <<published, withdrawn, time, cachedJWKS, lastJWKSFetch, holder, queue, bearer>>
      BY <1>6, Zenon DEF authnVars
  <2> QED BY <2>1, Zenon DEF AuthnIInv, Shape, LockInv, PublishedOnce, AnswerHasKeys, CacheHasKeys, StillThere,
                      KnownKeyIsFound, BearerAt
<1> QED BY <1>1, <1>2, <1>3, <1>4, <1>5, <1>6, Zenon DEF AuthnNext

\* The inductive invariant: whoever waits for the lock finds its key in what a fetch
\* brings that ends meanwhile (getJWKS, fetchJWKS).
THEOREM AuthnInvariance == AuthnSpec => []AuthnIInv
BY InitAuthnIInv, NextAuthnIInv, PTL DEF AuthnSpec

\* No request is refused for an unknown key whose key was published when it came in and
\* still is, although a forced refresh may take over what another request fetched
\* (keyFunc, getJWKS).
THEOREM KnownKeysAreFound == AuthnSpec => []KnownKeyIsFound
<1>1. AuthnIInv => KnownKeyIsFound
    BY Zenon DEF AuthnIInv
<1> QED BY <1>1, AuthnInvariance, PTL

-----------------------------------------------------------------------------
(***************************************************************************)
(* How old the keys are that a token is accepted with.                     *)
(***************************************************************************)

\* A key that is published, or was until then or later.
Dated(kid, since) == kid \in Kids /\ (kid \in published \/ withdrawn[kid] >= since)

\* The cache is dated from before the fetch that filled it.
CacheDates ==
    /\ \A kid \in Kids : withdrawn[kid] \in Nat
    /\ lastJWKSFetch <= time
    /\ \A kid \in cachedJWKS : Dated(kid, lastJWKSFetch)

\* The lock is held by a request that fetches, or by nobody.
HolderFetches == holder # Unheld => holder \in Bearers /\ bearer[holder].pc \in {"fetch", "answer"}

\* A fetch is dated from its start, and takes no longer than the timeout.
FetchDates(r) ==
    bearer[r].pc \in {"fetch", "answer"} =>
        /\ bearer[r].left \in 0 .. FetchTimeout /\ time = bearer[r].now + FetchTimeout - bearer[r].left
        /\ bearer[r].now >= lastJWKSFetch
        /\ bearer[r].pc = "answer" => bearer[r].got # {} /\ \A kid \in bearer[r].got : Dated(kid, bearer[r].now)

\* A request that reads the cache has waited for one fetch, or for none.
ReadDates(r) ==
    bearer[r].pc = "read" =>
        IF holder = Unheld THEN time - bearer[r].now <= FetchTimeout ELSE bearer[r].now >= bearer[holder].now

\* A request that waits for the lock is in the queue.  If there has been a fetch since it
\* looked, nobody has held the lock since that fetch.
WaitDates(r) ==
    bearer[r].pc = "lock" =>
        /\ bearer[r].snapshot \in 0 .. lastJWKSFetch
        /\ \E k \in 1 .. Len(queue) : queue[k] = r
        /\ bearer[r].snapshot < lastJWKSFetch =>
              holder = Unheld /\ time - lastJWKSFetch <= FetchTimeout /\ cachedJWKS # {}

\* The queue is in the order in which the requests looked at the cache.
QueueDates == \A j, k \in 1 .. Len(queue) : j <= k => bearer[queue[j]].snapshot <= bearer[queue[k]].snapshot

\* A token is accepted with one of the keys, and a recent one.
AcceptedDates == AcceptedKeyIsRecent /\ \A r \in Bearers : bearer[r].pc = "served" => bearer[r].kid \in Kids

DatesInv ==
    /\ CacheDates
    /\ HolderFetches
    /\ \A r \in Bearers : FetchDates(r) /\ ReadDates(r) /\ WaitDates(r)
    /\ QueueDates
    /\ AcceptedDates

\* The initial state.
LEMMA InitDatesInv == AuthnInit => DatesInv
<1> SUFFICES ASSUME AuthnInit PROVE DatesInv
    BY Zenon
<1>1. \A r \in Bearers : bearer[r].pc = "idle"
    BY NoBearerFields, Zenon DEF AuthnInit
<1>2. CacheDates
    BY DEF AuthnInit, CacheDates
<1>3. HolderFetches /\ QueueDates
    BY DEF AuthnInit, HolderFetches, QueueDates
<1>4. \A r \in Bearers : FetchDates(r) /\ ReadDates(r) /\ WaitDates(r)
    BY <1>1, Zenon DEF FetchDates, ReadDates, WaitDates
<1>5. AcceptedDates
    BY <1>1, Zenon DEF AcceptedDates, AcceptedKeyIsRecent, BearerAt
<1> QED BY <1>2, <1>3, <1>4, <1>5, Zenon DEF DatesInv

\* A fetch that is under way has not lasted longer than the timeout.
LEMMA FetchLasts ==
    ASSUME AuthnIInv, DatesInv, NEW r \in Bearers, bearer[r].pc \in {"fetch", "answer"}
    PROVE  bearer[r].now \in Nat /\ bearer[r].now <= time /\ time - bearer[r].now <= FetchTimeout
<1> DEFINE now == bearer[r].now
           left == bearer[r].left
<1>1. left \in 0 .. FetchTimeout /\ time = now + FetchTimeout - left
    BY Zenon DEF DatesInv, FetchDates
<1>2. now \in Nat /\ FetchTimeout \in Nat
    BY TimesAssumption, Zenon DEF AuthnIInv, Shape
<1> HIDE DEF now, left
<1>3. now <= time /\ time - now <= FetchTimeout
    BY <1>1, <1>2
<1> QED BY <1>2, <1>3, Zenon DEF now

\* A request whose key is in a set of keys of that age is accepted with a recent one.
LEMMA JudgedRecent ==
    ASSUME DatesInv, NEW r \in Bearers, NEW keys, Judged(r, keys), UNCHANGED <<published, withdrawn, time>>,
           time \in Nat, NEW since \in Nat, \A kid \in keys : Dated(kid, since), time - since < jwksCacheTTL + FetchTimeout
    PROVE  AcceptedDates'
<1> SUFFICES ASSUME NEW q \in Bearers, bearer'[q].pc = "served"
             PROVE  /\ bearer'[q].kid \in Kids
                    /\ bearer'[q].kid \in published \/ time - withdrawn[bearer'[q].kid] < jwksCacheTTL + FetchTimeout
    BY Zenon DEF AcceptedDates, AcceptedKeyIsRecent, BearerAt
<1>1. CASE q # r
    BY <1>1, Zenon DEF Judged, OwnStep, DatesInv, AcceptedDates, AcceptedKeyIsRecent, BearerAt
<1>2. CASE q = r
  <2> DEFINE kid == bearer[r].kid
  <2>1. kid \in keys /\ bearer'[q].kid = kid
      BY <1>2, Zenon DEF Judged
  <2> HIDE DEF kid
  <2>2. kid \in Kids /\ withdrawn[kid] \in Nat /\ (kid \in published \/ withdrawn[kid] >= since)
      BY <2>1, Zenon DEF Dated, DatesInv, CacheDates
  <2>3. jwksCacheTTL \in Nat /\ FetchTimeout \in Nat
      BY TimesAssumption, Zenon
  <2> QED BY <2>1, <2>2, <2>3
<1> QED BY <1>1, <1>2, Zenon

\* What a step of one request leaves as it was for the others, when it keeps the times,
\* the lock and the cache.
LEMMA OthersKeep ==
    ASSUME DatesInv, NEW r \in Bearers, OwnStep(r), bearer[r].pc \notin {"fetch", "answer"},
           UNCHANGED <<published, withdrawn, time, cachedJWKS, lastJWKSFetch, holder>>
    PROVE  /\ CacheDates' /\ HolderFetches'
           /\ \A q \in Bearers \ {r} : FetchDates(q)' /\ ReadDates(q)'
<1>1. CacheDates'
    BY Zenon DEF DatesInv, CacheDates, Dated
<1>2. HolderFetches'
    BY Zenon DEF DatesInv, HolderFetches, OwnStep
<1>3. ASSUME NEW q \in Bearers \ {r}
      PROVE  FetchDates(q)' /\ ReadDates(q)'
  <2>1. bearer'[q] = bearer[q]
      BY Zenon DEF OwnStep
  <2>2. FetchDates(q)'
      BY <2>1, Zenon DEF DatesInv, FetchDates, Dated
  <2>3. holder # Unheld => bearer'[holder] = bearer[holder]
      BY Zenon DEF OwnStep, DatesInv, HolderFetches
  <2>4. ReadDates(q)'
      BY <2>1, <2>3, Zenon DEF DatesInv, ReadDates
  <2> QED BY <2>2, <2>4, Zenon
<1> QED BY <1>1, <1>2, <1>3, Zenon

\* Nor does it change the queue.
LEMMA QueueKeeps ==
    ASSUME AuthnIInv, DatesInv, NEW r \in Bearers, OwnStep(r), bearer[r].pc # "lock",
           UNCHANGED <<time, cachedJWKS, lastJWKSFetch, holder, queue>>
    PROVE  QueueDates' /\ \A q \in Bearers \ {r} : WaitDates(q)'
<1>1. \A k \in 1 .. Len(queue) : queue[k] \in Bearers \ {r}
    BY DEF AuthnIInv, Shape, LockInv
<1>2. QueueDates'
    BY <1>1 DEF DatesInv, QueueDates, OwnStep
<1>3. ASSUME NEW q \in Bearers \ {r}
      PROVE  WaitDates(q)'
  <2>1. bearer'[q] = bearer[q]
      BY Zenon DEF OwnStep
  <2> QED BY <2>1, Zenon DEF DatesInv, WaitDates
<1> QED BY <1>2, <1>3, Zenon

\* What is true of a request that has just begun to read, or that is over.
LEMMA ReadsNow ==
    ASSUME AuthnIInv, DatesInv, NEW r \in Bearers, OwnStep(r), UNCHANGED <<time, holder>>,
           bearer[r].pc \notin {"fetch", "answer"},
           bearer'[r].pc \notin {"lock", "fetch", "answer"}, bearer'[r].pc = "read" => bearer'[r].now = time
    PROVE  FetchDates(r)' /\ ReadDates(r)' /\ WaitDates(r)'
<1>1. FetchDates(r)' /\ WaitDates(r)'
    BY Zenon DEF FetchDates, WaitDates
<1>2. ReadDates(r)'
  <2>1. time \in Nat /\ FetchTimeout \in Nat
      BY TimesAssumption, Zenon DEF AuthnIInv, Shape
  <2>2. CASE holder = Unheld
      BY <2>1, <2>2 DEF ReadDates
  <2>3. CASE holder # Unheld
    <3>1. holder \in Bearers /\ bearer[holder].pc \in {"fetch", "answer"} /\ bearer'[holder] = bearer[holder]
        BY <2>3, Zenon DEF OwnStep, DatesInv, HolderFetches
    <3>2. bearer[holder].now \in Nat /\ bearer[holder].now <= time
        BY <3>1, FetchLasts, Zenon
    <3>3. time >= bearer[holder].now
        BY <2>1, <3>2, Zenon
    <3> QED BY <2>3, <3>1, <3>3, Zenon DEF ReadDates
  <2> QED BY <2>2, <2>3, Zenon
<1> QED BY <1>1, <1>2, Zenon

\* A request comes in, or is over without a fetch.
LEMMA ComesAndGoesDates ==
    ASSUME AuthnIInv, DatesInv, NEW r \in Bearers, (\E kid \in Kids : Authenticate(r, kid)) \/ BearerDone(r)
    PROVE  DatesInv'
<1>1. /\ UNCHANGED <<published, withdrawn, time, cachedJWKS, lastJWKSFetch, holder, queue>>
      /\ bearer[r].pc \notin {"lock", "fetch", "answer"}
    BY Zenon DEF Authenticate, BearerDone, BearerAt
<1>2. OwnStep(r) /\ bearer'[r].pc \in {"read", "idle"} /\ (bearer'[r].pc = "read" => bearer'[r].now = time)
  <2>1. CASE \E kid \in Kids : Authenticate(r, kid)
    <3>1. PICK kid \in Kids : Authenticate(r, kid)
        BY <2>1, Zenon
    <3> DEFINE known == kid \in published
               no == FALSE
    <3>2. bearer' = [bearer EXCEPT ![r] = Asks("read", kid, known, no, time)]
        BY <3>1, Zenon DEF Authenticate
    <3> HIDE DEF known, no
    <3> QED BY <3>2, Zenon DEF AuthnIInv, Shape, OwnStep, Asks
  <2>2. CASE BearerDone(r)
    <3>1. OwnStep(r) /\ bearer'[r] = NoBearer
        BY <2>2, Zenon DEF AuthnIInv, Shape, BearerDone, OwnStep
    <3> QED BY <3>1, NoBearerFields, Zenon
  <2> QED BY <2>1, <2>2, Zenon
<1>3. CacheDates' /\ HolderFetches' /\ \A q \in Bearers \ {r} : FetchDates(q)' /\ ReadDates(q)'
    BY <1>1, <1>2, OthersKeep, Zenon
<1>4. QueueDates' /\ \A q \in Bearers \ {r} : WaitDates(q)'
    BY <1>1, <1>2, QueueKeeps, Zenon
<1>5. FetchDates(r)' /\ ReadDates(r)' /\ WaitDates(r)'
    BY <1>1, <1>2, ReadsNow, Zenon
<1>6. AcceptedDates'
    BY <1>1, <1>2, Zenon DEF OwnStep, DatesInv, AcceptedDates, AcceptedKeyIsRecent, BearerAt
<1> QED BY <1>3, <1>4, <1>5, <1>6, Zenon DEF DatesInv

\* A request reads the cache.
LEMMA GetJWKSDates ==
    ASSUME AuthnIInv, DatesInv, NEW r \in Bearers, getJWKS(r)
    PROVE  DatesInv'
<1>1. /\ UNCHANGED <<published, withdrawn, time, cachedJWKS, lastJWKSFetch, holder>>
      /\ bearer[r].pc = "read" /\ holder = Unheld
    BY Zenon DEF getJWKS, BearerAt
<1>2. /\ time \in Nat /\ lastJWKSFetch \in Nat /\ bearer[r].now \in Nat
      /\ jwksCacheTTL \in Nat /\ FetchTimeout \in Nat
    BY TimesAssumption, Zenon DEF AuthnIInv, Shape
<1>3. CASE cacheValid(bearer[r].now) /\ keyFunc(r, cachedJWKS) /\ UNCHANGED queue
  <2>1. Judged(r, cachedJWKS)
      BY <1>3, KeyFuncJudges, Zenon DEF AuthnIInv
  <2>2. /\ OwnStep(r) /\ bearer'[r].pc \notin {"lock", "fetch", "answer"}
        /\ bearer'[r].pc = "read" => bearer'[r].now = time
      BY <2>1, Zenon DEF Judged
  <2>3. CacheDates' /\ HolderFetches' /\ \A q \in Bearers \ {r} : FetchDates(q)' /\ ReadDates(q)'
      BY <1>1, <2>2, OthersKeep, Zenon
  <2>4. UNCHANGED queue
      BY <1>3, Zenon
  <2>5. QueueDates' /\ \A q \in Bearers \ {r} : WaitDates(q)'
      BY <1>1, <2>2, <2>4, QueueKeeps, Zenon
  <2>6. FetchDates(r)' /\ ReadDates(r)' /\ WaitDates(r)'
      BY <1>1, <2>2, ReadsNow, Zenon
  <2>7. AcceptedDates'
    <3>1. time - bearer[r].now <= FetchTimeout
        BY <1>1, Zenon DEF DatesInv, ReadDates
    <3>2. bearer[r].now - lastJWKSFetch < jwksCacheTTL
        BY <1>3, Zenon DEF cacheValid
    <3>3. time - lastJWKSFetch < jwksCacheTTL + FetchTimeout
        BY <1>2, <3>1, <3>2
    <3>4. \A kid \in cachedJWKS : Dated(kid, lastJWKSFetch)
        BY Zenon DEF DatesInv, CacheDates
    <3> QED BY <1>1, <1>2, <2>1, <3>3, <3>4, JudgedRecent, Zenon
  <2> QED BY <2>3, <2>5, <2>6, <2>7, Zenon DEF DatesInv
<1>4. CASE /\ bearer' = [bearer EXCEPT ![r].pc = "lock", ![r].now = 0, ![r].snapshot = lastJWKSFetch]
           /\ queue' = Append(queue, r)
  <2>1. OwnStep(r)
      BY <1>4, Zenon DEF AuthnIInv, Shape, OwnStep
  <2>2. bearer'[r].pc = "lock" /\ bearer'[r].snapshot = lastJWKSFetch
      BY <1>4, Zenon DEF AuthnIInv, Shape, Fields
  <2>3. CacheDates' /\ HolderFetches' /\ \A q \in Bearers \ {r} : FetchDates(q)' /\ ReadDates(q)'
      BY <1>1, <2>1, OthersKeep, Zenon
  <2>4. /\ Len(queue') = Len(queue) + 1 /\ Len(queue) \in Nat
        /\ queue'[Len(queue) + 1] = r
        /\ \A k \in 1 .. Len(queue) : queue'[k] = queue[k] /\ queue[k] \in Bearers
    <3>1. queue \in Seq(Bearers)
        BY Zenon DEF AuthnIInv, Shape
    <3> QED BY <1>4, <3>1
  <2>5. FetchDates(r)' /\ ReadDates(r)' /\ WaitDates(r)'
    <3>1. Len(queue) + 1 \in 1 .. Len(queue')
        BY <2>4
    <3>2. lastJWKSFetch \in 0 .. lastJWKSFetch /\ ~(lastJWKSFetch < lastJWKSFetch)
        BY <1>2
    <3> QED BY <1>1, <2>2, <2>4, <3>1, <3>2, Zenon DEF FetchDates, ReadDates, WaitDates
  <2>6. ASSUME NEW q \in Bearers \ {r}
        PROVE  WaitDates(q)'
    <3>1. bearer'[q] = bearer[q]
        BY <2>1, Zenon DEF OwnStep
    <3>2. \A k \in 1 .. Len(queue) : k \in 1 .. Len(queue') /\ queue'[k] = queue[k]
        BY <2>4
    <3> QED BY <1>1, <3>1, <3>2, Zenon DEF DatesInv, WaitDates
  <2>7. QueueDates'
    <3>1. \A k \in 1 .. Len(queue) : queue[k] \in Bearers \ {r} /\ bearer[queue[k]].pc = "lock"
        BY <1>1, <2>4, Zenon DEF AuthnIInv, LockInv
    <3>2. \A k \in 1 .. Len(queue) :
             bearer'[queue'[k]].snapshot = bearer[queue[k]].snapshot /\ bearer[queue[k]].snapshot <= lastJWKSFetch
        BY <2>1, <2>4, <3>1, SMTT(20) DEF OwnStep, DatesInv, WaitDates
    <3>3. bearer'[queue'[Len(queue) + 1]].snapshot = lastJWKSFetch
        BY <2>2, <2>4, Zenon
    <3> SUFFICES ASSUME NEW j \in 1 .. Len(queue'), NEW k \in 1 .. Len(queue'), j <= k
                 PROVE  bearer'[queue'[j]].snapshot <= bearer'[queue'[k]].snapshot
        BY Zenon DEF QueueDates
    <3>4. CASE k = Len(queue) + 1
      <4>1. j \in 1 .. Len(queue) \/ j = Len(queue) + 1
          BY <2>4
      <4> QED BY <1>2, <3>2, <3>3, <3>4, <4>1
    <3>5. CASE k # Len(queue) + 1
      <4>1. j \in 1 .. Len(queue) /\ k \in 1 .. Len(queue)
          BY <2>4, <3>5
      <4> QED BY <3>2, <4>1, Zenon DEF DatesInv, QueueDates
    <3> QED BY <3>4, <3>5, Zenon
  <2>8. AcceptedDates'
      BY <1>1, <2>1, <2>2, Zenon DEF OwnStep, DatesInv, AcceptedDates, AcceptedKeyIsRecent, BearerAt
  <2> QED BY <2>3, <2>5, <2>6, <2>7, <2>8, Zenon DEF DatesInv
<1> QED BY <1>3, <1>4, Zenon DEF getJWKS

\* The first request of the queue leaves it: it looked at the cache before the others.
LEMMA QueueShrinksDates ==
    ASSUME AuthnIInv, DatesInv, NEW r \in Bearers, OwnStep(r), queue # <<>>, r = Head(queue), queue' = Tail(queue)
    PROVE  /\ bearer[r].pc = "lock" /\ QueueDates'
           /\ \A q \in Bearers \ {r} : bearer[q].pc = "lock" =>
                 /\ \E k \in 1 .. Len(queue') : queue'[k] = q
                 /\ bearer[r].snapshot <= bearer[q].snapshot
<1>1. queue \in Seq(Bearers)
    BY Zenon DEF AuthnIInv, Shape
<1>2. /\ Len(queue) \in Nat \ {0} /\ r = queue[1] /\ 1 \in 1 .. Len(queue)
      /\ Len(queue') = Len(queue) - 1
      /\ \A k \in 1 .. Len(queue') : queue'[k] = queue[k + 1] /\ k + 1 \in 1 .. Len(queue) /\ k + 1 # 1
    BY <1>1
<1>3. bearer[r].pc = "lock"
    BY <1>2, Zenon DEF AuthnIInv, LockInv
<1>4. \A k \in 1 .. Len(queue') : queue'[k] = queue[k + 1] /\ bearer'[queue'[k]] = bearer[queue[k + 1]]
  <2>1. \A k \in 1 .. Len(queue') : queue[k + 1] \in Bearers \ {r}
      BY <1>1, <1>2 DEF AuthnIInv, LockInv
  <2> QED BY <1>2, <2>1, Zenon DEF OwnStep
<1>5. QueueDates'
  <2> SUFFICES ASSUME NEW j \in 1 .. Len(queue'), NEW k \in 1 .. Len(queue'), j <= k
               PROVE  bearer'[queue'[j]].snapshot <= bearer'[queue'[k]].snapshot
      BY Zenon DEF QueueDates
  <2>1. j + 1 \in 1 .. Len(queue) /\ k + 1 \in 1 .. Len(queue) /\ j + 1 <= k + 1
      BY <1>2
  <2> QED BY <1>4, <2>1, Zenon DEF DatesInv, QueueDates
<1>6. ASSUME NEW q \in Bearers \ {r}, bearer[q].pc = "lock"
      PROVE  (\E k \in 1 .. Len(queue') : queue'[k] = q) /\ bearer[r].snapshot <= bearer[q].snapshot
  <2>1. PICK k \in 1 .. Len(queue) : queue[k] = q
      BY <1>6, Zenon DEF DatesInv, WaitDates
  <2>2. k - 1 \in 1 .. Len(queue') /\ (k - 1) + 1 = k /\ 1 <= k
      BY <1>2, <2>1
  <2>3. bearer[queue[1]].snapshot <= bearer[queue[k]].snapshot
      BY <1>2, <2>2, Zenon DEF DatesInv, QueueDates
  <2>4. queue'[k - 1] = q
      BY <1>2, <2>1, <2>2, Zenon
  <2>5. \E i \in 1 .. Len(queue') : queue'[i] = q
      BY <2>2, <2>4, Zenon
  <2>6. r = queue[1]
      BY <1>2, Zenon
  <2> QED BY <2>1, <2>3, <2>5, <2>6, Zenon
<1> QED BY <1>3, <1>5, <1>6, Zenon

\* A request gets the lock.  It fetches only if none of those behind it has waited through
\* a fetch: they looked later, and that fetch would be recent enough for it too.
LEMMA LocksDates ==
    ASSUME AuthnIInv, DatesInv, NEW r \in Bearers, Locks(r)
    PROVE  DatesInv'
<1>1. /\ UNCHANGED <<published, withdrawn, time, cachedJWKS, lastJWKSFetch>>
      /\ holder = Unheld /\ queue # <<>> /\ r = Head(queue) /\ queue' = Tail(queue)
      /\ \A q \in Bearers : bearer[q].pc = "read" => bearer[q].now = time
    BY Zenon DEF Locks, BearerAt
<1>2. /\ time \in Nat /\ lastJWKSFetch \in Nat
      /\ jwksCacheTTL \in Nat /\ FetchTimeout \in Nat /\ FetchTimeout < jwksCacheTTL
    BY TimesAssumption, Zenon DEF AuthnIInv, Shape
<1>3. \A q \in Bearers : bearer[q].pc \notin {"fetch", "answer"}
    BY <1>1, BearersAssumption, Zenon DEF AuthnIInv, LockInv
<1> DEFINE fresh == cachedJWKS # {} /\ (IF bearer[r].forced THEN FetchedMeanwhile(r) ELSE cacheValid(time))
<1>4. CASE fresh /\ keyFunc(r, cachedJWKS) /\ UNCHANGED holder
  <2>1. Judged(r, cachedJWKS)
      BY <1>4, KeyFuncJudges, Zenon DEF AuthnIInv
  <2>2. /\ OwnStep(r) /\ bearer'[r].pc \notin {"lock", "fetch", "answer"}
        /\ bearer'[r].pc = "read" => bearer'[r].now = time
      BY <2>1, Zenon DEF Judged
  <2>3. /\ bearer[r].pc = "lock" /\ QueueDates'
        /\ \A q \in Bearers \ {r} : bearer[q].pc = "lock" => \E k \in 1 .. Len(queue') : queue'[k] = q
      BY <1>1, <2>2, QueueShrinksDates, Zenon
  <2>4. UNCHANGED holder
      BY <1>4, Zenon
  <2>5. CacheDates' /\ HolderFetches' /\ \A q \in Bearers \ {r} : FetchDates(q)' /\ ReadDates(q)'
      BY <1>1, <2>2, <2>3, <2>4, OthersKeep, Zenon
  <2>6. FetchDates(r)' /\ ReadDates(r)' /\ WaitDates(r)'
      BY <1>1, <2>2, <2>3, <2>4, ReadsNow, Zenon
  <2>7. ASSUME NEW q \in Bearers \ {r}
        PROVE  WaitDates(q)'
    <3>1. bearer'[q] = bearer[q]
        BY <2>2, Zenon DEF OwnStep
    <3> QED BY <1>1, <2>3, <2>4, <3>1, Zenon DEF DatesInv, WaitDates
  <2>8. AcceptedDates'
    <3>1. time - lastJWKSFetch < jwksCacheTTL + FetchTimeout
      <4>1. CASE bearer[r].forced
        <5>1. lastJWKSFetch > bearer[r].snapshot
            BY <1>4, <4>1, Zenon DEF FetchedMeanwhile
        <5>2. bearer[r].snapshot < lastJWKSFetch
            BY <1>2, <2>3, <5>1, Zenon DEF DatesInv, WaitDates
        <5>3. time - lastJWKSFetch <= FetchTimeout
            BY <2>3, <5>2, Zenon DEF DatesInv, WaitDates
        <5> QED BY <1>2, <5>3
      <4>2. CASE ~bearer[r].forced
        <5>1. time - lastJWKSFetch < jwksCacheTTL
            BY <1>4, <4>2, Zenon DEF cacheValid
        <5> QED BY <1>2, <5>1
      <4> QED BY <4>1, <4>2, Zenon
    <3>2. \A kid \in cachedJWKS : Dated(kid, lastJWKSFetch)
        BY Zenon DEF DatesInv, CacheDates
    <3> QED BY <1>1, <1>2, <2>1, <3>1, <3>2, JudgedRecent, Zenon
  <2> QED BY <2>3, <2>5, <2>6, <2>7, <2>8, Zenon DEF DatesInv
<1>5. CASE /\ ~fresh /\ holder' = r
           /\ bearer' = [bearer EXCEPT ![r].pc = "fetch", ![r].snapshot = 0, ![r].now = time, ![r].left = FetchTimeout]
  <2>1. OwnStep(r)
      BY <1>5, Zenon DEF AuthnIInv, Shape, OwnStep
  <2>2. bearer'[r].pc = "fetch" /\ bearer'[r].now = time /\ bearer'[r].left = FetchTimeout
      BY <1>5, Zenon DEF AuthnIInv, Shape, Fields
  <2>3. /\ bearer[r].pc = "lock" /\ QueueDates'
        /\ \A q \in Bearers \ {r} : bearer[q].pc = "lock" =>
              (\E k \in 1 .. Len(queue') : queue'[k] = q) /\ bearer[r].snapshot <= bearer[q].snapshot
      BY <1>1, <2>1, QueueShrinksDates, Zenon
  <2>4. CacheDates'
      BY <1>1, Zenon DEF DatesInv, CacheDates, Dated
  <2>5. holder' = r /\ r # Unheld
      BY <1>5, BearersAssumption, Zenon
  <2>6. HolderFetches'
      BY <2>2, <2>5, Zenon DEF HolderFetches
  <2>7. FetchDates(r)' /\ ReadDates(r)' /\ WaitDates(r)'
    <3>1. FetchTimeout \in 0 .. FetchTimeout /\ time = time + FetchTimeout - FetchTimeout
        BY <1>2
    <3>2. time >= lastJWKSFetch
        BY <1>2, Zenon DEF DatesInv, CacheDates
    <3> QED BY <1>1, <2>2, <3>1, <3>2, Zenon DEF FetchDates, ReadDates, WaitDates
  <2>8. ASSUME NEW q \in Bearers \ {r}
        PROVE  FetchDates(q)' /\ ReadDates(q)' /\ WaitDates(q)'
    <3>1. bearer'[q] = bearer[q] /\ bearer[q].pc \notin {"fetch", "answer"}
        BY <1>3, <2>1, Zenon DEF OwnStep
    <3>2. FetchDates(q)'
        BY <3>1, Zenon DEF FetchDates
    <3>3. ReadDates(q)'
      <4>1. time >= time
          BY <1>2
      <4> QED BY <1>1, <2>2, <2>5, <3>1, <4>1, Zenon DEF ReadDates
    <3>4. ASSUME bearer[q].pc = "lock", bearer[q].snapshot < lastJWKSFetch
          PROVE  FALSE
      <4>1. time - lastJWKSFetch <= FetchTimeout /\ cachedJWKS # {}
          BY <3>4, Zenon DEF DatesInv, WaitDates
      <4>2. jwksCacheTTL > 0 /\ time - lastJWKSFetch < jwksCacheTTL
          BY <1>2, <4>1
      <4>3. lastJWKSFetch > bearer[r].snapshot
        <5>1. bearer[r].snapshot \in 0 .. lastJWKSFetch /\ bearer[q].snapshot \in 0 .. lastJWKSFetch
            BY <2>3, <3>4, Zenon DEF DatesInv, WaitDates
        <5>2. bearer[r].snapshot <= bearer[q].snapshot
            BY <2>3, <3>4, Zenon
        <5> QED BY <1>2, <3>4, <5>1, <5>2
      <4> QED BY <1>5, <4>1, <4>2, <4>3, Zenon DEF cacheValid, FetchedMeanwhile
    <3>5. ASSUME bearer[q].pc = "lock"
          PROVE  WaitDates(q)'
      <4>1. bearer[q].snapshot \in 0 .. lastJWKSFetch
          BY <3>5, Zenon DEF DatesInv, WaitDates
      <4>2. \E k \in 1 .. Len(queue') : queue'[k] = q
          BY <2>3, <3>5, Zenon
      <4>3. UNCHANGED lastJWKSFetch
          BY <1>1, Zenon
      <4> QED BY <3>1, <3>4, <3>5, <4>1, <4>2, <4>3, Zenon DEF WaitDates
    <3>6. WaitDates(q)'
        BY <3>1, <3>5, Zenon DEF WaitDates
    <3> QED BY <3>2, <3>3, <3>6, Zenon
  <2>9. AcceptedDates'
      BY <1>1, <2>1, <2>2 DEF OwnStep, DatesInv, AcceptedDates, AcceptedKeyIsRecent, BearerAt
  <2> QED BY <2>3, <2>4, <2>6, <2>7, <2>8, <2>9, Zenon DEF DatesInv
<1> QED BY <1>4, <1>5, Zenon DEF Locks

\* The identity provider answers with what it publishes.
LEMMA KeysAnsweredDates ==
    ASSUME AuthnIInv, DatesInv, NEW r \in Bearers, KeysAnswered(r)
    PROVE  DatesInv'
<1>1. /\ UNCHANGED <<published, withdrawn, time, cachedJWKS, lastJWKSFetch, holder, queue>>
      /\ bearer[r].pc = "fetch" /\ holder = r /\ published # {} /\ published \subseteq Kids
    BY Zenon DEF KeysAnswered, BearerAt, AuthnIInv, LockInv, Shape
<1>2. OwnStep(r)
    BY Zenon DEF AuthnIInv, Shape, KeysAnswered, OwnStep
<1>3. /\ bearer'[r].pc = "answer" /\ bearer'[r].got = published
      /\ bearer'[r].now = bearer[r].now /\ bearer'[r].left = bearer[r].left
    BY Zenon DEF AuthnIInv, Shape, KeysAnswered, Fields
<1>4. CacheDates' /\ HolderFetches'
    BY <1>1, <1>3, Zenon DEF DatesInv, CacheDates, Dated, HolderFetches
<1>5. QueueDates' /\ \A q \in Bearers \ {r} : WaitDates(q)'
    BY <1>1, <1>2, QueueKeeps, Zenon
<1>6. FetchDates(r)' /\ ReadDates(r)' /\ WaitDates(r)'
  <2>1. /\ bearer[r].left \in 0 .. FetchTimeout /\ time = bearer[r].now + FetchTimeout - bearer[r].left
        /\ bearer[r].now >= lastJWKSFetch
      BY <1>1, Zenon DEF DatesInv, FetchDates
  <2>2. \A kid \in bearer'[r].got : Dated(kid, bearer[r].now)'
      BY <1>1, <1>3, Zenon DEF Dated
  <2>3. FetchDates(r)'
      BY <1>1, <1>3, <2>1, <2>2, Zenon DEF FetchDates, Dated
  <2> QED BY <1>3, <2>3, Zenon DEF ReadDates, WaitDates
<1>7. ASSUME NEW q \in Bearers \ {r}
      PROVE  FetchDates(q)' /\ ReadDates(q)'
  <2>1. bearer'[q] = bearer[q] /\ bearer[q].pc \notin {"fetch", "answer"}
      BY <1>1, <1>2, Zenon DEF OwnStep, AuthnIInv, LockInv
  <2> QED BY <1>1, <1>3, <2>1, Zenon DEF DatesInv, FetchDates, ReadDates
<1>8. AcceptedDates'
    BY <1>1, <1>2, <1>3, Zenon DEF OwnStep, DatesInv, AcceptedDates, AcceptedKeyIsRecent, BearerAt
<1> QED BY <1>4, <1>5, <1>6, <1>7, <1>8, Zenon DEF DatesInv

\* The lock is given back: those that came in during the fetch have waited no longer than
\* it took.
LEMMA GivenBackDates ==
    ASSUME AuthnIInv, DatesInv, NEW r \in Bearers, OwnStep(r), UNCHANGED <<time, queue>>, holder' = Unheld,
           bearer[r].pc \in {"fetch", "answer"}, bearer'[r].pc \notin {"lock", "fetch", "answer"},
           bearer'[r].pc = "read" => bearer'[r].now = time
    PROVE  /\ HolderFetches' /\ QueueDates' /\ FetchDates(r)' /\ WaitDates(r)' /\ ReadDates(r)'
           /\ \A q \in Bearers \ {r} : FetchDates(q)' /\ ReadDates(q)'
           /\ time - bearer[r].now <= FetchTimeout
<1>1. time \in Nat /\ FetchTimeout \in Nat /\ bearer[r].now \in Nat
    BY TimesAssumption, Zenon DEF AuthnIInv, Shape
<1>3. time - bearer[r].now <= FetchTimeout
    BY FetchLasts, Zenon
<1>4. holder = r /\ r # Unheld
    BY BearersAssumption, Zenon DEF AuthnIInv, LockInv
<1>5. HolderFetches' /\ FetchDates(r)' /\ WaitDates(r)'
    BY Zenon DEF HolderFetches, FetchDates, WaitDates
<1>6. ReadDates(r)'
    BY <1>1 DEF ReadDates
<1>7. QueueDates'
  <2>1. \A k \in 1 .. Len(queue) : queue[k] \in Bearers \ {r}
      BY DEF AuthnIInv, Shape, LockInv
  <2> QED BY <2>1, SMTT(20) DEF DatesInv, QueueDates, OwnStep
<1>8. ASSUME NEW q \in Bearers \ {r}
      PROVE  FetchDates(q)' /\ ReadDates(q)'
  <2>1. bearer'[q] = bearer[q] /\ bearer[q].pc \notin {"fetch", "answer"} /\ bearer[q].now \in Nat
      BY <1>4, Zenon DEF OwnStep, AuthnIInv, LockInv, Shape
  <2>2. bearer[q].pc = "read" => bearer[q].now >= bearer[r].now
      BY <1>4, Zenon DEF DatesInv, ReadDates
  <2>3. bearer[q].pc = "read" => time - bearer[q].now <= FetchTimeout
      BY <1>1, <1>3, <2>1, <2>2
  <2> QED BY <2>1, <2>3, Zenon DEF FetchDates, ReadDates
<1> QED BY <1>3, <1>5, <1>6, <1>7, <1>8, Zenon

\* The answer is stored, under the time at which the fetch began.
LEMMA FetchJWKSDates ==
    ASSUME AuthnIInv, DatesInv, NEW r \in Bearers, fetchJWKS(r)
    PROVE  DatesInv'
<1>1. /\ UNCHANGED <<published, withdrawn, time, queue>> /\ holder' = Unheld
      /\ cachedJWKS' = bearer[r].got /\ lastJWKSFetch' = bearer[r].now
      /\ bearer[r].pc = "answer"
    BY Zenon DEF fetchJWKS, BearerAt, DatedBefore
<1>2. /\ time \in Nat /\ lastJWKSFetch \in Nat /\ bearer[r].now \in Nat
      /\ jwksCacheTTL \in Nat \ {0} /\ FetchTimeout \in Nat
    BY TimesAssumption DEF AuthnIInv, Shape
<1>3. Judged(r, bearer[r].got)
  <2>1. keyFunc(r, bearer[r].got)
      BY Zenon DEF fetchJWKS
  <2> QED BY <2>1, KeyFuncJudges, Zenon DEF AuthnIInv
<1>4. /\ OwnStep(r) /\ bearer'[r].pc \notin {"lock", "fetch", "answer"}
      /\ bearer'[r].pc = "read" => bearer'[r].now = time
    BY <1>3, Zenon DEF Judged
<1>5. /\ HolderFetches' /\ QueueDates' /\ FetchDates(r)' /\ WaitDates(r)' /\ ReadDates(r)'
      /\ \A q \in Bearers \ {r} : FetchDates(q)' /\ ReadDates(q)'
      /\ time - bearer[r].now <= FetchTimeout
    BY <1>1, <1>4, GivenBackDates, Zenon
<1>6. /\ bearer[r].now >= lastJWKSFetch /\ bearer[r].got # {}
      /\ \A kid \in bearer[r].got : Dated(kid, bearer[r].now)
    BY <1>1, Zenon DEF DatesInv, FetchDates
<1>7. CacheDates'
  <2>1. bearer[r].now <= time
      BY <1>1, FetchLasts, Zenon
  <2> QED BY <1>1, <1>6, <2>1, Zenon DEF DatesInv, CacheDates, Dated
<1>8. ASSUME NEW q \in Bearers \ {r}, bearer'[q].pc = "lock"
      PROVE  WaitDates(q)'
  <2>1. bearer'[q] = bearer[q]
      BY <1>4, Zenon DEF OwnStep
  <2>2. bearer[q].snapshot \in 0 .. lastJWKSFetch /\ \E k \in 1 .. Len(queue) : queue[k] = q
      BY <1>8, <2>1, Zenon DEF DatesInv, WaitDates
  <2>3. bearer[q].snapshot \in 0 .. bearer[r].now
    <3>1. lastJWKSFetch <= bearer[r].now
        BY <1>2, <1>6, Zenon
    <3>2. bearer[q].snapshot \in 0 .. lastJWKSFetch
        BY <2>2, Zenon
    <3> QED BY <1>2, <3>1, <3>2
  <2>4. UNCHANGED <<time, queue>> /\ holder' = Unheld /\ lastJWKSFetch' = bearer[r].now /\ cachedJWKS' # {}
      BY <1>1, <1>6, Zenon
  <2>5. time' - lastJWKSFetch' <= FetchTimeout
      BY <1>5, <2>4, Zenon
  <2>6. bearer'[q].snapshot \in 0 .. lastJWKSFetch'
      BY <2>1, <2>3, <2>4, Zenon
  <2>7. \E k \in 1 .. Len(queue') : queue'[k] = q
      BY <2>2, <2>4, Zenon
  <2> QED BY <2>4, <2>5, <2>6, <2>7, Zenon DEF WaitDates
<1>9. \A q \in Bearers \ {r} : WaitDates(q)'
    BY <1>8, Zenon DEF WaitDates
<1>10. AcceptedDates'
  <2>1. time - bearer[r].now < jwksCacheTTL + FetchTimeout
      BY <1>2, <1>5
  <2> QED BY <1>1, <1>2, <1>3, <1>6, <2>1, JudgedRecent, Zenon
<1> QED BY <1>5, <1>7, <1>9, <1>10, Zenon DEF DatesInv

\* The fetch fails.
LEMMA FetchFailsDates ==
    ASSUME AuthnIInv, DatesInv, NEW r \in Bearers, FetchFails(r)
    PROVE  DatesInv'
<1>1. /\ UNCHANGED <<published, withdrawn, time, cachedJWKS, lastJWKSFetch, queue>> /\ holder' = Unheld
      /\ bearer[r].pc \in {"fetch", "answer"}
    BY Zenon DEF FetchFails
<1>2. OwnStep(r) /\ bearer'[r].pc = "idle"
  <2>1. OwnStep(r) /\ bearer'[r] = NoBearer
      BY Zenon DEF AuthnIInv, Shape, FetchFails, OwnStep
  <2> QED BY <2>1, NoBearerFields, Zenon
<1>3. /\ HolderFetches' /\ QueueDates' /\ FetchDates(r)' /\ WaitDates(r)' /\ ReadDates(r)'
      /\ \A q \in Bearers \ {r} : FetchDates(q)' /\ ReadDates(q)'
    BY <1>1, <1>2, GivenBackDates, Zenon
<1>4. CacheDates'
    BY <1>1, Zenon DEF DatesInv, CacheDates, Dated
<1>5. ASSUME NEW q \in Bearers \ {r}
      PROVE  WaitDates(q)'
  <2>1. bearer'[q] = bearer[q]
      BY <1>2, Zenon DEF OwnStep
  <2>2. holder # Unheld
      BY <1>1, BearersAssumption, Zenon DEF AuthnIInv, LockInv
  <2> QED BY <1>1, <2>1, <2>2, Zenon DEF DatesInv, WaitDates
<1>6. AcceptedDates'
    BY <1>1, <1>2, Zenon DEF OwnStep, DatesInv, AcceptedDates, AcceptedKeyIsRecent, BearerAt
<1> QED BY <1>3, <1>4, <1>5, <1>6, Zenon DEF DatesInv

\* A key is published, or withdrawn: now, which is later than any date.
LEMMA ProviderDates ==
    ASSUME AuthnIInv, DatesInv, NEW kid \in Kids, Publish(kid) \/ Withdraw(kid)
    PROVE  DatesInv'
<1>1. UNCHANGED <<time, cachedJWKS, lastJWKSFetch, holder, queue, bearer>>
    BY Zenon DEF Publish, Withdraw
<1>2. /\ time \in Nat /\ lastJWKSFetch \in Nat
      /\ jwksCacheTTL \in Nat \ {0} /\ FetchTimeout \in Nat
    BY TimesAssumption DEF AuthnIInv, Shape
<1>3. \A k \in Kids :
         /\ withdrawn'[k] \in Nat
         /\ k \in published' \/ (k \notin published /\ withdrawn'[k] = withdrawn[k]) \/ withdrawn'[k] = time
  <2>1. CASE Publish(kid)
      BY <2>1, Zenon DEF Publish, DatesInv, CacheDates
  <2>2. CASE Withdraw(kid)
      BY <1>2, <2>2, Zenon DEF Withdraw, AuthnIInv, Shape, DatesInv, CacheDates
  <2> QED BY <2>1, <2>2, Zenon
<1>5. CacheDates'
  <2>1. lastJWKSFetch <= time /\ \A k \in cachedJWKS : Dated(k, lastJWKSFetch)
      BY Zenon DEF DatesInv, CacheDates
  <2>2. \A k \in cachedJWKS : Dated(k, lastJWKSFetch)'
      BY <1>1, <1>2, <1>3, <2>1, Zenon DEF Dated
  <2> QED BY <1>1, <1>3, <2>1, <2>2, Zenon DEF CacheDates
<1>6. HolderFetches' /\ QueueDates'
    BY <1>1, Zenon DEF DatesInv, HolderFetches, QueueDates
<1>7. ASSUME NEW r \in Bearers
      PROVE  FetchDates(r)' /\ ReadDates(r)' /\ WaitDates(r)'
  <2>1. bearer[r].pc = "answer" => \A k \in bearer[r].got : Dated(k, bearer[r].now)'
    <3> SUFFICES ASSUME bearer[r].pc = "answer", NEW k \in bearer[r].got
                 PROVE  Dated(k, bearer[r].now)'
        BY <1>1, Zenon
    <3>1. Dated(k, bearer[r].now)
        BY Zenon DEF DatesInv, FetchDates
    <3>2. bearer[r].now \in Nat /\ bearer[r].now <= time
        BY FetchLasts, Zenon
    <3> QED BY <1>1, <1>2, <1>3, <3>1, <3>2, Zenon DEF Dated
  <2>2. FetchDates(r)'
      BY <1>1, <2>1, Zenon DEF DatesInv, FetchDates
  <2> QED BY <1>1, <2>2, Zenon DEF DatesInv, ReadDates, WaitDates
<1>8. AcceptedDates'
  <2> SUFFICES ASSUME NEW q \in Bearers, bearer[q].pc = "served"
               PROVE  /\ bearer[q].kid \in Kids
                      /\ bearer[q].kid \in published' \/ time - withdrawn'[bearer[q].kid] < jwksCacheTTL + FetchTimeout
      BY <1>1, Zenon DEF AcceptedDates, AcceptedKeyIsRecent, BearerAt
  <2>1. /\ bearer[q].kid \in Kids
        /\ bearer[q].kid \in published \/ time - withdrawn[bearer[q].kid] < jwksCacheTTL + FetchTimeout
      BY Zenon DEF DatesInv, AcceptedDates, AcceptedKeyIsRecent, BearerAt
  <2>2. time - time < jwksCacheTTL + FetchTimeout
      BY <1>2
  <2> QED BY <1>3, <2>1, <2>2, Zenon
<1> QED BY <1>5, <1>6, <1>7, <1>8, Zenon DEF DatesInv

\* Time passes: nobody reads or waits unless a fetch is under way, and no fetch outlasts
\* its timeout.
LEMMA TickDates ==
    ASSUME AuthnIInv, DatesInv, AuthnTick
    PROVE  DatesInv'
<1>1. UNCHANGED <<published, withdrawn, cachedJWKS, lastJWKSFetch, holder, queue>> /\ time' = time + 1
    BY Zenon DEF AuthnTick
<1>2. time \in Nat /\ lastJWKSFetch \in Nat /\ FetchTimeout \in Nat
    BY TimesAssumption, Zenon DEF AuthnIInv, Shape
<1>3. ASSUME NEW r \in Bearers
      PROVE  /\ bearer'[r].pc = bearer[r].pc /\ bearer'[r].now = bearer[r].now
             /\ bearer'[r].snapshot = bearer[r].snapshot /\ bearer'[r].got = bearer[r].got
             /\ bearer'[r].left = IF r = holder THEN bearer[r].left - 1 ELSE bearer[r].left
             /\ bearer[r].pc # "served"
             /\ bearer[r].pc \in {"read", "lock"} => holder # Unheld
             /\ bearer[r].pc \in {"fetch", "answer"} => bearer[r].left > 0
    BY Zenon DEF AuthnIInv, Shape, AuthnTick, Fields
<1>4. CacheDates'
    BY <1>1, <1>2 DEF DatesInv, CacheDates, Dated
<1>5. HolderFetches'
    BY <1>1, <1>3, Zenon DEF DatesInv, HolderFetches
<1>6. QueueDates'
  <2>1. \A k \in 1 .. Len(queue) : queue[k] \in Bearers
      BY DEF AuthnIInv, Shape
  <2> QED BY <1>1, <1>3, <2>1 DEF DatesInv, QueueDates
<1>7. ASSUME NEW r \in Bearers
      PROVE  FetchDates(r)' /\ ReadDates(r)' /\ WaitDates(r)'
  <2>1. FetchDates(r)'
    <3> SUFFICES ASSUME bearer[r].pc \in {"fetch", "answer"}
                 PROVE  FetchDates(r)'
        BY <1>3, Zenon DEF FetchDates
    <3>1. holder = r /\ bearer[r].now \in Nat
        BY Zenon DEF AuthnIInv, LockInv, Shape
    <3>2. bearer[r].left \in 0 .. FetchTimeout /\ time = bearer[r].now + FetchTimeout - bearer[r].left
        BY Zenon DEF DatesInv, FetchDates
    <3>3. bearer'[r].left = bearer[r].left - 1 /\ bearer[r].left > 0
        BY <1>3, <3>1, Zenon
    <3>4. bearer'[r].left \in 0 .. FetchTimeout /\ time' = bearer[r].now + FetchTimeout - bearer'[r].left
        BY <1>1, <1>2, <3>1, <3>2, <3>3
    <3> QED BY <1>1, <1>3, <3>4, Zenon DEF DatesInv, FetchDates, Dated
  <2>2. ReadDates(r)'
      BY <1>1, <1>3, Zenon DEF DatesInv, ReadDates, HolderFetches
  <2>3. WaitDates(r)'
      BY <1>1, <1>3, Zenon DEF DatesInv, WaitDates
  <2> QED BY <2>1, <2>2, <2>3, Zenon
<1>8. AcceptedDates'
    BY <1>3, Zenon DEF AcceptedDates, AcceptedKeyIsRecent, BearerAt
<1> QED BY <1>4, <1>5, <1>6, <1>7, <1>8, Zenon DEF DatesInv

\* Every step.
LEMMA NextDatesInv == AuthnIInv /\ DatesInv /\ [AuthnNext]_authnVars => DatesInv'
<1> SUFFICES ASSUME AuthnIInv, DatesInv, [AuthnNext]_authnVars PROVE DatesInv'
    BY Zenon
<1>1. CASE \E r \in Bearers : (\E kid \in Kids : Authenticate(r, kid)) \/ BearerDone(r)
    BY <1>1, ComesAndGoesDates, Zenon
<1>2. CASE \E r \in Bearers : getJWKS(r) \/ Locks(r) \/ KeysAnswered(r) \/ fetchJWKS(r) \/ FetchFails(r)
    BY <1>2, GetJWKSDates, LocksDates, KeysAnsweredDates, FetchJWKSDates, FetchFailsDates, Zenon
<1>3. CASE \E kid \in Kids : Publish(kid) \/ Withdraw(kid)
    BY <1>3, ProviderDates, Zenon
<1>4. CASE AuthnTick
    BY <1>4, TickDates, Zenon
<1>5. CASE UNCHANGED authnVars
  <2>1. UNCHANGED <<published, withdrawn, time, cachedJWKS, lastJWKSFetch, holder, queue, bearer>>
      BY <1>5, Zenon DEF authnVars
  <2> QED BY <2>1, Zenon DEF DatesInv, CacheDates, Dated, HolderFetches, FetchDates, ReadDates, WaitDates, QueueDates,
                      AcceptedDates, AcceptedKeyIsRecent, BearerAt
<1> QED BY <1>1, <1>2, <1>3, <1>4, <1>5, Zenon DEF AuthnNext

\* A token is accepted only with a key that is published, or was until less than the
\* cache's lifetime and the timeout of one fetch ago (getJWKS, fetchJWKS, cacheValid),
\* for every number of concurrent requests and of keys.
THEOREM AcceptedKeysAreRecent == AuthnSpec => []AcceptedKeyIsRecent
<1>1. DatesInv => AcceptedKeyIsRecent
    BY Zenon DEF DatesInv, AcceptedDates
<1> QED BY <1>1, InitDatesInv, NextDatesInv, AuthnInvariance, PTL DEF AuthnSpec

-----------------------------------------------------------------------------
(***************************************************************************)
(* The principal of a token.                                               *)
(***************************************************************************)

\* The extractor has been validated when the program started, and neither it nor the
\* token changes.
ClaimsInv == extractor \in Extractors /\ validateConfig(extractor) /\ token \in Tokens

\* Blanks are trimmed, and nothing else.
LEMMA TrimSpaceFields ==
    /\ \A name \in ClaimNames : TrimSpace(name).base = name.base
    /\ \A item \in Items : TrimSpace(item).str = item.str /\ TrimSpace(item).blank = item.blank /\ ~TrimSpace(item).padded
BY Zenon DEF TrimSpace, ClaimNames, Items

\* A value that a required claim can have gives strings, none of them blank or padded.
LEMMA RequiredIsUsable ==
    ASSUME NEW v \in ClaimValues, requiredClaimValue(v)
    PROVE  LET s == Strings(normalizeClaimValue(v)) IN
           s # <<>> /\ \A k \in DOMAIN s : ~s[k].blank /\ ~s[k].padded
<1> DEFINE t == Trimmed(v)
<1>1. /\ v.kind \in {"string", "array"} /\ v.items # <<>> /\ v.items \in Seq(Items)
      /\ \A k \in DOMAIN v.items : v.items[k] \in Items /\ v.items[k].str /\ ~v.items[k].blank
    BY DEF requiredClaimValue, AllStrings, ClaimValues
<1>2. normalizeClaimValue(v) = t
    BY <1>1, Zenon DEF normalizeClaimValue, AllStrings
<1>3. t.kind = v.kind /\ t.items = [k \in DOMAIN v.items |-> TrimSpace(v.items[k])]
    BY Zenon DEF Trimmed, ClaimValues
<1>4. 1 \in DOMAIN v.items
    BY <1>1
<1> HIDE DEF t
<1>5. DOMAIN t.items = DOMAIN v.items /\ \A k \in DOMAIN v.items : t.items[k].str /\ ~t.items[k].blank /\ ~t.items[k].padded
    BY <1>1, <1>3, TrimSpaceFields, SMTT(20)
<1>6. Strings(t) = t.items
    BY <1>1, <1>3, <1>4, <1>5, Zenon DEF Strings, AllStrings
<1>7. t.items # <<>>
    BY <1>4, <1>5
<1> QED BY <1>2, <1>5, <1>6, <1>7, Zenon

\* What a declaration makes of the names.
LEMMA ResolveNames ==
    ASSUME NEW spec \in ClaimSpecs
    PROVE  /\ \A name \in spec.required : TrimSpace(name) \in DOMAIN resolve(spec) /\ resolve(spec)[TrimSpace(name)]
           /\ \A name \in DOMAIN resolve(spec) : \E n \in spec.optional \cup spec.required : name.base = n.base
<1> DEFINE required == {TrimSpace(name) : name \in spec.required}
           optional == {TrimSpace(name) : name \in spec.optional}
<1>1. resolve(spec) = [name \in required \cup optional |-> name \in required]
    BY Zenon DEF resolve
<1>2. \A name \in spec.required : TrimSpace(name) \in required
    BY Zenon
<1>3. \A name \in required \cup optional : \E n \in spec.optional \cup spec.required : name = TrimSpace(n)
    BY Zenon
<1>4. \A n \in spec.optional \cup spec.required : TrimSpace(n).base = n.base
    BY TrimSpaceFields, Zenon DEF ClaimSpecs
<1> HIDE DEF required, optional
<1>5. DOMAIN resolve(spec) = required \cup optional /\ \A name \in required : resolve(spec)[name]
    BY <1>1, Zenon
<1> QED BY <1>2, <1>3, <1>4, <1>5, Zenon

\* What is read of the declared claims: those that are required are there.
LEMMA DeclaredAreUsable ==
    ASSUME NEW payload, \A name \in DOMAIN payload : payload[name] \in ClaimValues,
           NEW declared, extractDeclared(payload, declared).claims
    PROVE  LET extra == extractDeclared(payload, declared).of IN
           /\ DOMAIN extra \subseteq DOMAIN declared
           /\ \A name \in DOMAIN declared : declared[name] =>
                 /\ name \in DOMAIN extra
                 /\ LET s == Strings(extra[name]) IN s # <<>> /\ \A k \in DOMAIN s : ~s[k].blank /\ ~s[k].padded
<1> DEFINE there == {name \in DOMAIN declared : ~claimAbsent(ValueOf(payload, name))}
           all == \A name \in DOMAIN declared : declared[name] => name \in there /\ requiredClaimValue(payload[name])
           extra == [name \in there |-> normalizeClaimValue(payload[name])]
<1>1. extractDeclared(payload, declared) = IF all THEN [claims |-> TRUE, of |-> extra] ELSE Nothing
    BY Zenon DEF extractDeclared
<1>2. ~Nothing.claims
    BY Zenon DEF Nothing
<1>3. \A name \in there : name \in DOMAIN payload
  <2>1. claimAbsent(Null)
      BY Zenon DEF claimAbsent, Null
  <2> QED BY <2>1, Zenon DEF ValueOf
<1>4. there \subseteq DOMAIN declared
    BY Zenon
<1> HIDE DEF there
<1>5. all
    BY <1>1, <1>2, Zenon
<1>6. extractDeclared(payload, declared).of = extra
    BY <1>1, <1>5
<1>7. ASSUME NEW name \in DOMAIN declared, declared[name]
      PROVE  name \in there /\ LET s == Strings(extra[name]) IN s # <<>> /\ \A k \in DOMAIN s : ~s[k].blank /\ ~s[k].padded
  <2>1. name \in there /\ requiredClaimValue(payload[name])
      BY <1>5, <1>7, Zenon
  <2>2. payload[name] \in ClaimValues
      BY <1>3, <2>1, Zenon
  <2>3. extra[name] = normalizeClaimValue(payload[name])
      BY <2>1, Zenon
  <2>4. LET s == Strings(normalizeClaimValue(payload[name])) IN s # <<>> /\ \A k \in DOMAIN s : ~s[k].blank /\ ~s[k].padded
      BY <2>1, <2>2, RequiredIsUsable, Zenon
  <2> HIDE DEF extra
  <2> QED BY <2>1, <2>3, <2>4, Zenon
<1> QED BY <1>4, <1>6, <1>7, Zenon

\* A principal that has been made of a token has what is read of its declared claims.
LEMMA PrincipalHasExtra ==
    ASSUME NEW e, NEW t, NEW spec, ExtractPrincipal(e, t).claims,
           spec = IF t.grant_type = "authorization_code" THEN e.userClaims ELSE e.clientClaims
    PROVE  LET found == extractDeclared(t.payload, resolve(spec)) IN
           found.claims /\ ExtractPrincipal(e, t).extra = found.of
<1> DEFINE found == extractDeclared(t.payload, resolve(spec))
           p == ExtractPrincipal(e, t)
           resolved == resolveClaims(e, t.payload, resolve(spec))
<1>1. ~Nothing.claims
    BY Zenon DEF Nothing
<1>2. p = resolved \/ p = Nothing
    BY Zenon DEF ExtractPrincipal
<1>3. p = resolved
    BY <1>1, <1>2, Zenon
<1>4. resolved = Nothing \/ (found.claims /\ \E roles : resolved = [claims |-> TRUE, roles |-> roles, extra |-> found.of])
    BY Zenon DEF resolveClaims
<1> HIDE DEF p, resolved, found
<1>5. found.claims /\ p.extra = found.of
    BY <1>1, <1>3, <1>4 DEF p
<1> QED BY <1>5, Zenon DEF p, found

\* A principal of an extractor that has been validated.
LEMMA ClaimsAreUsable == ClaimsInv => PrincipalIsUsable
<1> SUFFICES ASSUME ClaimsInv, NEW type \in {"authorization_code", "client_credentials"},
                    ExtractPrincipal(extractor, [token EXCEPT !.grant_type = type]).claims
             PROVE  LET spec == IF type = "authorization_code" THEN extractor.userClaims ELSE extractor.clientClaims
                        p == ExtractPrincipal(extractor, [token EXCEPT !.grant_type = type])
                    IN  /\ \A name \in spec.required :
                              /\ TrimSpace(name) \in DOMAIN p.extra
                              /\ LET s == Strings(p.extra[TrimSpace(name)]) IN
                                 s # <<>> /\ \A k \in DOMAIN s : ~s[k].blank /\ ~s[k].padded
                        /\ \A name \in DOMAIN p.extra :
                              name.base \notin fixedSchemaClaims \cup {foldClaimName(extractor.rolesClaim)}
    BY Zenon DEF PrincipalIsUsable
<1> DEFINE t == [token EXCEPT !.grant_type = type]
           spec == IF type = "authorization_code" THEN extractor.userClaims ELSE extractor.clientClaims
           p == ExtractPrincipal(extractor, t)
           declared == resolve(spec)
           found == extractDeclared(t.payload, declared)
<1>1. t.grant_type = type /\ t.payload = token.payload
    BY ClaimsAssumption, Zenon DEF ClaimsInv
<1>2. \A name \in DOMAIN t.payload : t.payload[name] \in ClaimValues
    BY <1>1, ClaimsAssumption, Zenon DEF ClaimsInv
<1>3. /\ spec \in ClaimSpecs /\ extractor.rolesClaim \in ClaimNames
      /\ spec \in {extractor.userClaims, extractor.clientClaims}
    BY ClaimsAssumption, Zenon DEF ClaimsInv
<1> HIDE DEF t, spec
<1>4. found.claims /\ p.extra = found.of
  <2>1. ExtractPrincipal(extractor, t).claims
      BY Zenon DEF t
  <2>2. spec = IF t.grant_type = "authorization_code" THEN extractor.userClaims ELSE extractor.clientClaims
      BY <1>1, Zenon DEF spec
  <2> QED BY <2>1, <2>2, PrincipalHasExtra, Zenon
<1> HIDE DEF p
<1>5. /\ DOMAIN p.extra \subseteq DOMAIN declared
      /\ \A name \in DOMAIN declared : declared[name] =>
            /\ name \in DOMAIN p.extra
            /\ LET s == Strings(p.extra[name]) IN s # <<>> /\ \A k \in DOMAIN s : ~s[k].blank /\ ~s[k].padded
    BY <1>2, <1>4, DeclaredAreUsable, Zenon
<1> HIDE DEF declared, found
<1>6. /\ \A name \in spec.required : TrimSpace(name) \in DOMAIN declared /\ declared[TrimSpace(name)]
      /\ \A name \in DOMAIN declared : \E n \in spec.optional \cup spec.required : name.base = n.base
    BY <1>3, ResolveNames, Zenon DEF declared
<1>7. ASSUME NEW name \in spec.required
      PROVE  /\ TrimSpace(name) \in DOMAIN p.extra
             /\ LET s == Strings(p.extra[TrimSpace(name)]) IN s # <<>> /\ \A k \in DOMAIN s : ~s[k].blank /\ ~s[k].padded
    BY <1>5, <1>6, Zenon
<1>8. \A n \in spec.optional \cup spec.required :
         n.base \notin fixedSchemaClaims \cup {foldClaimName(extractor.rolesClaim)}
  <2>1. foldClaimName(TrimSpace(extractor.rolesClaim)) = foldClaimName(extractor.rolesClaim)
      BY <1>3, TrimSpaceFields, Zenon DEF foldClaimName
  <2>2. validateClaimNames(spec.optional \cup spec.required, TrimSpace(extractor.rolesClaim))
      BY <1>3, Zenon DEF ClaimsInv, validateConfig
  <2> QED BY <2>1, <2>2, Zenon DEF validateClaimNames, foldClaimName
<1>9. \A name \in DOMAIN p.extra : name.base \notin fixedSchemaClaims \cup {foldClaimName(extractor.rolesClaim)}
    BY <1>5, <1>6, <1>8, Zenon
<1> QED BY <1>7, <1>9, Zenon DEF p, t, spec

\* Every principal has the claims that are required of it, as strings that are neither
\* blank nor padded, and no declared claim is one that has a field of its own
\* (requiredClaimValue, validateClaimNames), for every extractor that is accepted and
\* every token.
THEOREM PrincipalsAreUsable == AuthnSpec => []PrincipalIsUsable
<1>1. AuthnInit => ClaimsInv
    BY Zenon DEF AuthnInit, ClaimsInv
<1>2. ClaimsInv /\ [AuthnNext]_authnVars => ClaimsInv'
  <2> SUFFICES ASSUME ClaimsInv, [AuthnNext]_authnVars PROVE ClaimsInv'
      BY Zenon
  <2>1. UNCHANGED <<extractor, token>>
      BY Zenon DEF AuthnNext, authnVars, Authenticate, getJWKS, Locks, KeysAnswered, fetchJWKS, FetchFails, BearerDone,
             Publish, Withdraw, AuthnTick
  <2> QED BY <2>1, Zenon DEF ClaimsInv, validateConfig, validateRolesClaimName, validateClaimNames, foldClaimName, TrimSpace
<1> QED BY <1>1, <1>2, ClaimsAreUsable, PTL DEF AuthnSpec

=============================================================================
