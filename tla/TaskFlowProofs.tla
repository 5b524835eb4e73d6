--------------------------- MODULE TaskFlowProofs ---------------------------
(***************************************************************************)
(* Proofs about the engine, for every number of node runs, every graph and *)
(* every set of callers, and about one task, for every number of node runs, *)
(* attempts and callers and every set of failures.                         *)
(***************************************************************************)
EXTENDS TaskFlow, TLAPS

-----------------------------------------------------------------------------
(***************************************************************************)
(* The engine (module Activation).                                         *)
(***************************************************************************)

\* The initial state of a workflow satisfies the invariant.
LEMMA InitInv == Init => ActivationInv
BY BoundsAssumption, CallersAssumption
DEF Init, ActivationInv, TypeOK, OneOpenStep, OpenIsUnanswered, LaterUntouched,
    ForceParkHonoured, Acts, AllKinds, TaskKinds, RoutingKinds, Answers, Actions, Signal

\* A new run of a node, with no step left open, keeps the invariant: used for
\* every way in which a workflow goes on to another node.
LEMMA DispatchInv ==
    ASSUME ActivationInv, NEW n \in {seq + 1, 2}, n > seq,
           NEW k \in AllKinds \cup {"none"}, Dispatch(n, k, {}), parked = {},
           wf' = "RUNNING", UNCHANGED <<future, signals>>,
           resolution' \in Actions \cup {"none"},
           outcome' \in [Acts -> {"none", "submitted", "sync", "unmapped", "parked"}],
           \A a \in Acts : a # seq => outcome'[a] = outcome[a],
           seq \in Acts => /\ future[seq] # "unset" => outcome'[seq] # "none"
                           /\ future[seq] = "park" => outcome'[seq] = "parked"
    PROVE  ActivationInv'
<1>1. n \in Acts /\ n \in Nat /\ n > 0 /\ seq \in Nat /\ seq' = n
  BY BoundsAssumption DEF Dispatch, ActivationInv, TypeOK, Acts
<1>2. /\ kind' \in [Acts -> AllKinds \cup {"none"}] /\ kind'[n] = k
      /\ future'[n] = "unset" /\ outcome'[n] = "none"
  BY <1>1 DEF Dispatch, ActivationInv, TypeOK, LaterUntouched
<1>3. \/ /\ phase' = "RUNNING" /\ parked' = {} /\ notice' = notice /\ parking' = parking
         /\ pending' = IF k \in TaskKinds THEN {n} ELSE {}
      \/ /\ phase' = "PARKED" /\ parked' = {n} /\ notice' = "sent" /\ parking' = parking + 1
         /\ pending' = {}
  BY Zenon DEF Dispatch, ParkAt
<1>4. TypeOK'
  BY <1>1, <1>2, <1>3, BoundsAssumption DEF ActivationInv, TypeOK, Acts
<1>5. OneOpenStep'
  BY <1>1, <1>3, Zenon DEF OneOpenStep
<1>6. OpenIsUnanswered'
  <2> SUFFICES ASSUME NEW a \in Acts
               PROVE  /\ a \in pending' => /\ kind'[a] \in TaskKinds
                                           /\ phase' \in {"RUNNING", "SUSPENDED"}
                                           /\ future'[a] = "unset"
                      /\ a = seq' /\ phase' \in {"RUNNING", "SUSPENDED"}
                           /\ kind'[a] \in TaskKinds =>
                           /\ outcome'[a] = "none"
                           /\ a \notin pending' => future'[a] # "unset"
    BY Zenon DEF OpenIsUnanswered
  <2> QED BY <1>1, <1>2, <1>3, Zenon
<1>7. LaterUntouched'
  <2>1. \A a \in Acts : a > n => a > seq /\ a # seq
    BY <1>1 DEF Acts
  <2>2. \A a \in Acts : a > n => future'[a] = "unset" /\ outcome'[a] = "none"
    BY <2>1, Zenon DEF ActivationInv, LaterUntouched
  <2>3. \A a \in Acts : future'[a] # "unset" /\ outcome'[a] = "none" => FALSE
    BY Zenon DEF ActivationInv, LaterUntouched
  <2> QED BY <1>1, <1>3, <2>2, <2>3 DEF LaterUntouched
<1>8. ForceParkHonoured'
  BY Zenon DEF ActivationInv, ForceParkHonoured
<1> QED BY <1>4, <1>5, <1>6, <1>7, <1>8, Zenon DEF ActivationInv

\* A task node that parks keeps the invariant.
LEMMA ParkStepInv ==
    ASSUME ActivationInv, wf = "RUNNING", phase \in {"RUNNING", "SUSPENDED"},
           NEW o \in {"parked", "unmapped"}, ParkStep(o),
           future[seq] = "park" => o = "parked",
           UNCHANGED <<wf, future, resolution, signals>>
    PROVE  ActivationInv'
<1>1. seq \in Acts /\ seq \in Nat /\ parked = {} /\ pending' = {} /\ seq' = seq /\ kind' = kind
      /\ phase' = "PARKED" /\ outcome' = [outcome EXCEPT ![seq] = o]
  BY BoundsAssumption DEF ActivationInv, TypeOK, OneOpenStep, LaterUntouched, Acts,
     ParkStep, ParkAt, Ends, Unregister
<1>2. TypeOK'
  BY <1>1 DEF ActivationInv, TypeOK, ParkStep, ParkAt
<1>3. OneOpenStep'
  BY <1>1, Zenon DEF ParkStep, ParkAt, OneOpenStep
<1>4. OpenIsUnanswered'
  BY <1>1, Zenon DEF OpenIsUnanswered
<1>5. LaterUntouched'
  <2>1. \A a \in Acts : outcome'[a] = IF a = seq THEN o ELSE outcome[a]
    BY <1>1, Zenon DEF ActivationInv, TypeOK
  <2>2. seq # 0 /\ seq' # 0 /\ wf' # "NONE"
    BY <1>1 DEF Acts
  <2>3. \A a \in Acts : a > seq' => future'[a] = "unset" /\ outcome'[a] = "none"
    BY <1>1, <2>1 DEF ActivationInv, LaterUntouched
  <2>4. \A a \in Acts : future'[a] # "unset" /\ outcome'[a] = "none" => FALSE
    BY <1>1, <2>1 DEF ActivationInv, LaterUntouched
  <2> QED BY <1>1, <2>2, <2>3, <2>4, Zenon DEF LaterUntouched
<1>6. ForceParkHonoured'
  BY <1>1, Zenon DEF ActivationInv, TypeOK, ForceParkHonoured
<1> QED BY <1>2, <1>3, <1>4, <1>5, <1>6, Zenon DEF ActivationInv

\* So does a task node that takes a result which is not a force-park.
LEMMA TakeResultInv ==
    ASSUME ActivationInv, wf = "RUNNING", phase \in {"RUNNING", "SUSPENDED"},
           NEW o \in {"submitted", "sync"}, TakeResult(o), future[seq] # "park",
           UNCHANGED <<wf, future, resolution, signals>>
    PROVE  ActivationInv'
<1>1. CASE MoveOn(Unregister) /\ Ends(o)
  <2>1. Unregister = {} /\ seq \in Acts /\ seq \in Nat /\ parked = {}
    BY BoundsAssumption
    DEF ActivationInv, TypeOK, OneOpenStep, LaterUntouched, Acts, Unregister
  <2>2. PICK k \in Kinds : Dispatch(seq + 1, k, {})
    BY <1>1, <2>1, Zenon DEF MoveOn
  <2>3. /\ outcome' \in [Acts -> {"none", "submitted", "sync", "unmapped", "parked"}]
        /\ \A a \in Acts : a # seq => outcome'[a] = outcome[a]
        /\ outcome'[seq] = o
    BY <1>1, <2>1, Zenon DEF Ends, ActivationInv, TypeOK
  <2>4. resolution' \in Actions \cup {"none"}
    BY Zenon DEF ActivationInv, TypeOK
  <2>5. k \in AllKinds \cup {"none"} /\ seq + 1 > seq /\ seq + 1 \in {seq + 1, 2}
    BY <2>1, KindsAssumption
  <2> QED BY <2>1, <2>2, <2>3, <2>4, <2>5, DispatchInv, Zenon
<1>2. CASE ParkStep("unmapped")
  BY <1>2, ParkStepInv, Zenon
<1> QED BY <1>1, <1>2, Zenon DEF TakeResult

\* A node that is not a task with a step open parks: gateways, timers, END, and
\* the node whose resolution was refused.
LEMMA ParkAtInv ==
    ASSUME ActivationInv, wf = "RUNNING", ParkAt(seq), pending = {}, parked = {},
           \A a \in Acts : future[a] # "unset" => outcome[a] # "none",
           UNCHANGED <<wf, seq, kind, pending, future, signals, outcome>>,
           resolution' \in Actions \cup {"none"}
    PROVE  ActivationInv'
<1>1. seq \in Acts /\ seq # 0
  BY BoundsAssumption DEF ActivationInv, TypeOK, LaterUntouched, Acts
<1>2. TypeOK'
  BY <1>1 DEF ActivationInv, TypeOK, ParkAt
<1>3. OneOpenStep' /\ OpenIsUnanswered'
  BY Zenon DEF ParkAt, OneOpenStep, OpenIsUnanswered
<1>4. LaterUntouched' /\ ForceParkHonoured'
  BY <1>1, Zenon DEF ActivationInv, ParkAt, LaterUntouched, ForceParkHonoured
<1> QED BY <1>2, <1>3, <1>4, Zenon DEF ActivationInv

\* A workflow that goes on from a node with no step open keeps the invariant.
LEMMA MoveOnInv ==
    ASSUME ActivationInv, wf = "RUNNING", wf' = "RUNNING", pending = {}, parked = {},
           NEW k \in AllKinds \cup {"none"}, Dispatch(seq + 1, k, pending),
           \A a \in Acts : future[a] # "unset" => outcome[a] # "none",
           UNCHANGED <<future, signals, outcome>>,
           resolution' \in Actions \cup {"none"}
    PROVE  ActivationInv'
<1>1. seq \in Nat /\ seq + 1 > seq /\ seq + 1 \in {seq + 1, 2}
  BY DEF ActivationInv, TypeOK
<1>2. outcome' \in [Acts -> {"none", "submitted", "sync", "unmapped", "parked"}]
  BY Zenon DEF ActivationInv, TypeOK
<1>3. seq \in Acts => /\ future[seq] # "unset" => outcome'[seq] # "none"
                      /\ future[seq] = "park" => outcome'[seq] = "parked"
  BY CallersAssumption, Zenon DEF ActivationInv, ForceParkHonoured
<1> QED BY <1>1, <1>2, <1>3, DispatchInv, Zenon

\* Every step of a workflow keeps the invariant.
LEMMA NextInv == ActivationInv /\ [Next]_engineVars => ActivationInv'
<1> SUFFICES ASSUME ActivationInv, [Next]_engineVars PROVE ActivationInv'
  BY Zenon
<1>0. /\ seq \in Nat /\ (wf # "NONE" => seq \in Acts /\ seq # 0)
      /\ resolution \in Actions \cup {"none"}
  BY BoundsAssumption DEF ActivationInv, TypeOK, LaterUntouched, Acts
<1>a. ASSUME phase \in {"PARKED", "JOINING"} \/ kind[seq] \notin TaskKinds, wf # "NONE"
      PROVE  pending = {} /\ \A a \in Acts : future[a] # "unset" => outcome[a] # "none"
  BY <1>a, <1>0, Zenon DEF ActivationInv, OneOpenStep, OpenIsUnanswered, LaterUntouched
<1>1. CASE StartWorkflow
  <2>1. seq = 0 /\ pending = {} /\ parked = {}
    BY <1>1 DEF StartWorkflow, ActivationInv, TypeOK, OneOpenStep, LaterUntouched, Acts
  <2>2. PICK k \in Kinds : Dispatch(2, k, {})
    BY <1>1, <2>1, Zenon DEF StartWorkflow
  <2>3. k \in AllKinds \cup {"none"} /\ 2 > seq /\ 2 \in {seq + 1, 2} /\ seq \notin Acts
    BY <2>1, KindsAssumption DEF Acts
  <2>4. /\ wf' = "RUNNING" /\ UNCHANGED <<future, signals>> /\ resolution' = resolution
        /\ outcome' = outcome
        /\ outcome' \in [Acts -> {"none", "submitted", "sync", "unmapped", "parked"}]
    BY <1>1, Zenon DEF StartWorkflow, ActivationInv, TypeOK
  <2> QED BY <1>0, <2>1, <2>2, <2>3, <2>4, DispatchInv, Zenon
<1>2. CASE ActivitySucceeds
  BY <1>2, ParkStepInv, TakeResultInv, Zenon DEF ActivitySucceeds, TaskRuns, Running, TakeSync
<1>3. CASE ActivitySuspends
  <2>1. TypeOK'
    BY <1>3, Zenon DEF ActivitySuspends, ActivationInv, TypeOK
  <2>2. OneOpenStep' /\ OpenIsUnanswered'
    BY <1>3, Zenon DEF ActivitySuspends, TaskRuns, Running, ActivationInv, OneOpenStep, OpenIsUnanswered
  <2>3. LaterUntouched' /\ ForceParkHonoured'
    BY <1>3, Zenon DEF ActivitySuspends, TaskRuns, Running, ActivationInv, LaterUntouched, ForceParkHonoured
  <2> QED BY <2>1, <2>2, <2>3, Zenon DEF ActivationInv
<1>4. CASE ActivityFails
  BY <1>4, ParkStepInv, Zenon DEF ActivityFails, TaskRuns, Running
<1>5. CASE ResumeSuspended
  BY <1>5, ParkStepInv, TakeResultInv, Zenon DEF ResumeSuspended, Running
<1>6. ASSUME NEW a \in Acts, NEW v \in Answers, UpdateActivation(a, v)
      PROVE  ActivationInv'
  <2>1. /\ a \in pending /\ a = seq /\ pending' = {} /\ wf = "RUNNING"
        /\ UNCHANGED <<wf, seq, kind, phase, parked, notice, parking, resolution, signals, outcome>>
        /\ future' = [future EXCEPT ![a] = v]
    BY <1>6, Zenon DEF UpdateActivation, Answer, ActivationInv, OneOpenStep
  <2>2. TypeOK'
    BY <2>1, Zenon DEF ActivationInv, TypeOK
  <2>3. \A b \in Acts : future'[b] = IF b = a THEN v ELSE future[b]
    BY <2>1, Zenon DEF ActivationInv, TypeOK
  <2>4. v # "unset"
    BY CallersAssumption, Zenon DEF Answers
  <2>5. kind[a] \in TaskKinds /\ phase \in {"RUNNING", "SUSPENDED"} /\ outcome[a] = "none"
    BY <2>1, Zenon DEF ActivationInv, OpenIsUnanswered
  <2>6. OneOpenStep' /\ OpenIsUnanswered'
    BY <2>1, <2>3, <2>4, <2>5, Zenon DEF ActivationInv, OneOpenStep, OpenIsUnanswered
  <2>7. ForceParkHonoured'
    BY <2>1, <2>3, <2>5, Zenon DEF ActivationInv, ForceParkHonoured
  <2>8. \A b \in Acts : b > seq => b # a
    BY <2>1, <1>0 DEF Acts
  <2>9. LaterUntouched'
    BY <2>1, <2>3, <2>5, <2>8, Zenon DEF ActivationInv, LaterUntouched
  <2> QED BY <2>2, <2>6, <2>7, <2>9, Zenon DEF ActivationInv
<1>7. CASE Updates
  BY <1>6, <1>7, Zenon DEF Updates, CompleteActivation, ForceParkActivation, Answers
<1>8. CASE RouteNode
  <2>1. /\ wf = "RUNNING" /\ pending = {} /\ parked = {} /\ resolution' = resolution
        /\ UNCHANGED <<wf, future, signals, outcome>>
        /\ \A a \in Acts : future[a] # "unset" => outcome[a] # "none"
    BY <1>8, <1>a, Zenon DEF RouteNode, Running, RoutingKinds, TaskKinds, ActivationInv, OneOpenStep
  <2>2. CASE MoveOn(pending)
    BY <2>1, <2>2, <1>0, KindsAssumption, MoveOnInv, Zenon DEF MoveOn
  <2>3. CASE ParkAt(seq) /\ UNCHANGED <<seq, kind, pending>>
    BY <2>1, <2>3, <1>0, ParkAtInv, Zenon
  <2> QED BY <1>8, <2>2, <2>3, Zenon DEF RouteNode
<1>9. CASE EndFails
  <2>1. pending = {} /\ parked = {} /\ \A a \in Acts : future[a] # "unset" => outcome[a] # "none"
    BY <1>9, <1>a, Zenon DEF EndFails, EndRuns, Running, TaskKinds, ActivationInv, OneOpenStep
  <2> QED BY <1>9, <2>1, <1>0, ParkAtInv, Zenon DEF EndFails, EndRuns, Running
<1>10. CASE EndSucceeds \/ TerminateWorkflow
  <2>1. /\ wf = "RUNNING" /\ wf' \in {"COMPLETED", "TERMINATED"}
        /\ UNCHANGED <<seq, kind, phase, pending, future, parked, notice, parking, resolution,
                       signals, outcome>>
    BY <1>10, Zenon DEF EndSucceeds, EndRuns, Running, TerminateWorkflow
  <2>2. TypeOK'
    BY <2>1, Zenon DEF ActivationInv, TypeOK
  <2>3. OneOpenStep' /\ OpenIsUnanswered' /\ LaterUntouched' /\ ForceParkHonoured'
    BY <2>1, Zenon DEF ActivationInv, OneOpenStep, OpenIsUnanswered, LaterUntouched, ForceParkHonoured
  <2> QED BY <2>2, <2>3, Zenon DEF ActivationInv
<1>11. ASSUME NEW act \in Actions, ResolveAdminIntervention(act) PROVE ActivationInv'
  <2>1. TypeOK'
    BY <1>11, <1>0 DEF ResolveAdminIntervention, Running, Signal, ActivationInv, TypeOK
  <2>2. OneOpenStep' /\ OpenIsUnanswered' /\ LaterUntouched' /\ ForceParkHonoured'
    BY <1>11, Zenon DEF ResolveAdminIntervention, ActivationInv, OneOpenStep, OpenIsUnanswered,
                 LaterUntouched, ForceParkHonoured
  <2> QED BY <2>1, <2>2, Zenon DEF ActivationInv
<1>12. ASSUME NEW s \in signals, AdminSignal(s) PROVE ActivationInv'
  <2>1. /\ wf = "RUNNING" /\ s.action \in Actions
        /\ UNCHANGED <<wf, seq, kind, pending, future, notice, parking, outcome>>
        /\ signals' \subseteq signals
        /\ \/ /\ phase = "PARKED" /\ phase' = "JOINING" /\ parked' = {}
              /\ resolution' = s.action
           \/ UNCHANGED <<resolution, phase, parked>>
    BY <1>12, Zenon DEF AdminSignal, Addresses, ActivationInv, TypeOK, OneOpenStep, Signal
  <2>2. TypeOK'
    BY <2>1, Zenon DEF ActivationInv, TypeOK
  <2>3. OneOpenStep' /\ OpenIsUnanswered' /\ LaterUntouched' /\ ForceParkHonoured'
    BY <2>1, Zenon DEF ActivationInv, OneOpenStep, OpenIsUnanswered, LaterUntouched, ForceParkHonoured
  <2> QED BY <2>2, <2>3, Zenon DEF ActivationInv
<1>13. CASE NoticeReturns
  <2>1. TypeOK'
    BY <1>13, Zenon DEF NoticeReturns, ActivationInv, TypeOK
  <2>2. OneOpenStep' /\ OpenIsUnanswered' /\ LaterUntouched' /\ ForceParkHonoured'
    BY <1>13, Zenon DEF NoticeReturns, ActivationInv, OneOpenStep, OpenIsUnanswered, LaterUntouched,
                 ForceParkHonoured
  <2> QED BY <2>1, <2>2, Zenon DEF ActivationInv
<1>14. CASE Resolutions
  <2>1. /\ wf = "RUNNING" /\ phase = "JOINING" /\ pending = {} /\ parked = {}
        /\ resolution' \in Actions \cup {"none"} /\ UNCHANGED <<future, signals, outcome>>
        /\ \A a \in Acts : future[a] # "unset" => outcome[a] # "none"
    BY <1>14, <1>a, Zenon DEF Resolutions, ResolveAbort, ResolveRetry, ResolveComplete, ResolveRefused,
       Resolve, Running, ActivationInv, OneOpenStep
  <2>2. CASE ResolveAbort \/ (ResolveComplete /\ kind[seq] = "END")
    <3>1. /\ wf' \in {"FAILED", "COMPLETED"}
          /\ UNCHANGED <<seq, kind, phase, pending, parked, notice, parking>>
      BY <2>2, Zenon DEF ResolveAbort, ResolveComplete
    <3>2. TypeOK'
      BY <2>1, <3>1, Zenon DEF ActivationInv, TypeOK
    <3>3. OneOpenStep' /\ OpenIsUnanswered' /\ LaterUntouched' /\ ForceParkHonoured'
      BY <2>1, <3>1, Zenon DEF ActivationInv, OneOpenStep, OpenIsUnanswered, LaterUntouched,
                        ForceParkHonoured
    <3> QED BY <3>2, <3>3, Zenon DEF ActivationInv
  <2>3. CASE ResolveRetry
    <3>1. kind[seq] \in AllKinds \cup {"none"}
      BY <2>1, <1>0, Zenon DEF ActivationInv, TypeOK
    <3> QED BY <2>1, <2>3, <3>1, MoveOnInv, Zenon DEF ResolveRetry, RetryNumber
  <2>4. CASE ResolveComplete /\ kind[seq] # "END"
    BY <2>1, <2>4, KindsAssumption, MoveOnInv, Zenon DEF ResolveComplete, MoveOn
  <2>5. CASE ResolveRefused
    BY <2>1, <2>5, ParkAtInv, Zenon DEF ResolveRefused
  <2> QED BY <1>14, <2>2, <2>3, <2>4, <2>5, Zenon DEF Resolutions
<1>15. CASE UNCHANGED engineVars
  <2>1. TypeOK'
    BY <1>15, Zenon DEF engineVars, ActivationInv, TypeOK
  <2>2. OneOpenStep' /\ OpenIsUnanswered' /\ LaterUntouched' /\ ForceParkHonoured'
    BY <1>15, Zenon DEF engineVars, ActivationInv, OneOpenStep, OpenIsUnanswered, LaterUntouched,
                 ForceParkHonoured
  <2> QED BY <2>1, <2>2, Zenon DEF ActivationInv
<1> QED BY <1>1, <1>2, <1>3, <1>4, <1>5, <1>7, <1>8, <1>9, <1>10, <1>11, <1>12, <1>13, <1>14,
           <1>15 DEF Next

\* The engine keeps its invariant: one activation is open at a time, an open step
\* has no answer yet, and an accepted force-park is honoured.
THEOREM Invariance == Spec => []ActivationInv
BY InitInv, NextInv, PTL DEF Spec

\* Every variable of the engine keeps its type.
THEOREM TypeCorrect == Spec => []TypeOK
<1>1. ActivationInv => TypeOK
  BY Zenon DEF ActivationInv
<1> QED BY <1>1, Invariance, PTL

\* A force-park that was accepted is never followed by the step going on.
THEOREM ForceParkIsHonoured == Spec => []ForceParkHonoured
<1>1. ActivationInv => ForceParkHonoured
  BY Zenon DEF ActivationInv
<1> QED BY <1>1, Invariance, PTL

-----------------------------------------------------------------------------
(***************************************************************************)
(* What a step of the workflow does to the answers.                        *)
(***************************************************************************)

\* Only the two Updates give an answer, and only to a step that is open.
LEMMA AnswerStep ==
    ASSUME ActivationInv, [Next]_engineVars, future' # future
    PROVE  \E a \in Acts, v \in Answers : UpdateActivation(a, v)
<1>1. ~UNCHANGED engineVars
  BY Zenon DEF engineVars
<1>2. \A s \in signals : ~AdminSignal(s)
  BY Zenon DEF AdminSignal
<1>3. \A act \in Actions : ~ResolveAdminIntervention(act)
  BY Zenon DEF ResolveAdminIntervention
<1>4. ~Resolutions
  BY Zenon DEF Resolutions, ResolveAbort, ResolveRetry, ResolveComplete, ResolveRefused, Resolve
<1>5. /\ ~StartWorkflow /\ ~ActivitySucceeds /\ ~ActivitySuspends /\ ~ActivityFails
      /\ ~ResumeSuspended /\ ~RouteNode /\ ~EndSucceeds /\ ~EndFails /\ ~NoticeReturns
      /\ ~TerminateWorkflow
  BY Zenon DEF StartWorkflow, ActivitySucceeds, ActivitySuspends, ActivityFails, ResumeSuspended,
         RouteNode, EndSucceeds, EndFails, NoticeReturns, TerminateWorkflow
<1>6. Updates
  BY <1>1, <1>2, <1>3, <1>4, <1>5, Zenon DEF Next
<1> QED BY <1>6, Zenon DEF Updates, CompleteActivation, ForceParkActivation, Answers

\* Of the completions and force-parks of a step exactly one is accepted.
THEOREM AnswersAreFinal == Spec => AnswerIsFinal
<1>1. ActivationInv /\ [Next]_engineVars =>
        [\A a \in Acts : future[a] # "unset" => future'[a] = future[a]]_engineVars
  <2> SUFFICES ASSUME ActivationInv, [Next]_engineVars, NEW a \in Acts, future[a] # "unset",
                      future' # future
               PROVE  future'[a] = future[a]
    BY Zenon
  <2>1. PICK b \in Acts, v \in Answers : UpdateActivation(b, v)
    BY AnswerStep, Zenon
  <2>2. b # a /\ future' = [future EXCEPT ![b] = v]
    BY <2>1, Zenon DEF UpdateActivation, Answer, ActivationInv, OpenIsUnanswered
  <2> QED BY <2>2, Zenon DEF ActivationInv, TypeOK
<1> QED BY <1>1, Invariance, PTL DEF Spec, AnswerIsFinal

\* A step is answered only while its own node runs its Activity or waits.
THEOREM AnswersOnlyWhileWaiting == Spec => AnsweredOnlyWhileWaiting
<1>1. ActivationInv /\ [Next]_engineVars =>
        [\A a \in Acts : future'[a] # future[a] =>
            a = seq /\ kind[a] \in TaskKinds /\ phase \in {"RUNNING", "SUSPENDED"}]_engineVars
  <2> SUFFICES ASSUME ActivationInv, [Next]_engineVars, NEW a \in Acts, future'[a] # future[a]
               PROVE  a = seq /\ kind[a] \in TaskKinds /\ phase \in {"RUNNING", "SUSPENDED"}
    BY Zenon
  <2>1. PICK b \in Acts, v \in Answers : UpdateActivation(b, v)
    BY AnswerStep, Zenon
  <2>2. b = a /\ a \in pending
    BY <2>1, Zenon DEF UpdateActivation, Answer, ActivationInv, TypeOK
  <2> QED BY <2>2, Zenon DEF ActivationInv, OneOpenStep, OpenIsUnanswered
<1> QED BY <1>1, Invariance, PTL DEF Spec, AnsweredOnlyWhileWaiting

\* A parking is ended only by a signal sent for that activation.
THEOREM ResolutionsAreAddressed == Spec => ResolvedByOwnSignal
<1>1. ActivationInv /\ [Next]_engineVars =>
        [phase = "PARKED" /\ phase' = "JOINING" =>
            \E s \in signals \ signals' : s.act = seq]_engineVars
  <2> SUFFICES ASSUME ActivationInv, [Next]_engineVars, phase = "PARKED", phase' = "JOINING"
               PROVE  \E s \in signals \ signals' : s.act = seq
    BY Zenon
  <2>1. ~UNCHANGED engineVars
    BY Zenon DEF engineVars
  <2>2. \A act \in Actions : ~ResolveAdminIntervention(act)
    BY Zenon DEF ResolveAdminIntervention
  <2>3. ~Resolutions
    BY Zenon DEF Resolutions, ResolveAbort, ResolveRetry, ResolveComplete, ResolveRefused, Resolve,
           Running
  <2>4. /\ ~StartWorkflow /\ ~ActivitySucceeds /\ ~ActivitySuspends /\ ~ActivityFails
        /\ ~ResumeSuspended /\ ~RouteNode /\ ~EndSucceeds /\ ~EndFails /\ ~NoticeReturns
        /\ ~TerminateWorkflow /\ ~Updates
    BY Zenon DEF StartWorkflow, ActivitySucceeds, ActivitySuspends, ActivityFails, ResumeSuspended,
           RouteNode, EndSucceeds, EndFails, EndRuns, NoticeReturns, TerminateWorkflow, Updates,
           CompleteActivation, ForceParkActivation, UpdateActivation, TaskRuns, Running,
           Dispatch, ParkAt
  <2>5. PICK s \in signals : AdminSignal(s)
    BY <2>1, <2>2, <2>3, <2>4, Zenon DEF Next
  <2> QED BY <2>5, Zenon DEF AdminSignal, Addresses, ActivationInv, OneOpenStep
<1> QED BY <1>1, Invariance, PTL DEF Spec, ResolvedByOwnSignal

-----------------------------------------------------------------------------
(***************************************************************************)
(* The engine implements the promise of ActivationOnce.                    *)
(***************************************************************************)

\* The value that the mapping gives to a step.
LEMMA BarOf ==
    ASSUME NEW a \in Acts
    PROVE  stepBar[a] = IF a \in pending THEN "open"
                        ELSE IF outcome[a] # "none" THEN "closed"
                        ELSE IF future[a] # "unset" THEN "answered"
                        ELSE "none"
BY Zenon DEF stepBar

\* The mapping after a step that leaves what it depends on alone.
LEMMA BarUnchanged ==
    ASSUME UNCHANGED <<pending, outcome, future>>
    PROVE  stepBar' = stepBar
BY Zenon DEF stepBar

\* Steps later than the current activation have not been opened.
LEMMA LaterIsNone ==
    ASSUME ActivationInv, NEW a \in Acts, a > seq
    PROVE  stepBar[a] = "none"
<1>1. a # seq /\ a \notin pending
  BY DEF ActivationInv, OneOpenStep, TypeOK, Acts
<1> QED BY <1>1, BarOf, Zenon DEF ActivationInv, LaterUntouched

\* At most the current activation is open or answered.
LEMMA OnlyCurrentIsLive ==
    ASSUME ActivationInv, NEW a \in Acts, stepBar[a] \in {"open", "answered"}
    PROVE  a = seq /\ kind[a] \in TaskKinds /\ phase \in {"RUNNING", "SUSPENDED"}
<1>1. CASE a \in pending
  BY <1>1, Zenon DEF ActivationInv, OneOpenStep, OpenIsUnanswered
<1>2. CASE a \notin pending
  BY <1>2, BarOf, Zenon DEF ActivationInv, LaterUntouched
<1> QED BY <1>1, <1>2, Zenon

\* A new activation opens its step, or parks and opens none.
LEMMA DispatchOpens ==
    ASSUME ActivationInv, NEW n, NEW k, n > seq, n \in Acts, Dispatch(n, k, {}), pending = {},
           \A a \in Acts : stepBar[a] \notin {"open", "answered"},
           UNCHANGED <<future, outcome>>
    PROVE  Once!Open(n) \/ UNCHANGED <<stepBar, future>>
<1>1. CASE pending' = {}
  BY <1>1, BarUnchanged, Zenon
<1>2. CASE pending' = {n}
  <2>1. stepBar' = [stepBar EXCEPT ![n] = "open"]
    BY <1>2, Zenon DEF stepBar
  <2>2. \A b \in Acts : b >= n => stepBar[b] = "none"
    BY LaterIsNone DEF ActivationInv, TypeOK, Acts
  <2> QED BY <2>1, <2>2, Zenon DEF Once!Open, Once!Opens, Once!Live
<1> QED BY <1>1, <1>2, Zenon DEF Dispatch

\* The node of an open or answered step leaves it, and the next may open.
LEMMA LeaveCloses ==
    ASSUME ActivationInv, seq \in Acts, kind[seq] \in TaskKinds,
           phase \in {"RUNNING", "SUSPENDED"},
           NEW o \in {"submitted", "sync", "unmapped", "parked"},
           outcome' = [outcome EXCEPT ![seq] = o], UNCHANGED future,
           pending' = {} \/ \E n \in Acts : n > seq /\ pending' = {n}
    PROVE  Once!Close(seq) \/ \E n \in Acts : Once!Pass(seq, n)
<1>1. stepBar[seq] \in {"open", "answered"}
  BY BarOf, Zenon DEF ActivationInv, OpenIsUnanswered
<1>2. \A a \in Acts : outcome'[a] = IF a = seq THEN o ELSE outcome[a]
  BY Zenon DEF ActivationInv, TypeOK
<1>3. \A a \in Acts : a # seq => a \notin pending
  BY Zenon DEF ActivationInv, OneOpenStep
<1>4. CASE pending' = {}
  <2>1. stepBar' = [stepBar EXCEPT ![seq] = "closed"]
    BY <1>2, <1>3, <1>4, Zenon DEF stepBar
  <2> QED BY <1>1, <2>1, Zenon DEF Once!Close, Once!Live
<1>5. ASSUME NEW n \in Acts, n > seq, pending' = {n}
      PROVE  Once!Pass(seq, n)
  <2>1. n # seq
    BY <1>5 DEF ActivationInv, TypeOK, Acts
  <2>2. stepBar' = [stepBar EXCEPT ![seq] = "closed", ![n] = "open"]
    BY <1>2, <1>3, <1>5, <2>1, Zenon DEF stepBar
  <2>3. \A b \in Acts : b >= n => stepBar[b] = "none"
    BY <1>5, LaterIsNone DEF ActivationInv, TypeOK, Acts
  <2>4. \A c \in Acts \ {seq} : stepBar[c] \notin {"open", "answered"}
    BY OnlyCurrentIsLive, Zenon
  <2> QED BY <1>1, <2>2, <2>3, <2>4, Zenon DEF Once!Pass, Once!Opens, Once!Live
<1> QED BY <1>4, <1>5, Zenon

\* A task node that takes its result or parks is a step of the promise.
LEMMA TaskNodeSimulates ==
    ASSUME ActivationInv, wf = "RUNNING", kind[seq] \in TaskKinds,
           phase \in {"RUNNING", "SUSPENDED"}, UNCHANGED future,
           NEW o \in {"submitted", "sync", "unmapped", "parked"},
           TakeResult(o) \/ ParkStep(o)
    PROVE  Once!OnceNext
<1>1. seq \in Acts /\ seq \in Nat /\ Unregister = {}
  BY BoundsAssumption
  DEF ActivationInv, TypeOK, OneOpenStep, LaterUntouched, Acts, Unregister
<1>2. CASE MoveOn(Unregister) /\ Ends(o)
  <2>1. PICK k \in Kinds : Dispatch(seq + 1, k, {})
    BY <1>1, <1>2, Zenon DEF MoveOn
  <2>2. seq + 1 \in Acts /\ seq + 1 > seq
    BY <1>1, <2>1, BoundsAssumption DEF Dispatch, Acts
  <2>3. pending' = {} \/ pending' = {seq + 1}
    BY <2>1, Zenon DEF Dispatch
  <2>4. Once!Close(seq) \/ \E n \in Acts : Once!Pass(seq, n)
    BY <1>1, <1>2, <2>2, <2>3, LeaveCloses, Zenon DEF Ends
  <2> QED BY <1>1, <2>4, Zenon DEF Once!OnceNext
<1>3. ASSUME NEW p \in {"submitted", "sync", "unmapped", "parked"}, ParkStep(p)
      PROVE  Once!OnceNext
  <2>1. Once!Close(seq) \/ \E n \in Acts : Once!Pass(seq, n)
    BY <1>1, <1>3, LeaveCloses, Zenon DEF ParkStep, Ends
  <2> QED BY <1>1, <2>1, Zenon DEF Once!OnceNext
<1> QED BY <1>2, <1>3, Zenon DEF TakeResult

\* Every step of the engine is a step of the promise, or leaves it alone.
LEMMA StepSimulates ==
    ActivationInv /\ [Next]_engineVars => [Once!OnceNext]_(Once!onceVars)
<1> SUFFICES ASSUME ActivationInv, [Next]_engineVars
             PROVE  Once!OnceNext \/ UNCHANGED <<stepBar, future>>
  BY Zenon DEF Once!onceVars
<1>0. seq \in Nat /\ (wf # "NONE" => seq \in Acts)
  BY BoundsAssumption DEF ActivationInv, TypeOK, LaterUntouched, Acts
<1>a. ASSUME NEW n, NEW k, n > seq, n <= MaxSeq, n \in Nat, Dispatch(n, k, pending),
             phase \in {"none", "PARKED", "JOINING"} \/ seq = 0 \/ kind[seq] \notin TaskKinds,
             UNCHANGED <<future, outcome>>
      PROVE  Once!OnceNext \/ UNCHANGED <<stepBar, future>>
  <2>1. n \in Acts /\ \A a \in Acts : a # 0
    BY <1>a, <1>0, BoundsAssumption DEF Acts
  <2>2. \A a \in Acts : stepBar[a] \notin {"open", "answered"}
    BY <1>a, <2>1, OnlyCurrentIsLive, Zenon
  <2>3. pending = {}
    BY <2>2, BarOf, Zenon DEF ActivationInv, TypeOK
  <2> QED BY <1>a, <2>1, <2>2, <2>3, DispatchOpens, Zenon DEF Once!OnceNext
<1>1. CASE StartWorkflow
  <2>1. seq = 0 /\ 2 <= MaxSeq
    BY <1>1, BoundsAssumption, Zenon DEF StartWorkflow, ActivationInv, LaterUntouched
  <2> QED BY <1>1, <1>a, <2>1 DEF StartWorkflow
<1>2. CASE ActivitySucceeds
  BY <1>2, TaskNodeSimulates, Zenon DEF ActivitySucceeds, TaskRuns, Running, TakeSync
<1>3. CASE ActivityFails
  BY <1>3, TaskNodeSimulates, Zenon DEF ActivityFails, TaskRuns, Running
<1>4. CASE ResumeSuspended
  <2>1. wf = "RUNNING" /\ phase = "SUSPENDED" /\ kind[seq] \in TaskKinds
    BY <1>4, Zenon DEF ResumeSuspended, Running, ActivationInv, LaterUntouched
  <2> QED BY <1>4, <2>1, TaskNodeSimulates, Zenon DEF ResumeSuspended
<1>5. CASE Updates
  <2>1. PICK a \in Acts, v \in Answers : UpdateActivation(a, v)
    BY <1>5, Zenon DEF Updates, CompleteActivation, ForceParkActivation, Answers
  <2>2. /\ a \in pending /\ pending' = pending \ {a} /\ outcome' = outcome
        /\ future' = [future EXCEPT ![a] = v] /\ v # "unset"
    BY <2>1, CallersAssumption, Zenon DEF UpdateActivation, Answer, Answers
  <2>3. outcome[a] = "none"
    BY <2>2, Zenon DEF ActivationInv, OneOpenStep, OpenIsUnanswered
  <2>4. \A b \in Acts : future'[b] = IF b = a THEN v ELSE future[b]
    BY <2>2, Zenon DEF ActivationInv, TypeOK
  <2>5. stepBar' = [stepBar EXCEPT ![a] = "answered"]
    BY <2>2, <2>3, <2>4, Zenon DEF stepBar
  <2>6. Once!GiveAnswer(a, v)
    BY <2>2, <2>5, BarOf, Zenon DEF Once!GiveAnswer
  <2> QED BY <2>6, Zenon DEF Once!OnceNext
<1>6. CASE RouteNode
  <2>1. /\ kind[seq] \notin TaskKinds /\ UNCHANGED <<future, outcome>>
        /\ MoveOn(pending) \/ UNCHANGED pending
    BY <1>6, Zenon DEF RouteNode, RoutingKinds, TaskKinds
  <2>2. CASE MoveOn(pending)
    <3>1. PICK k \in Kinds : Dispatch(seq + 1, k, pending)
      BY <2>2, Zenon DEF MoveOn
    <3>2. seq + 1 <= MaxSeq /\ seq + 1 > seq /\ seq + 1 \in Nat
      BY <3>1, <1>0 DEF Dispatch
    <3> QED BY <1>a, <2>1, <3>1, <3>2, Zenon
  <2> QED BY <2>1, <2>2, BarUnchanged, Zenon
<1>7. CASE Resolutions
  <2>1. /\ phase = "JOINING" /\ UNCHANGED <<future, outcome>>
        /\ (\E k : Dispatch(seq + 1, k, pending)) \/ UNCHANGED pending
    BY <1>7, Zenon DEF Resolutions, ResolveAbort, ResolveRetry, RetryNumber, ResolveComplete,
       ResolveRefused, Resolve, Running, MoveOn
  <2>2. ASSUME NEW k, Dispatch(seq + 1, k, pending)
        PROVE  Once!OnceNext \/ UNCHANGED <<stepBar, future>>
    <3>1. seq + 1 <= MaxSeq /\ seq + 1 > seq /\ seq + 1 \in Nat
      BY <2>2, <1>0 DEF Dispatch
    <3> QED BY <1>a, <2>1, <2>2, <3>1, Zenon
  <2> QED BY <2>1, <2>2, BarUnchanged, Zenon
<1>8. CASE \/ ActivitySuspends \/ EndSucceeds \/ EndFails \/ NoticeReturns
           \/ TerminateWorkflow \/ UNCHANGED engineVars
           \/ (\E act \in Actions : ResolveAdminIntervention(act))
           \/ (\E s \in signals : AdminSignal(s))
  <2>1. UNCHANGED <<pending, outcome, future>>
    BY <1>8, Zenon DEF ActivitySuspends, EndSucceeds, EndFails, NoticeReturns, TerminateWorkflow,
       engineVars, ResolveAdminIntervention, AdminSignal
  <2> QED BY <2>1, BarUnchanged, Zenon
<1> QED BY <1>1, <1>2, <1>3, <1>4, <1>5, <1>6, <1>7, <1>8, Zenon DEF Next

\* The engine implements ActivationOnce: steps open one at a time and in order,
\* each is answered at most once, and a closed step never opens again.
THEOREM Refinement == Spec => ImplementsOnce
<1>1. Init => Once!OnceInit
  BY Zenon DEF Init, Once!OnceInit, stepBar
<1> QED BY <1>1, StepSimulates, Invariance, PTL DEF Spec, ImplementsOnce, Once!OnceSpec

-----------------------------------------------------------------------------
(***************************************************************************)
(* Where the workflow is after a step: at the same node, or one further.   *)
(***************************************************************************)

\* The workflow stays at its node, or has ended.
SameNode ==
    /\ UNCHANGED <<seq, kind>> /\ pending' \subseteq pending
    /\ wf' = "RUNNING" => wf = "RUNNING"
    /\ phase' = "RUNNING" => phase = "RUNNING"
    /\ phase' = "SUSPENDED" => phase = "SUSPENDED" \/ ActivitySuspends
    /\ phase \in {"PARKED", "JOINING"} => phase' \in {"PARKED", "JOINING"}

\* It goes on to another node: from an END, to that END again.
NextNode ==
    /\ seq' \in Acts
    /\ seq' = IF seq = 0 THEN 2 ELSE seq + 1
    /\ \E k : kind' = [kind EXCEPT ![seq'] = k] /\ (seq # 0 /\ kind[seq] = "END" => k = "END")
    /\ phase' \in {"RUNNING", "PARKED"}

\* A run of a node is either.
LEMMA DispatchMoves ==
    ASSUME ActivationInv, NEW n, NEW k, NEW others, Dispatch(n, k, others),
           n = (IF seq = 0 THEN 2 ELSE seq + 1), seq # 0 /\ kind[seq] = "END" => k = "END"
    PROVE  NextNode
<1>1. n \in Acts /\ seq' = n
  BY BoundsAssumption DEF Dispatch, ActivationInv, TypeOK, Acts
<1> QED BY <1>1, Zenon DEF Dispatch, ParkAt, NextNode

\* Every step of the workflow stays or goes on, and a workflow that was started stays so.
LEMMA EngineMoves ==
    ASSUME ActivationInv, [Next]_engineVars
    PROVE  (SameNode \/ NextNode) /\ (wf # "NONE" => wf' # "NONE")
<1>0. /\ seq \in Nat /\ wf = "RUNNING" => seq # 0
      /\ wf = "NONE" => seq = 0
      /\ phase = "SUSPENDED" => kind[seq] \in TaskKinds
      /\ "END" \notin TaskKinds /\ "END" \notin RoutingKinds
  BY Zenon DEF ActivationInv, TypeOK, LaterUntouched, TaskKinds, RoutingKinds
<1>1. CASE UNCHANGED engineVars
  BY <1>1, Zenon DEF engineVars, SameNode
<1>2. CASE StartWorkflow
  BY <1>0, <1>2, DispatchMoves, Zenon DEF StartWorkflow
<1>3. ASSUME NEW others, MoveOn(others), seq # 0, kind[seq] # "END" PROVE NextNode
  BY <1>3, DispatchMoves, Zenon DEF MoveOn
<1>4. ASSUME NEW o, ParkStep(o), UNCHANGED wf PROVE SameNode
  BY <1>4, Zenon DEF ParkStep, ParkAt, Unregister, SameNode
<1>5. CASE ActivitySucceeds \/ ActivityFails \/ ResumeSuspended
  <2>1. UNCHANGED wf /\ wf = "RUNNING" /\ kind[seq] # "END"
    BY <1>0, <1>5, Zenon DEF ActivitySucceeds, ActivityFails, ResumeSuspended, TaskRuns, Running
  <2>2. (\E others : MoveOn(others)) \/ (\E o : ParkStep(o))
    BY <1>5, Zenon DEF ActivitySucceeds, ActivityFails, ResumeSuspended, TakeSync, TakeResult
  <2> QED BY <1>0, <1>3, <1>4, <2>1, <2>2
<1>6. CASE ActivitySuspends
  BY <1>6, Zenon DEF ActivitySuspends, SameNode, TaskRuns, Running
<1>7. CASE Updates \/ NoticeReturns \/ TerminateWorkflow \/ EndSucceeds
  BY <1>7, Zenon DEF Updates, CompleteActivation, ForceParkActivation, UpdateActivation, Answer,
     NoticeReturns, TerminateWorkflow, EndSucceeds, EndRuns, Running, SameNode
<1>8. CASE EndFails
  BY <1>8, Zenon DEF EndFails, EndRuns, Running, ParkAt, SameNode
<1>9. CASE RouteNode
  <2>1. CASE MoveOn(pending)
    BY <1>0, <1>3, <1>9, <2>1 DEF RouteNode, Running
  <2>2. CASE ParkAt(seq) /\ UNCHANGED <<seq, kind, pending>>
    BY <1>9, <2>2, Zenon DEF RouteNode, Running, ParkAt, SameNode
  <2> QED BY <1>9, <2>1, <2>2, Zenon DEF RouteNode, Running
<1>10. ASSUME NEW act \in Actions, ResolveAdminIntervention(act) PROVE SameNode /\ UNCHANGED wf
  BY <1>10, Zenon DEF ResolveAdminIntervention, SameNode
<1>11. ASSUME NEW s \in signals, AdminSignal(s) PROVE SameNode /\ UNCHANGED wf
  BY <1>11, Zenon DEF AdminSignal, Addresses, SameNode
<1>12. CASE ResolveAbort
  BY <1>12, Zenon DEF ResolveAbort, Resolve, Running, SameNode
<1>13. CASE ResolveRetry
  BY <1>0, <1>13, DispatchMoves DEF ResolveRetry, Resolve, Running, RetryNumber
<1>14. CASE ResolveComplete
  BY <1>0, <1>3, <1>14 DEF ResolveComplete, Resolve, Running, SameNode
<1>15. CASE ResolveRefused
  BY <1>15, Zenon DEF ResolveRefused, Resolve, Running, ParkAt, SameNode
<1> QED BY <1>1, <1>2, <1>5, <1>6, <1>7, <1>8, <1>9, <1>10, <1>11, <1>12, <1>13, <1>14, <1>15, Zenon
    DEF Next, Resolutions

\* The nodes that have run keep their kind, and the counter does not go back.
LEMMA KindsKept ==
    ASSUME ActivationInv, SameNode \/ NextNode
    PROVE  /\ seq \in Nat /\ seq' \in Nat /\ seq <= seq'
           /\ \A a \in Acts : a <= seq => kind'[a] = kind[a] /\ a <= seq'
<1>1. seq \in Nat /\ Acts \subseteq Nat /\ kind \in [Acts -> AllKinds \cup {"none"}]
  BY DEF ActivationInv, TypeOK, Acts
<1>2. CASE SameNode
  BY <1>1, <1>2 DEF SameNode
<1>3. CASE NextNode
  <2>1. seq' \in Nat /\ seq < seq'
    BY <1>1, <1>3 DEF NextNode
  <2>2. \A a \in Acts : a <= seq => a # seq' /\ a <= seq'
    BY <1>1, <2>1
  <2>3. \A a \in Acts : a # seq' => kind'[a] = kind[a]
    BY <1>1, <1>3, Zenon DEF NextNode
  <2> QED BY <1>1, <2>1, <2>2, <2>3
<1> QED BY <1>2, <1>3, Zenon

-----------------------------------------------------------------------------
(***************************************************************************)
(* A step of the task, seen from the workflow and from the row.            *)
(***************************************************************************)

\* The answer of an attempt is a step of the workflow, or ignored.
LEMMA AttemptEngineStep ==
    ASSUME NEW x,
           \/ Reports(x, ActivityFails) \/ Reports(x, ActivitySuspends)
           \/ Reports(x, ActivitySucceeds) \/ Reports(x, EndSucceeds)
           \/ Retries(x) \/ Finishes(x) \/ (\E pc : Goes(x, pc))
           \/ (\E left : NextAttempt(left))
    PROVE  [Next]_engineVars
BY Zenon DEF Reports, Retries, Finishes, Goes, NextAttempt, Next

\* Every step of the task is, for the workflow, one of its own steps or none.
LEMMA EngineStep ==
    ASSUME TypeOK, [FlowSteps]_vars
    PROVE  [Next]_engineVars
<1>1. CASE UNCHANGED vars
  BY <1>1, Zenon DEF vars
<1>2. CASE StartTaskInits \/ StartTaskStarts \/ StartTaskAgain
  BY <1>2, Zenon DEF StartTaskInits, StartTaskStarts, StartTaskAgain, Next
<1>3. CASE WorkflowGoesOn \/ AdminActs
  BY <1>3, Zenon DEF WorkflowGoesOn, AdminActs, Next, Updates
<1>4. ASSUME NEW x \in Attempts, StepRuns(x) \/ StepErrs(x) \/ AttemptTimesOut(x)
      PROVE  [Next]_engineVars
  BY <1>4, AttemptEngineStep, Zenon
  DEF StepRuns, StepErrs, StepClaims, StepRenders, StepReports, AttemptTimesOut, Reports, Next
<1>5. ASSUME NEW x \in Attempts, CompletionRuns(x) \/ CompletionReadFails(x) \/ CompletionErrs(x)
      PROVE  [Next]_engineVars
  BY <1>5, AttemptEngineStep, Zenon
  DEF CompletionRuns, CompletionReads, CompletionWrites, CompletionRechecks, CompletionWakes,
      CompletionReports, CompletionReadFails, CompletionErrs
<1>6. ASSUME NEW c \in Callers,
             SubmitReads(c) \/ SubmitEnds(c) \/ SubmitCompletes(c) \/ SubmitPersists(c)
      PROVE  [Next]_engineVars
  <2>1. UNCHANGED engineVars \/ CompleteActivation(sub[c].step, c)
    BY <1>6, Zenon DEF SubmitReads, SubmitEnds, SubmitCompletes, SubmitPersists
  <2>2. ASSUME CompleteActivation(sub[c].step, c) PROVE Next
    <3>1. sub[c].step \in Acts
      BY <2>2, Zenon DEF CompleteActivation, UpdateActivation, Answer, TypeOK
    <3> QED BY <2>2, <3>1, Zenon DEF Next, Updates
  <2> QED BY <2>1, <2>2, Zenon
<1>7. CASE \/ SaveDraftReads \/ SaveDraftWrites \/ ParentForceParked \/ NoticeTimesOut
           \/ CancelTaskReads \/ CancelTaskTerminates \/ CancelTaskWrites \/ CancelTaskErrs
  BY <1>7, Zenon DEF SaveDraftReads, SaveDraftWrites, ParentForceParked, NoticeTimesOut,
     CancelTaskReads, CancelTaskTerminates, CancelTaskWrites, CancelTaskErrs, Next
<1>8. ASSUME NEW n \in holds, HoldsTask(n) PROVE [Next]_engineVars
  BY <1>8, Zenon DEF HoldsTask, Next
<1> QED BY <1>1, <1>2, <1>3, <1>4, <1>5, <1>6, <1>7, <1>8, Zenon DEF FlowSteps

\* The writes of the row: the store's statements, each behind its guard and with who is
\* there to make it.
RowWrite ==
    \/ row' = InitTask(row)
    \/ \E x \in Attempts :
          \/ att[x] = "claim" /\ CanClaimStep(row, x[1]) /\ row' = ClaimStep(row, x[1])
          \/ att[x] = "render" /\ CanWriteRenderState(row, x[1])
             /\ \E st \in {"SHOWING", "STARTING_STEP"} : row' = WriteRenderState(row, x[1], st)
          \/ att[x] = "complete" /\ CanCompleteTask(row, x[1]) /\ row' = CompleteTask(row, x[1])
    \/ \E n \in holds : CanHoldTask(row, n) /\ row' = HoldTask(row, n)
    \/ \E c \in Callers :
          /\ sub[c].pc = "write"
          /\ CanPersistSubmission(row, sub[c].step, sub[c].seq)
          /\ row' = PersistSubmission(row, sub[c].seq, c)
    \/ row.state \notin NoDraftStates /\ row' = WriteDraft(row)
    \/ CanCancelTask(row) /\ row' = CancelTask(row)

\* A step that changes the row is one of these writes, and is none of the workflow's, but
\* for the return of the park notification that wrote it.
LEMMA RowStep ==
    ASSUME FlowTypeOK, [FlowSteps]_vars, row' # row
    PROVE  RowWrite /\ UNCHANGED <<wf, seq, kind, phase, pending, future>>
<1> DEFINE Still == UNCHANGED <<wf, seq, kind, phase, pending, future>>
<1>1. ~UNCHANGED vars
  BY Zenon DEF vars, flowVars
<1>2. ~StartTaskStarts /\ ~StartTaskAgain /\ ~WorkflowGoesOn /\ ~AdminActs
  BY Zenon DEF StartTaskStarts, StartTaskAgain, WorkflowGoesOn, AdminActs, flowVars
<1>3. CASE StartTaskInits
  BY <1>3, Zenon DEF StartTaskInits, RowWrite, engineVars
<1>4. ASSUME NEW x \in Attempts, StepRuns(x) \/ StepErrs(x) \/ AttemptTimesOut(x)
      PROVE  RowWrite /\ Still
  <2>1. \/ att[x] = "claim" /\ CanClaimStep(row, x[1]) /\ row' = ClaimStep(row, x[1])
        \/ att[x] = "render" /\ CanWriteRenderState(row, x[1])
           /\ \E st \in {"SHOWING", "STARTING_STEP"} : row' = WriteRenderState(row, x[1], st)
    BY <1>4, Zenon DEF StepRuns, StepClaims, StepRenders, StepReports, StepErrs, AttemptTimesOut,
       ShownStates
  <2>2. UNCHANGED engineVars
    BY <1>4, Zenon DEF StepRuns, StepClaims, StepRenders, StepReports, StepErrs, AttemptTimesOut,
       Finishes, Goes
  <2> QED BY <2>1, <2>2, Zenon DEF RowWrite, engineVars
<1>5. ASSUME NEW x \in Attempts, CompletionRuns(x) \/ CompletionReadFails(x) \/ CompletionErrs(x)
      PROVE  RowWrite /\ Still
  <2>1. att[x] = "complete" /\ CanCompleteTask(row, x[1]) /\ row' = CompleteTask(row, x[1])
    BY <1>5, Zenon DEF CompletionRuns, CompletionReads, CompletionWrites, CompletionRechecks,
       CompletionWakes, CompletionReports, CompletionReadFails, CompletionErrs
  <2>2. UNCHANGED engineVars
    BY <1>5, Zenon DEF CompletionRuns, CompletionReads, CompletionWrites, CompletionRechecks,
       CompletionWakes, CompletionReports, CompletionReadFails, CompletionErrs, Goes
  <2> QED BY <2>1, <2>2, Zenon DEF RowWrite, engineVars
<1>6. ASSUME NEW c \in Callers,
             SubmitReads(c) \/ SubmitEnds(c) \/ SubmitCompletes(c) \/ SubmitPersists(c)
      PROVE  RowWrite /\ Still
  BY <1>6, Zenon DEF SubmitReads, SubmitEnds, SubmitCompletes, SubmitPersists, RowWrite, engineVars
<1>7. CASE \/ SaveDraftReads \/ SaveDraftWrites \/ ParentForceParked \/ NoticeTimesOut
           \/ CancelTaskReads \/ CancelTaskTerminates \/ CancelTaskWrites \/ CancelTaskErrs
  BY <1>7, Zenon DEF SaveDraftReads, SaveDraftWrites, ParentForceParked, NoticeTimesOut, flowVars,
     CancelTaskReads, CancelTaskTerminates, CancelTaskWrites, CancelTaskErrs, RowWrite,
     CanWriteDraft, engineVars
<1>8. ASSUME NEW n \in holds, HoldsTask(n) PROVE RowWrite /\ Still
  BY <1>8, Zenon DEF HoldsTask, RowWrite, NoticeReturns, engineVars
<1> QED BY <1>1, <1>2, <1>3, <1>4, <1>5, <1>6, <1>7, <1>8, Zenon DEF FlowSteps

-----------------------------------------------------------------------------
(***************************************************************************)
(* Types.                                                                  *)
(***************************************************************************)

\* What the store writes is a row.
LEMMA RowTyped ==
    ASSUME FlowTypeOK, RowWrite \/ UNCHANGED row
    PROVE  row' \in [state : RowStates, active : Acts \cup {NoStep}, seq : Nat,
                     data : Callers \cup Writers]
<1> DEFINE Row == [state : RowStates, active : Acts \cup {NoStep}, seq : Nat,
                   data : Callers \cup Writers]
<1>0. row \in Row /\ Acts \subseteq Nat
  BY DEF FlowTypeOK, Acts
<1>1. CASE UNCHANGED row \/ row' = InitTask(row)
  BY <1>0, <1>1, Zenon DEF InitTask, RowStates, Writers
<1>2. ASSUME NEW n \in Acts,
             \/ row' = ClaimStep(row, n) \/ row' = HoldTask(row, n) \/ row' = CompleteTask(row, n)
             \/ (\E st \in {"SHOWING", "STARTING_STEP"} : row' = WriteRenderState(row, n, st))
      PROVE  row' \in Row
  <2>1. n \in Nat /\ (IF row.seq > n THEN row.seq ELSE n) \in Nat
    BY <1>0, Zenon
  <2>2. CASE row' = HoldTask(row, n)
    BY <1>0, <2>1, <2>2, Zenon DEF HoldTask, RowStates
  <2>3. CASE row' = ClaimStep(row, n)
    BY <1>0, <2>1, <2>3, Zenon DEF ClaimStep, RowStates, Writers
  <2>4. CASE row' = CompleteTask(row, n)
    BY <1>0, <2>1, <2>4, Zenon DEF CompleteTask, RowStates
  <2>5. ASSUME NEW st \in {"SHOWING", "STARTING_STEP"}, row' = WriteRenderState(row, n, st)
        PROVE  row' \in Row
    BY <1>0, <2>5, Zenon DEF WriteRenderState, RowStates, Writers
  <2> QED BY <1>2, <2>2, <2>3, <2>4, <2>5, Zenon
<1>3. ASSUME NEW c \in Callers, row' = PersistSubmission(row, sub[c].seq, c) PROVE row' \in Row
  <2>1. sub[c].seq + 1 \in Nat
    BY DEF FlowTypeOK, Call
  <2> QED BY <1>0, <1>3, <2>1, Zenon DEF PersistSubmission, RowStates
<1>4. CASE row' = WriteDraft(row)
  BY <1>0, <1>4, Zenon DEF WriteDraft, Writers
<1>5. CASE row' = CancelTask(row)
  <2>1. row.seq + 1 \in Nat
    BY <1>0
  <2> QED BY <1>0, <1>5, <2>1, Zenon DEF CancelTask, RowStates
<1>6. (\A x \in Attempts : x[1] \in Acts) /\ holds \subseteq Acts
  BY Zenon DEF Attempts, FlowTypeOK
<1> QED BY <1>1, <1>2, <1>3, <1>4, <1>5, <1>6, Zenon DEF RowWrite

\* A step that counts a parking parks the node.
LEMMA ParkingStep ==
    ASSUME [Next]_engineVars, parking' # parking
    PROVE  phase' = "PARKED"
<1>1. ~UNCHANGED engineVars
  BY Zenon DEF engineVars
<1>2. \A s \in signals : ~AdminSignal(s)
  BY Zenon DEF AdminSignal
<1>3. \A act \in Actions : ~ResolveAdminIntervention(act)
  BY Zenon DEF ResolveAdminIntervention
<1>4. ~Updates /\ ~NoticeReturns /\ ~TerminateWorkflow /\ ~EndSucceeds /\ ~ActivitySuspends
  BY Zenon DEF Updates, CompleteActivation, ForceParkActivation, UpdateActivation, NoticeReturns,
         TerminateWorkflow, EndSucceeds, ActivitySuspends
<1>5. ASSUME NEW n, NEW k, NEW others, Dispatch(n, k, others) PROVE phase' = "PARKED"
  BY <1>5, Zenon DEF Dispatch, ParkAt
<1>6. CASE ActivitySucceeds \/ ActivityFails \/ ResumeSuspended
  BY <1>5, <1>6, Zenon DEF ActivitySucceeds, ActivityFails, ResumeSuspended, TakeSync, TakeResult,
     ParkStep, MoveOn, ParkAt
<1>7. CASE StartWorkflow \/ RouteNode \/ EndFails
  BY <1>5, <1>7, Zenon DEF StartWorkflow, RouteNode, EndFails, MoveOn, ParkAt
<1>8. CASE Resolutions
  BY <1>5, <1>8, Zenon DEF Resolutions, ResolveAbort, ResolveRetry, ResolveComplete, ResolveRefused,
     MoveOn, ParkAt
<1> QED BY <1>1, <1>2, <1>3, <1>4, <1>6, <1>7, <1>8, Zenon DEF Next

\* The types of what Temporal runs.
RunsOK ==
    /\ att \in [Attempts -> AttemptSteps]
    /\ attempt \in 0 .. MaxAttempts
    /\ holds \subseteq Acts

\* They are kept by what a step of the workflow schedules.
LEMMA SchedulesTyped ==
    ASSUME RunsOK, ActivationInv', [Next]_engineVars,
           NEW left \in [Attempts -> AttemptSteps], Schedules(left)
    PROVE  RunsOK'
<1>1. FirstStep(kind'[seq']) \in AttemptSteps
  BY Zenon DEF FirstStep, AttemptSteps
<1>2. att' \in [Attempts -> AttemptSteps] /\ attempt' \in 0 .. MaxAttempts
  BY <1>1, FlowAssumption DEF Schedules, RunsOK
<1>3. parking' # parking => seq' \in Acts
  <2>1. parking' # parking => seq' # 0
    BY ParkingStep, Zenon DEF ActivationInv, LaterUntouched
  <2> QED BY <2>1, BoundsAssumption DEF ActivationInv, TypeOK, Acts
<1> QED BY <1>2, <1>3, Zenon DEF Schedules, RunsOK

\* They are kept by every answer of an attempt.
LEMMA AttemptTyped ==
    ASSUME RunsOK, ActivationInv', NEW x \in Attempts,
           \/ Reports(x, ActivityFails) \/ Reports(x, ActivitySuspends)
           \/ Reports(x, ActivitySucceeds) \/ Reports(x, EndSucceeds)
           \/ Retries(x) \/ Finishes(x) \/ (\E pc \in AttemptSteps : Goes(x, pc))
           \/ (\E left \in {att, Ended(x)} : Awaited(x) /\ NextAttempt(left))
    PROVE  RunsOK'
<1>1. Ended(x) \in [Attempts -> AttemptSteps] /\ att \in [Attempts -> AttemptSteps]
  BY Zenon DEF Ended, RunsOK, AttemptSteps
<1>2. [Next]_engineVars
  BY AttemptEngineStep, Zenon
<1>3. ASSUME NEW pc \in AttemptSteps, Goes(x, pc) PROVE RunsOK'
  BY <1>3, Zenon DEF Goes, RunsOK
<1>4. "off" \in AttemptSteps /\ "report" \in AttemptSteps
  BY Zenon DEF AttemptSteps
<1>5. CASE Finishes(x)
  BY <1>3, <1>4, <1>5, Zenon DEF Finishes
<1>6. ASSUME NEW left \in [Attempts -> AttemptSteps], NextAttempt(left) PROVE RunsOK'
  <2>1. CASE attempt < MaxAttempts
    <3>1. FirstStep(kind[seq]) \in AttemptSteps
      BY Zenon DEF FirstStep, AttemptSteps
    <3>2. att' \in [Attempts -> AttemptSteps] /\ holds' = holds
      BY <1>6, <2>1, <3>1, Zenon DEF NextAttempt
    <3>3. attempt' \in 0 .. MaxAttempts
      BY <1>6, <2>1, FlowAssumption DEF NextAttempt, RunsOK
    <3> QED BY <3>2, <3>3, Zenon DEF RunsOK
  <2>2. CASE ~(attempt < MaxAttempts)
    BY <1>2, <1>6, <2>2, SchedulesTyped, Zenon DEF NextAttempt
  <2> QED BY <2>1, <2>2, Zenon
<1>7. CASE Retries(x)
  BY <1>1, <1>3, <1>4, <1>6, <1>7, Zenon DEF Retries
<1>8. CASE \/ Reports(x, ActivityFails) \/ Reports(x, ActivitySuspends)
           \/ Reports(x, ActivitySucceeds) \/ Reports(x, EndSucceeds)
  BY <1>1, <1>2, <1>3, <1>4, <1>8, SchedulesTyped, Zenon DEF Reports
<1> QED BY <1>1, <1>3, <1>5, <1>6, <1>7, <1>8, Zenon

\* Every step of the task keeps the types of what Temporal runs.
LEMMA RunsTyped ==
    ASSUME FlowTypeOK, ActivationInv', [FlowSteps]_vars
    PROVE  RunsOK'
<1>0. RunsOK /\ att \in [Attempts -> AttemptSteps] /\ [Next]_engineVars
  BY EngineStep, Zenon DEF FlowTypeOK, RunsOK
<1>1. CASE UNCHANGED runVars
  BY <1>0, <1>1, Zenon DEF runVars, RunsOK
<1>2. CASE StartTaskInits \/ StartTaskStarts \/ StartTaskAgain \/ WorkflowGoesOn \/ AdminActs
  BY <1>0, <1>1, <1>2, SchedulesTyped, Zenon
  DEF StartTaskInits, StartTaskStarts, StartTaskAgain, WorkflowGoesOn, AdminActs, flowVars, runVars
<1>3. ASSUME NEW x \in Attempts, StepRuns(x) \/ StepErrs(x) \/ AttemptTimesOut(x)
      PROVE  RunsOK'
  <2>1. "render" \in AttemptSteps
    BY Zenon DEF AttemptSteps
  <2> QED BY <1>0, <1>3, <2>1, AttemptTyped, Zenon
      DEF StepRuns, StepClaims, StepRenders, StepReports, StepErrs, AttemptTimesOut
<1>4. ASSUME NEW x \in Attempts, CompletionRuns(x) \/ CompletionReadFails(x) \/ CompletionErrs(x)
      PROVE  RunsOK'
  <2>1. {"complete", "wake", "recheck"} \subseteq AttemptSteps
    BY Zenon DEF AttemptSteps
  <2> QED BY <1>0, <1>4, <2>1, AttemptTyped, Zenon
      DEF CompletionRuns, CompletionReads, CompletionWrites, CompletionRechecks, CompletionWakes,
          CompletionReports, CompletionReadFails, CompletionErrs
<1>5. ASSUME NEW c \in Callers,
             SubmitReads(c) \/ SubmitEnds(c) \/ SubmitCompletes(c) \/ SubmitPersists(c)
      PROVE  RunsOK'
  BY <1>1, <1>5, Zenon DEF SubmitReads, SubmitEnds, SubmitCompletes, SubmitPersists
<1>6. CASE \/ SaveDraftReads \/ SaveDraftWrites \/ ParentForceParked \/ NoticeTimesOut
           \/ CancelTaskReads \/ CancelTaskTerminates \/ CancelTaskWrites \/ CancelTaskErrs
  BY <1>1, <1>6, Zenon DEF SaveDraftReads, SaveDraftWrites, ParentForceParked, NoticeTimesOut,
     CancelTaskReads, CancelTaskTerminates, CancelTaskWrites, CancelTaskErrs, flowVars, runVars
<1>7. ASSUME NEW n \in holds, HoldsTask(n) PROVE RunsOK'
  BY <1>0, <1>7, Zenon DEF HoldsTask, RunsOK
<1>8. CASE UNCHANGED vars
  BY <1>1, <1>8, Zenon DEF vars, flowVars, runVars
<1> QED BY <1>2, <1>3, <1>4, <1>5, <1>6, <1>7, <1>8, Zenon DEF FlowSteps

\* What becomes of the CompleteTaskStep calls: one reads the row, ends, or is past
\* the workflow.
SubWrite ==
    \E c \in Callers :
        \/ /\ row.active # NoStep /\ row.state \notin ClosedStates
           /\ sub' = [sub EXCEPT ![c] = ReadCall("call")]
           /\ UNCHANGED <<engineVars, row>>
        \/ sub' = [sub EXCEPT ![c] = Idle]
        \/ /\ sub[c].pc = "call" /\ UNCHANGED row
           /\ CompleteActivation(sub[c].step, c)
           /\ sub' = [sub EXCEPT ![c].pc = "write"]

\* The calls from outside change in their own steps only.
LEMMA CallStep ==
    ASSUME FlowTypeOK, [FlowSteps]_vars
    PROVE  /\ UNCHANGED sub \/ SubWrite
           /\ UNCHANGED draft \/ draft' = Idle \/ draft' = ReadCall("write")
           /\ starting' \in {"init", "start", "idle"}
           /\ cancel' \in {"idle", "terminate", "write"}
           /\ cancels' \in 0 .. MaxCancels
           /\ parent' \in {"pending", "woken", "parked"}
           /\ rerun' = rerun
<1>0. /\ starting \in {"init", "start", "idle"} /\ cancel \in {"idle", "terminate", "write"}
      /\ cancels \in 0 .. MaxCancels /\ parent \in {"pending", "woken", "parked"}
  BY Zenon DEF FlowTypeOK
<1>1. CASE UNCHANGED callVars
  BY <1>0, <1>1, Zenon DEF callVars
<1>2. CASE StartTaskInits \/ StartTaskStarts \/ StartTaskAgain
  BY <1>0, <1>2, Zenon DEF StartTaskInits, StartTaskStarts, StartTaskAgain
<1>3. CASE WorkflowGoesOn \/ AdminActs \/ NoticeTimesOut \/ UNCHANGED vars
  BY <1>1, <1>3, Zenon DEF WorkflowGoesOn, AdminActs, NoticeTimesOut, vars, flowVars, callVars
<1>4. ASSUME NEW x \in Attempts, StepRuns(x) \/ StepErrs(x) \/ AttemptTimesOut(x)
      PROVE  UNCHANGED callVars
  BY <1>4, Zenon DEF StepRuns, StepClaims, StepRenders, StepReports, StepErrs, AttemptTimesOut
<1>5. ASSUME NEW x \in Attempts, CompletionRuns(x) \/ CompletionReadFails(x) \/ CompletionErrs(x)
      PROVE  UNCHANGED callVars \/ (WakeParent /\ UNCHANGED <<starting, sub, draft, cancel, cancels, rerun>>)
  BY <1>5, Zenon DEF CompletionRuns, CompletionReads, CompletionWrites, CompletionRechecks,
     CompletionWakes, CompletionReports, CompletionReadFails, CompletionErrs
<1>6. CASE WakeParent /\ UNCHANGED <<starting, sub, draft, cancel, cancels, rerun>>
  BY <1>0, <1>6, Zenon DEF WakeParent
<1>7. ASSUME NEW c \in Callers,
             SubmitReads(c) \/ SubmitEnds(c) \/ SubmitCompletes(c) \/ SubmitPersists(c)
      PROVE  SubWrite /\ UNCHANGED <<starting, draft, cancel, cancels, parent, rerun>>
  BY <1>7, Zenon DEF SubmitReads, SubmitEnds, SubmitCompletes, SubmitPersists, SubWrite
<1>8. CASE SaveDraftReads \/ SaveDraftWrites \/ ParentForceParked
  BY <1>0, <1>8, Zenon DEF SaveDraftReads, SaveDraftWrites, ParentForceParked
<1>9. CASE CancelTaskReads \/ CancelTaskTerminates \/ CancelTaskWrites \/ CancelTaskErrs
  <2>1. cancels' \in 0 .. MaxCancels
    BY <1>0, <1>9, FlowAssumption
    DEF CancelTaskReads, CancelTaskTerminates, CancelTaskWrites, CancelTaskErrs
  <2> QED BY <1>0, <1>9, <2>1, Zenon
      DEF CancelTaskReads, CancelTaskTerminates, CancelTaskWrites, CancelTaskErrs
<1>10. ASSUME NEW n \in holds, HoldsTask(n) PROVE UNCHANGED callVars
  BY <1>10, Zenon DEF HoldsTask
<1> QED BY <1>0, <1>1, <1>2, <1>3, <1>4, <1>5, <1>6, <1>7, <1>8, <1>9, <1>10, Zenon DEF FlowSteps

\* Every step of the task keeps the types.
LEMMA FlowTyped ==
    ASSUME FlowTypeOK, ActivationInv, [FlowSteps]_vars
    PROVE  FlowTypeOK' /\ ActivationInv'
<1>1. ActivationInv'
  BY EngineStep, NextInv, Zenon DEF ActivationInv
<1>2. ReadCall("call") \in Call /\ ReadCall("write") \in Call /\ Idle \in Call
  BY Zenon DEF ReadCall, Idle, Call, FlowTypeOK, NoStep
<1>3. draft' \in Call
  BY <1>2, CallStep, Zenon DEF FlowTypeOK
<1>4. sub' \in [Callers -> Call]
  <2>1. sub \in [Callers -> Call] /\ \A c \in Callers : sub[c] \in Call
    BY Zenon DEF FlowTypeOK
  <2>2. \A c \in Callers : [sub[c] EXCEPT !.pc = "write"] \in Call
    BY <2>1, Zenon DEF Call
  <2> QED BY <1>2, <2>1, <2>2, CallStep, Zenon DEF SubWrite
<1>5. row' \in [state : RowStates, active : Acts \cup {NoStep}, seq : Nat,
                data : Callers \cup Writers]
  BY RowStep, RowTyped, Zenon
<1>6. RunsOK'
  BY <1>1, RunsTyped, Zenon
<1> QED BY <1>1, <1>3, <1>4, <1>5, <1>6, CallStep, Zenon DEF FlowTypeOK, RunsOK, ActivationInv

-----------------------------------------------------------------------------
(***************************************************************************)
(* The invariant of the row.                                               *)
(***************************************************************************)

\* An answer that was given stays.
LEMMA AnswerKept ==
    ASSUME ActivationInv, [Next]_engineVars, NEW a \in Acts, future[a] # "unset"
    PROVE  future'[a] = future[a]
<1>1. CASE future' = future
  BY <1>1, Zenon
<1>2. CASE future' # future
  <2>1. PICK b \in Acts, v \in Answers : UpdateActivation(b, v)
    BY <1>2, AnswerStep, Zenon
  <2>2. b # a /\ future' = [future EXCEPT ![b] = v]
    BY <2>1, Zenon DEF UpdateActivation, Answer, ActivationInv, OpenIsUnanswered
  <2> QED BY <2>2, Zenon DEF ActivationInv, TypeOK
<1> QED BY <1>1, <1>2, Zenon

\* The facts about a row and a call that the arithmetic below needs.
LEMMA RowShape ==
    ASSUME FlowTypeOK, RowOrdered
    PROVE  /\ row.seq \in Nat /\ row.active \in Nat /\ row.active <= row.seq
           /\ row.active \in Acts \cup {NoStep} /\ row.data \in Callers \cup Writers
           /\ row \in [state : RowStates, active : Acts \cup {NoStep}, seq : Nat,
                       data : Callers \cup Writers]
           /\ Acts \subseteq Nat
           /\ \A c \in Callers : sub[c].seq \in Nat /\ sub[c].step \in Acts \cup {NoStep}
<1>1. Acts \subseteq Nat
  BY DEF Acts
<1>2. row \in [state : RowStates, active : Acts \cup {NoStep}, seq : Nat,
               data : Callers \cup Writers]
  BY Zenon DEF FlowTypeOK
<1>3. \A c \in Callers : sub[c].seq \in Nat /\ sub[c].step \in Acts \cup {NoStep}
  BY Zenon DEF FlowTypeOK, Call
<1>4. row.seq \in Nat /\ row.active \in Acts \cup {NoStep}
  BY <1>2, Zenon
<1>5. row.active \in Nat
  <2>1. CASE row.active = 0
    BY <2>1
  <2> QED BY <1>1, <1>4, <2>1, Zenon DEF NoStep
<1> QED BY <1>1, <1>2, <1>3, <1>4, <1>5, Zenon DEF RowOrdered

\* They hold where the invariant of the row does.
LEMMA RowFacts ==
    ASSUME RowInv
    PROVE  /\ row.seq \in Nat /\ row.active \in Nat /\ row.active <= row.seq
           /\ row.active \in Acts \cup {NoStep} /\ row.data \in Callers \cup Writers
           /\ row \in [state : RowStates, active : Acts \cup {NoStep}, seq : Nat,
                       data : Callers \cup Writers]
           /\ Acts \subseteq Nat
           /\ \A c \in Callers : sub[c].seq \in Nat /\ sub[c].step \in Acts \cup {NoStep}
<1>1. FlowTypeOK /\ RowOrdered
  BY Zenon DEF RowInv
<1> QED BY <1>1, RowShape, Zenon

\* No write moves the version or the active step back.
LEMMA WriteMoves ==
    ASSUME FlowTypeOK, RowOrdered, RowWrite
    PROVE  row'.seq >= row.seq /\ row'.active >= row.active /\ row'.active <= row'.seq
<1> USE RowShape
<1>1. CASE row' = InitTask(row)
  BY <1>1 DEF InitTask
<1>2. ASSUME NEW n \in Acts, CanClaimStep(row, n), row' = ClaimStep(row, n)
      PROVE  row'.seq = n /\ row'.active = n /\ row.seq <= n /\ n \in Nat
  BY <1>2 DEF CanClaimStep, ClaimStep
<1>3. ASSUME NEW n \in Acts, NEW st, row' = WriteRenderState(row, n, st) \/ row' = WriteDraft(row)
      PROVE  row'.seq = row.seq /\ row'.active = row.active
  BY <1>3, Zenon DEF WriteRenderState, WriteDraft
<1>4. ASSUME NEW n \in Acts, row' = HoldTask(row, n)
      PROVE  row'.seq >= row.seq /\ row'.active = row.active /\ row'.seq \in Nat
  BY <1>4 DEF HoldTask
<1>5. ASSUME NEW n \in Acts, CanCompleteTask(row, n), row' = CompleteTask(row, n)
      PROVE  row'.seq >= row.seq /\ row'.active = row.active /\ row'.seq \in Nat
  BY <1>5, Zenon DEF CanCompleteTask, CompleteTask
<1>6. ASSUME NEW c \in Callers, CanPersistSubmission(row, sub[c].step, sub[c].seq),
             row' = PersistSubmission(row, sub[c].seq, c)
      PROVE  row'.seq = row.seq + 1 /\ row'.active = row.active
  BY <1>6, Zenon DEF CanPersistSubmission, PersistSubmission
<1>7. CASE row' = CancelTask(row)
  <2>1. row'.seq = row.seq + 1 /\ row'.active = row.active
    BY <1>7, Zenon DEF CancelTask
  <2> QED BY <2>1
<1>8. CASE \E n \in Acts : CanClaimStep(row, n) /\ row' = ClaimStep(row, n)
  <2>1. PICK n \in Acts : row'.seq = n /\ row'.active = n /\ row.seq <= n /\ n \in Nat
    BY <1>2, <1>8, Zenon
  <2> QED BY <2>1
<1>9. CASE row'.seq = row.seq /\ row'.active = row.active
  BY <1>9
<1>10. CASE row'.seq >= row.seq /\ row'.active = row.active /\ row'.seq \in Nat
  BY <1>10
<1>11. CASE row'.seq = row.seq + 1 /\ row'.active = row.active
  BY <1>11
<1>12. (\A x \in Attempts : x[1] \in Acts) /\ holds \subseteq Acts /\ Acts # {}
  BY BoundsAssumption DEF Attempts, FlowTypeOK, Acts
<1> QED BY <1>1, <1>3, <1>4, <1>5, <1>6, <1>7, <1>8, <1>9, <1>10, <1>11, <1>12, Zenon DEF RowWrite

\* How each write moves the version, the active step and the data.
LEMMA RowWriteEffect ==
    ASSUME RowInv, RowWrite
    PROVE  /\ row'.seq >= row.seq /\ row'.active >= row.active /\ row'.active <= row'.seq
           /\ \/ row' = row
              \/ row'.data \in Writers /\ row.data \notin Callers
              \/ row'.data \in Writers /\ row'.active # row.active
              \/ /\ row'.data = row.data /\ row'.active = row.active
                 /\ row'.state \in NoDraftStates
              \/ /\ row'.state \in NoDraftStates /\ row'.active < row'.seq
                 /\ row'.active = row.active
                 /\ \E c \in Callers : sub[c].pc = "write" /\ sub[c].step = row.active /\ row'.data = c
<1> USE RowFacts
<1>0. ASSUME row.data \in Callers
      PROVE  row.active < row.seq /\ row.state \in NoDraftStates /\ row.state # "NONE"
  BY <1>0, Zenon DEF RowInv, SubmissionOnRow, NoDraftStates
<1>1. CASE row' = InitTask(row)
  BY <1>0, <1>1 DEF InitTask, Exists, Writers
<1>2. ASSUME NEW n \in Acts, CanClaimStep(row, n), row' = ClaimStep(row, n)
      PROVE  /\ row'.seq = n /\ row'.active = n /\ row.seq <= n /\ n \in Nat
             /\ row'.data \in Writers /\ (row.data \in Callers => row'.active # row.active)
  BY <1>0, <1>2 DEF CanClaimStep, ClaimStep, Writers
<1>3. ASSUME NEW n \in Acts, NEW st \in {"SHOWING", "STARTING_STEP"},
             CanWriteRenderState(row, n), row' = WriteRenderState(row, n, st)
      PROVE  /\ row'.seq = row.seq /\ row'.active = row.active /\ row'.data \in Writers
             /\ row.data \notin Callers
  BY <1>0, <1>3 DEF CanWriteRenderState, WriteRenderState, Writers
<1>4. ASSUME NEW n \in Acts, row' = HoldTask(row, n)
      PROVE  /\ row'.seq >= row.seq /\ row'.active = row.active /\ row'.data = row.data
             /\ row'.seq \in Nat /\ row'.state \in NoDraftStates
  BY <1>4 DEF HoldTask, NoDraftStates
<1>5. ASSUME NEW n \in Acts, CanCompleteTask(row, n), row' = CompleteTask(row, n)
      PROVE  /\ row'.seq >= row.seq /\ row'.active = row.active /\ row'.data = row.data
             /\ row'.seq \in Nat /\ row'.state \in NoDraftStates
  BY <1>5, Zenon DEF CanCompleteTask, CompleteTask, NoDraftStates
<1>6. ASSUME NEW c \in Callers, CanPersistSubmission(row, sub[c].step, sub[c].seq),
             row' = PersistSubmission(row, sub[c].seq, c)
      PROVE  /\ row'.seq = row.seq + 1 /\ row'.active = row.active /\ row'.data = c
             /\ sub[c].step = row.active /\ row'.state \in NoDraftStates
  BY <1>6, Zenon DEF CanPersistSubmission, PersistSubmission, NoDraftStates
<1>7. CASE row.state \notin NoDraftStates /\ row' = WriteDraft(row)
  <2>1. /\ row'.seq = row.seq /\ row'.active = row.active /\ row'.data \in Writers
        /\ row.data \notin Callers
    BY <1>0, <1>7, Zenon DEF WriteDraft, Writers
  <2> QED BY <2>1
<1>8. CASE row' = CancelTask(row)
  <2>1. /\ row'.seq = row.seq + 1 /\ row'.active = row.active /\ row'.data = row.data
        /\ row'.state \in NoDraftStates
    BY <1>8, Zenon DEF CancelTask, NoDraftStates
  <2> QED BY <2>1
<1>9. CASE \E n \in Acts : CanClaimStep(row, n) /\ row' = ClaimStep(row, n)
  <2>1. PICK n \in Acts : CanClaimStep(row, n) /\ row' = ClaimStep(row, n)
    BY <1>9, Zenon
  <2>2. /\ row'.seq = n /\ row'.active = n /\ row.seq <= n /\ n \in Nat
        /\ row'.data \in Writers /\ (row.data \in Callers => row'.active # row.active)
    BY <1>2, <2>1, Zenon
  <2> QED BY <2>2
<1>10. CASE \E n \in Acts, st \in {"SHOWING", "STARTING_STEP"} :
               CanWriteRenderState(row, n) /\ row' = WriteRenderState(row, n, st)
  <2>1. /\ row'.seq = row.seq /\ row'.active = row.active /\ row'.data \in Writers
        /\ row.data \notin Callers
    BY <1>3, <1>10, Zenon
  <2> QED BY <2>1
<1>11. CASE \E n \in Acts : \/ row' = HoldTask(row, n)
                           \/ (CanCompleteTask(row, n) /\ row' = CompleteTask(row, n))
  <2>1. /\ row'.seq >= row.seq /\ row'.active = row.active /\ row'.data = row.data
        /\ row'.seq \in Nat /\ row'.state \in NoDraftStates
    BY <1>4, <1>5, <1>11, Zenon
  <2> QED BY <2>1
<1>12. CASE \E c \in Callers : /\ sub[c].pc = "write"
                              /\ CanPersistSubmission(row, sub[c].step, sub[c].seq)
                              /\ row' = PersistSubmission(row, sub[c].seq, c)
  <2>1. /\ row'.seq = row.seq + 1 /\ row'.active = row.active /\ row'.state \in NoDraftStates
        /\ \E c \in Callers : sub[c].pc = "write" /\ sub[c].step = row.active /\ row'.data = c
    BY <1>6, <1>12, Zenon
  <2> QED BY <2>1
<1>13. (\A x \in Attempts : x[1] \in Acts) /\ holds \subseteq Acts
  BY Zenon DEF Attempts, RowInv, FlowTypeOK
<1> QED BY <1>1, <1>7, <1>8, <1>9, <1>10, <1>11, <1>12, <1>13, Zenon DEF RowWrite

\* Every step of the task keeps the invariant of the row.
LEMMA RowInvStep == RowInv /\ [FlowSteps]_vars => RowInv'
<1> SUFFICES ASSUME RowInv, [FlowSteps]_vars PROVE RowInv'
  BY Zenon
<1>0. FlowTypeOK /\ TypeOK /\ ActivationInv /\ [Next]_engineVars
  BY EngineStep, Zenon DEF RowInv, FlowTypeOK
<1>1. FlowTypeOK' /\ ActivationInv'
  BY <1>0, FlowTyped, Zenon
<1>2. row' # row => RowWrite
  BY <1>0, RowStep, Zenon
<1>3. RowOrdered'
  BY <1>2, RowWriteEffect, Zenon DEF RowInv, RowOrdered
<1>4. \A a \in Acts : future[a] \in Callers => future'[a] = future[a]
  BY <1>0, AnswerKept, CallersAssumption, Zenon
<1>5. SubmissionOnRow'
  <2> SUFFICES ASSUME row'.data \in Callers
               PROVE  /\ row'.active \in Acts /\ row'.active < row'.seq
                      /\ row'.state \in NoDraftStates
                      /\ future'[row'.active] = row'.data
    BY Zenon DEF SubmissionOnRow
  <2>1. row'.data \notin Writers
    BY FlowAssumption, Zenon
  <2>2. ASSUME row.data \in Callers
        PROVE  /\ row.active \in Acts /\ row.active < row.seq /\ row.state \in NoDraftStates
               /\ future'[row.active] = row.data
    BY <1>4, <2>2, Zenon DEF RowInv, SubmissionOnRow
  <2>3. CASE row' = row
    BY <2>2, <2>3, Zenon
  <2>4. CASE /\ row' # row /\ row'.data = row.data /\ row'.active = row.active
             /\ row'.state \in NoDraftStates
    <3>1. row'.seq >= row.seq /\ row'.seq \in Nat /\ row.seq \in Nat /\ row.active \in Nat
      BY <1>1, <1>2, <2>4, RowWriteEffect, RowFacts, Zenon DEF FlowTypeOK
    <3> QED BY <2>2, <2>4, <3>1
  <2>5. ASSUME NEW c \in Callers, sub[c].pc = "write", sub[c].step = row.active, row'.data = c,
               row'.active = row.active, row'.active < row'.seq, row'.state \in NoDraftStates
        PROVE  row'.active \in Acts /\ future'[row'.active] = row'.data
    BY <1>4, <2>5, Zenon DEF RowInv, CallsAccepted
  <2> QED BY <1>2, <2>1, <2>3, <2>4, <2>5, RowWriteEffect, Zenon
<1>6. CallsAccepted'
  <2>1. \A c \in Callers : sub[c].pc = "write" => future'[sub[c].step] = c
    BY <1>4, Zenon DEF RowInv, CallsAccepted
  <2>2. CASE UNCHANGED sub
    BY <2>1, <2>2, Zenon DEF RowInv, CallsAccepted
  <2>3. ASSUME NEW c \in Callers, row.active # NoStep,
               sub' = [sub EXCEPT ![c] = ReadCall("call")]
        PROVE  CallsAccepted'
    <3>1. row.active \in Acts /\ row.active <= row.seq
      BY <2>3, RowFacts, Zenon
    <3>2. \A d \in Callers : sub'[d] = IF d = c THEN ReadCall("call") ELSE sub[d]
      BY <1>0, <2>3, Zenon DEF FlowTypeOK
    <3>3. \A d \in Callers : d # c =>
             /\ sub'[d].pc # "idle" => sub'[d].step \in Acts /\ sub'[d].step <= sub'[d].seq
             /\ sub'[d].pc = "write" => future'[sub'[d].step] = d
      BY <2>1, <3>2, Zenon DEF RowInv, CallsAccepted
    <3>4. sub'[c].pc = "call" /\ sub'[c].step \in Acts /\ sub'[c].step <= sub'[c].seq
      BY <3>1, <3>2 DEF ReadCall
    <3> QED BY <3>3, <3>4, Zenon DEF CallsAccepted
  <2>4. ASSUME NEW c \in Callers, sub' = [sub EXCEPT ![c] = Idle] PROVE CallsAccepted'
    <3>1. \A d \in Callers : sub'[d] = IF d = c THEN Idle ELSE sub[d]
      BY <1>0, <2>4, Zenon DEF FlowTypeOK
    <3>2. \A d \in Callers : d # c =>
             /\ sub'[d].pc # "idle" => sub'[d].step \in Acts /\ sub'[d].step <= sub'[d].seq
             /\ sub'[d].pc = "write" => future'[sub'[d].step] = d
      BY <2>1, <3>1, Zenon DEF RowInv, CallsAccepted
    <3>3. sub'[c].pc = "idle"
      BY <3>1 DEF Idle
    <3> QED BY <3>2, <3>3, Zenon DEF CallsAccepted
  <2>5. ASSUME NEW c \in Callers, sub[c].pc = "call", CompleteActivation(sub[c].step, c),
               sub' = [sub EXCEPT ![c].pc = "write"]
        PROVE  CallsAccepted'
    <3>1. sub[c].step \in Acts /\ sub[c].step <= sub[c].seq
      BY <2>5, Zenon DEF RowInv, CallsAccepted
    <3>2. future'[sub[c].step] = c
      BY <1>0, <2>5, <3>1, Zenon DEF CompleteActivation, UpdateActivation, Answer, TypeOK
    <3>3. sub[c] \in Call /\ sub \in [Callers -> Call]
      BY <1>0, Zenon DEF FlowTypeOK
    <3>4. /\ sub'[c].step = sub[c].step /\ sub'[c].seq = sub[c].seq
          /\ \A d \in Callers : d # c => sub'[d] = sub[d]
      BY <2>5, <3>3, Zenon DEF Call
    <3>5. \A d \in Callers : d # c =>
             /\ sub'[d].pc # "idle" => sub'[d].step \in Acts /\ sub'[d].step <= sub'[d].seq
             /\ sub'[d].pc = "write" => future'[sub'[d].step] = d
      BY <2>1, <3>4, Zenon DEF RowInv, CallsAccepted
    <3> QED BY <3>1, <3>2, <3>4, <3>5, Zenon DEF CallsAccepted
  <2> QED BY <1>0, <2>2, <2>3, <2>4, <2>5, CallStep, Zenon DEF SubWrite
<1> QED BY <1>1, <1>3, <1>5, <1>6, Zenon DEF RowInv

\* A task that was never started satisfies it.
LEMMA RowInvInit == FlowInit => RowInv
<1> SUFFICES ASSUME FlowInit PROVE RowInv
  BY Zenon
<1>1. ActivationInv /\ TypeOK
  BY InitInv, Zenon DEF FlowInit, ActivationInv
<1>2. row \in [state : RowStates, active : Acts \cup {NoStep}, seq : Nat,
               data : Callers \cup Writers]
  BY Zenon DEF FlowInit, NoRow, RowStates, Writers, NoStep
<1>3. FlowTypeOK
  <2>1. rerun \in BOOLEAN
    BY Zenon DEF FlowInit
  <2>2. 0 \in 0 .. MaxAttempts /\ 0 \in 0 .. MaxCancels /\ 0 \in Nat
    BY FlowAssumption
  <2> QED BY <1>1, <1>2, <2>1, <2>2, Zenon
      DEF FlowTypeOK, FlowInit, AttemptSteps, Call, Idle, NoStep
<1>4. RowOrdered /\ SubmissionOnRow /\ CallsAccepted
  BY FlowAssumption
  DEF FlowInit, NoRow, Idle, Writers, RowOrdered, SubmissionOnRow, CallsAccepted, NoStep
<1> QED BY <1>1, <1>3, <1>4, Zenon DEF RowInv

\* What every step keeps during the first run of the workflow holds for as long as it has
\* run once.
LEMMA FirstRunStep ==
    ASSUME FlowTypeOK, [FlowNext]_vars, ~rerun'
    PROVE  ~rerun /\ [FlowSteps]_vars
<1>1. ~StartTaskFindsClosed
  BY Zenon DEF StartTaskFindsClosed
<1>2. [FlowSteps]_vars
  BY <1>1, Zenon DEF FlowNext
<1>3. rerun' = rerun
  BY <1>2, CallStep, Zenon
<1> QED BY <1>2, <1>3, Zenon

\* The engine between two runs is as it was before the first.
LEMMA ForgottenInv == ASSUME RunForgotten PROVE ActivationInv'
<1>1. /\ wf' = "NONE" /\ seq' = 0 /\ phase' = "none" /\ pending' = {} /\ parked' = {}
      /\ \A a \in Acts : future'[a] = "unset" /\ outcome'[a] = "none"
  BY Zenon DEF RunForgotten
<1>2. TypeOK'
  <2>1. seq' \in 0 .. MaxSeq /\ parking' \in Nat
    BY BoundsAssumption DEF RunForgotten
  <2> QED BY <2>1, Zenon DEF RunForgotten, TypeOK
<1>3. OneOpenStep' /\ ForceParkHonoured'
  BY <1>1, Zenon DEF OneOpenStep, ForceParkHonoured
<1>4. OpenIsUnanswered'
  BY <1>1, Zenon DEF OpenIsUnanswered
<1>5. LaterUntouched'
  BY <1>1, Zenon DEF LaterUntouched
<1> QED BY <1>2, <1>3, <1>4, <1>5, Zenon DEF ActivationInv

\* Types and the order of the row's counters are kept by every step, a second run of the
\* workflow included.
TypedOrder == FlowTypeOK /\ ActivationInv /\ RowOrdered

LEMMA TypedOrderStep == TypedOrder /\ [FlowNext]_vars => TypedOrder'
<1> SUFFICES ASSUME TypedOrder, [FlowNext]_vars PROVE TypedOrder'
  BY Zenon
<1>0. FlowTypeOK /\ ActivationInv /\ RowOrdered
  BY Zenon DEF TypedOrder
<1>1. CASE StartTaskFindsClosed
  <2>1. ActivationInv' /\ TypeOK'
    BY <1>1, ForgottenInv, Zenon DEF StartTaskFindsClosed, ActivationInv
  <2>2. FlowTypeOK'
    BY <1>0, <1>1, <2>1, Zenon DEF StartTaskFindsClosed, FlowTypeOK, runVars
  <2>3. RowOrdered'
    BY <1>0, <1>1, Zenon DEF StartTaskFindsClosed, RowOrdered
  <2> QED BY <2>1, <2>2, <2>3, Zenon DEF TypedOrder
<1>2. CASE [FlowSteps]_vars
  <2>1. FlowTypeOK' /\ ActivationInv'
    BY <1>0, <1>2, FlowTyped, Zenon
  <2>2. CASE row' = row
    BY <1>0, <2>1, <2>2, Zenon DEF TypedOrder, RowOrdered
  <2>3. CASE row' # row
    BY <1>0, <1>2, <2>1, <2>3, RowStep, WriteMoves, Zenon DEF TypedOrder, RowOrdered
  <2> QED BY <2>2, <2>3, Zenon
<1> QED BY <1>1, <1>2, Zenon DEF FlowNext

\* Every variable of the task keeps its type, and the row's version is never behind its
\* active step.
THEOREM TypedOrderInvariance == FlowSpec => []TypedOrder
<1>1. FlowInit => TypedOrder
  BY RowInvInit, Zenon DEF RowInv, TypedOrder
<1> QED BY <1>1, TypedOrderStep, PTL DEF FlowSpec

\* No write takes the row back to an earlier version or step, in any run of the workflow.
THEOREM RowsNeverRewind == FlowSpec => RowNeverRewinds
<1>1. TypedOrder /\ [FlowNext]_vars => [row'.seq >= row.seq /\ row'.active >= row.active]_vars
  <2> SUFFICES ASSUME TypedOrder, [FlowNext]_vars
               PROVE  row'.seq >= row.seq /\ row'.active >= row.active
    BY Zenon
  <2>0. FlowTypeOK /\ RowOrdered
    BY Zenon DEF TypedOrder
  <2>1. CASE row' = row
    BY <2>0, <2>1, RowShape
  <2>2. CASE row' # row
    <3>1. [FlowSteps]_vars
      BY <2>2, Zenon DEF FlowNext, StartTaskFindsClosed
    <3> QED BY <2>0, <2>2, <3>1, RowStep, WriteMoves, Zenon
  <2> QED BY <2>1, <2>2, Zenon
<1> QED BY <1>1, TypedOrderInvariance, PTL DEF FlowSpec, RowNeverRewinds

\* A task's workflow is a sequence of runs of the engine: what is proved of the engine
\* holds of each of them.
THEOREM FlowImplementsEngine == FlowSpec => Init /\ [][Next \/ RunForgotten]_engineVars
<1>1. FlowInit => Init
  BY Zenon DEF FlowInit
<1>2. TypedOrder /\ [FlowNext]_vars => [Next \/ RunForgotten]_engineVars
  BY EngineStep, Zenon DEF TypedOrder, FlowTypeOK, FlowNext, StartTaskFindsClosed
<1> QED BY <1>1, <1>2, TypedOrderInvariance, PTL DEF FlowSpec

\* In the first run of the workflow the invariant of the row holds for every order of the
\* calls, retries, late attempts, cancellations and failures.
THEOREM RowInvariance == FlowSpec => [](~rerun => RowInv)
<1>1. TypedOrder /\ (~rerun => RowInv) /\ [FlowNext]_vars => (~rerun => RowInv)'
  BY FirstRunStep, RowInvStep, Zenon DEF TypedOrder
<1> QED BY <1>1, RowInvInit, TypedOrderInvariance, PTL DEF FlowSpec

\* The submission on the row is the one that the workflow accepted.
THEOREM PersistedWasAccepted == FlowSpec => []PersistedIsAccepted
<1>1. (~rerun => RowInv) => PersistedIsAccepted
  BY Zenon DEF RowInv, SubmissionOnRow, PersistedIsAccepted
<1> QED BY <1>1, RowInvariance, PTL

\* Nothing replaces a submission on the row while its step is the active one.
THEOREM SubmissionsAreKept == FlowSpec => SubmissionKept
<1>1. (~rerun => RowInv) /\ [FlowNext]_vars =>
        [~rerun /\ row.data \in Callers /\ row'.active = row.active => row'.data = row.data]_vars
  <2> SUFFICES ASSUME RowInv, [FlowNext]_vars, row.data \in Callers, row'.active = row.active,
                      row' # row
               PROVE  row'.data = row.data
    BY Zenon
  <2>1. RowWrite /\ future[row.active] = row.data
    BY RowStep, Zenon DEF RowInv, SubmissionOnRow, FlowNext, StartTaskFindsClosed
  <2>2. \A c \in Callers : sub[c].pc = "write" /\ sub[c].step = row.active => c = row.data
    BY <2>1, Zenon DEF RowInv, CallsAccepted
  <2> QED BY <2>1, <2>2, RowWriteEffect, Zenon
<1> QED BY <1>1, RowInvariance, PTL DEF FlowSpec, SubmissionKept

=============================================================================
