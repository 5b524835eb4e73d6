----------------------------- MODULE Activation -----------------------------
(***************************************************************************)
(* The life of the steps of one graph-interpreter workflow (package        *)
(* workflow/).  A workflow runs one node at a time; every run of a node    *)
(* takes the next value of a workflow-wide counter and is an activation.   *)
(* An activation of a TASK node is answered from outside, through the      *)
(* CompleteActivation or the ForceParkActivation Update, while its         *)
(* Activity runs or after the Activity suspended.  A node that fails       *)
(* parks until an admin signal resolves it.                                *)
(*                                                                         *)
(* A workflow function runs single-threaded between two points where it    *)
(* waits, so an action here is the stretch of code from one such point to  *)
(* the next.  The graph is not fixed: which node follows is a choice from  *)
(* Kinds, so every loop and every path is a behaviour.                     *)
(***************************************************************************)
EXTENDS Integers, FiniteSets

CONSTANTS
    MaxSeq,         \* bound: how many node runs a workflow may make
    MaxParkings,    \* bound: no resolution that parks the node again is sent after
                    \* this many parkings
    MaxSignals,     \* bound: admin signals on their way at one time
    Kinds,          \* the kinds of node that the graph may contain
    Callers         \* those who may complete a step

\* A FORM is a TASK whose handler suspends, a CALL is one whose handler answers
\* at once.  The engine treats them alike: it only learns which from the result.
TaskKinds == {"FORM", "CALL"}
RoutingKinds == {"GATEWAY", "TIMER"}
AllKinds == TaskKinds \cup RoutingKinds \cup {"END"}

ASSUME BoundsAssumption ==
    /\ MaxSeq \in Nat /\ MaxSeq >= 2
    /\ MaxParkings \in Nat
    /\ MaxSignals \in Nat
ASSUME KindsAssumption == Kinds \subseteq AllKinds /\ "END" \in Kinds
ASSUME CallersAssumption == "unset" \notin Callers /\ "park" \notin Callers

\* The START node takes run 1 and moves on without waiting, so it is never seen.
Acts == 1 .. MaxSeq
Actions == {"RETRY", "COMPLETE", "ABORT", "UNKNOWN"}
Answers == Callers \cup {"park"}

VARIABLES
    wf,         \* the execution: NONE, RUNNING, COMPLETED, FAILED or TERMINATED
    seq,        \* graphInterpreter.seq, also the identity of the current activation
    kind,       \* kind of the node each activation ran
    phase,      \* where the current node is
    pending,    \* the keys of pendingCompletions
    future,     \* what each activation's Settable was set to
    parked,     \* the keys of pendingAdminResolutions
    notice,     \* the AdminParkActivity of the current parking
    parking,    \* how many parkings there have been
    resolution, \* the admin's action, once received
    signals,    \* AdminResolutionSignals sent and not yet received
    outcome     \* history: how each TASK activation ended

engineVars == <<wf, seq, kind, phase, pending, future, parked, notice, parking,
                resolution, signals, outcome>>

\* A signal names the activation whose parking its sender saw.
Signal == [act : Acts, action : Actions]

TypeOK ==
    /\ wf \in {"NONE", "RUNNING", "COMPLETED", "FAILED", "TERMINATED"}
    /\ seq \in 0 .. MaxSeq
    /\ kind \in [Acts -> AllKinds \cup {"none"}]
    /\ phase \in {"none", "RUNNING", "SUSPENDED", "PARKED", "JOINING"}
    /\ pending \subseteq Acts
    /\ future \in [Acts -> Answers \cup {"unset"}]
    /\ parked \subseteq Acts
    /\ notice \in {"none", "sent", "done"}
    /\ parking \in Nat
    /\ resolution \in Actions \cup {"none"}
    /\ signals \subseteq Signal
    /\ outcome \in [Acts -> {"none", "submitted", "sync", "unmapped", "parked"}]

Init ==
    /\ wf = "NONE"
    /\ seq = 0
    /\ kind = [a \in Acts |-> "none"]
    /\ phase = "none"
    /\ pending = {}
    /\ future = [a \in Acts |-> "unset"]
    /\ parked = {}
    /\ notice = "none"
    /\ parking = 0
    /\ resolution = "none"
    /\ signals = {}
    /\ outcome = [a \in Acts |-> "none"]

\* The run is over and another is to start under its ID: what it left is forgotten, and
\* with it the signals that it did not receive.
RunForgotten ==
    /\ wf \in {"COMPLETED", "FAILED", "TERMINATED"}
    /\ wf' = "NONE" /\ seq' = 0 /\ phase' = "none"
    /\ kind' = [a \in Acts |-> "none"]
    /\ pending' = {} /\ parked' = {} /\ signals' = {}
    /\ future' = [a \in Acts |-> "unset"]
    /\ notice' = "none" /\ parking' = 0 /\ resolution' = "none"
    /\ outcome' = [a \in Acts |-> "none"]

-----------------------------------------------------------------------------
(***************************************************************************)
(* What a node does as it starts, and as it parks.                         *)
(***************************************************************************)

\* The node of activation n parks: it registers for a resolution in the same
\* stretch in which it starts the notification, so no signal falls between.
ParkAt(n) ==
    /\ phase' = "PARKED"
    /\ parked' = parked \cup {n}
    /\ notice' = "sent"
    /\ parking' = parking + 1

\* A run of a node of kind k starts as activation n.  A TASK first maps its
\* inputs; if one is missing the node parks before it has registered its step.
\* others is pendingCompletions without the step that was just left.
Dispatch(n, k, others) ==
    /\ n <= MaxSeq /\ (n = MaxSeq => k = "END")
    /\ seq' = n
    /\ kind' = [kind EXCEPT ![n] = k]
    /\ \/ /\ phase' = "RUNNING"
          /\ pending' = IF k \in TaskKinds THEN others \cup {n} ELSE others
          /\ UNCHANGED <<parked, notice, parking>>
       \/ /\ k \in TaskKinds
          /\ ParkAt(n)
          /\ pending' = others

\* transitionTo: the graph follows an edge to some node.
MoveOn(others) == \E k \in Kinds : Dispatch(seq + 1, k, others)

Ends(o) == outcome' = [outcome EXCEPT ![seq] = o]

Running(ph) == wf = "RUNNING" /\ phase = ph

StartWorkflow ==
    /\ wf = "NONE"
    /\ wf' = "RUNNING"
    /\ \E k \in Kinds : Dispatch(2, k, pending)
    /\ UNCHANGED <<future, resolution, signals, outcome>>

-----------------------------------------------------------------------------
(***************************************************************************)
(* TASK nodes: the Activity, the two Updates, and what the node takes.     *)
(***************************************************************************)

\* pendingCompletions once the node has called unregister.
UnregisterNothing == pending
Unregister == pending \ {seq}

ParkStep(o) ==
    /\ ParkAt(seq)
    /\ Ends(o)
    /\ pending' = Unregister
    /\ UNCHANGED <<seq, kind>>

\* The node has its result and maps it into the variables.  An output that is
\* missing parks the node, with the result kept for the admin to see.
TakeResult(o) ==
    \/ MoveOn(Unregister) /\ Ends(o)
    \/ ParkStep("unmapped")

TaskRuns == Running("RUNNING") /\ kind[seq] \in TaskKinds

\* The Activity's handler completed the step itself.  A completion that was
\* accepted meanwhile is not looked at; a force-park is.
TakeSync == IF future[seq] = "park" THEN ParkStep("parked") ELSE TakeResult("sync")

ActivitySucceeds ==
    /\ TaskRuns
    /\ TakeSync
    /\ UNCHANGED <<wf, future, resolution, signals>>

\* The handler returned ErrResultPending: the node waits on its Future.
ActivitySuspendsAfresh ==
    /\ TaskRuns
    /\ phase' = "SUSPENDED"
    /\ future' = [future EXCEPT ![seq] = "unset"]
    /\ UNCHANGED <<wf, seq, kind, pending, parked, notice, parking, resolution,
                   signals, outcome>>

ActivitySuspends ==
    /\ TaskRuns
    /\ phase' = "SUSPENDED"
    /\ UNCHANGED <<wf, seq, kind, pending, future, parked, notice, parking,
                   resolution, signals, outcome>>

\* The Activity failed for good: a non-retryable error, or no attempt is left.
\* What the Future holds is not read.
ActivityFails ==
    /\ TaskRuns
    /\ ParkStep("parked")
    /\ UNCHANGED <<wf, future, resolution, signals>>

\* A suspended node's Future is ready.
ResumeSuspended ==
    /\ Running("SUSPENDED")
    /\ future[seq] # "unset"
    /\ IF future[seq] = "park" THEN ParkStep("parked") ELSE TakeResult("submitted")
    /\ UNCHANGED <<wf, future, resolution, signals>>

\* The handler of both Updates, behind their validator: v is a caller's output,
\* or "park".  A call for a step that is not pending, or to a workflow that has
\* ended, is refused and changes nothing.
Answer(a, v) ==
    /\ wf = "RUNNING"
    /\ a \in pending
    /\ pending' = pending \ {a}
    /\ future' = [future EXCEPT ![a] = v]

UpdateActivation(a, v) ==
    /\ Answer(a, v)
    /\ UNCHANGED <<wf, seq, kind, phase, parked, notice, parking, resolution,
                   signals, outcome>>

CompleteActivation(a, c) == UpdateActivation(a, c)
ForceParkActivation(a) == UpdateActivation(a, "park")

-----------------------------------------------------------------------------
(***************************************************************************)
(* The other nodes.                                                        *)
(***************************************************************************)

\* A gateway or a timer passes on, or parks on a definition or condition error.
RouteNode ==
    /\ Running("RUNNING") /\ kind[seq] \in RoutingKinds
    /\ \/ MoveOn(pending)
       \/ ParkAt(seq) /\ UNCHANGED <<seq, kind, pending>>
    /\ UNCHANGED <<wf, future, resolution, signals, outcome>>

EndRuns == Running("RUNNING") /\ kind[seq] = "END"

\* The completion Activity of the END node of a top-level workflow.
EndSucceeds ==
    /\ EndRuns
    /\ wf' = "COMPLETED"
    /\ UNCHANGED <<seq, kind, phase, pending, future, parked, notice, parking,
                   resolution, signals, outcome>>

EndFails ==
    /\ EndRuns
    /\ ParkAt(seq)
    /\ UNCHANGED <<wf, seq, kind, pending, future, resolution, signals, outcome>>

TerminateWorkflow ==
    /\ wf = "RUNNING"
    /\ wf' = "TERMINATED"
    /\ UNCHANGED <<seq, kind, phase, pending, future, parked, notice, parking,
                   resolution, signals, outcome>>

-----------------------------------------------------------------------------
(***************************************************************************)
(* Parking and its resolution.                                             *)
(***************************************************************************)

\* An admin who has seen the current parking sends a resolution for it.  The
\* bounds keep a retry within MaxSeq and the re-parkings finite.
ResolveAdminIntervention(act) ==
    /\ Running("PARKED")
    /\ act = "RETRY" => seq + 1 < MaxSeq
    /\ act \in {"COMPLETE", "UNKNOWN"} => parking < MaxParkings
    /\ Cardinality(signals) < MaxSignals
    /\ signals' = signals \cup {[act |-> seq, action |-> act]}
    /\ UNCHANGED <<wf, seq, kind, phase, pending, future, parked, notice, parking,
                   resolution, outcome>>

\* The dispatcher looks the signal's ActivationID up among the parked nodes.
AddressesAnyParking(s) == parked # {}
Addresses(s) == s.act \in parked

\* A signal that addresses no parked node is dropped.
AdminSignal(s) ==
    /\ wf = "RUNNING"
    /\ s \in signals
    /\ signals' = signals \ {s}
    /\ IF Addresses(s)
         THEN /\ resolution' = s.action
              /\ phase' = "JOINING"
              /\ parked' = parked \ {s.act}
         ELSE UNCHANGED <<resolution, phase, parked>>
    /\ UNCHANGED <<wf, seq, kind, pending, future, notice, parking, outcome>>

\* AdminParkActivity ended: the handler returned or failed, or its 30 seconds
\* are over.  It is not retried.
NoticeNeverReturns == FALSE
NoticeReturns ==
    /\ wf = "RUNNING"
    /\ notice = "sent"
    /\ notice' = "done"
    /\ UNCHANGED <<wf, seq, kind, phase, pending, future, parked, parking,
                   resolution, signals, outcome>>

\* parkNodeForAdmin has the resolution and has joined the notification.
Resolve(act) ==
    /\ Running("JOINING")
    /\ notice = "done"
    /\ resolution = act
    /\ resolution' = "none"
    /\ UNCHANGED <<future, signals, outcome>>

ResolveAbort ==
    /\ Resolve("ABORT")
    /\ wf' = "FAILED"
    /\ UNCHANGED <<seq, kind, phase, pending, parked, notice, parking>>

\* The node runs again, as a new activation.
RetrySameNumber == seq
RetryNumber == seq + 1
ResolveRetry ==
    /\ Resolve("RETRY")
    /\ Dispatch(RetryNumber, kind[seq], pending)
    /\ UNCHANGED wf

\* The patch stands in for the node's output.  END has no outgoing edge, so a
\* completed END ends the workflow, and its completion Activity is not run.
ResolveComplete ==
    /\ Resolve("COMPLETE")
    /\ kind[seq] # "GATEWAY"
    /\ IF kind[seq] = "END"
         THEN /\ wf' = "COMPLETED"
              /\ UNCHANGED <<seq, kind, phase, pending, parked, notice, parking>>
         ELSE MoveOn(pending) /\ UNCHANGED wf

\* COMPLETE of a gateway and an unrecognized action park the node again, under
\* the same activation, and notify again.
ResolveRefused ==
    /\ \/ Resolve("COMPLETE") /\ kind[seq] = "GATEWAY"
       \/ Resolve("UNKNOWN")
    /\ ParkAt(seq)
    /\ UNCHANGED <<wf, seq, kind, pending>>

-----------------------------------------------------------------------------
Updates ==
    \E a \in Acts : \/ \E c \in Callers : CompleteActivation(a, c)
                    \/ ForceParkActivation(a)

Resolutions == ResolveAbort \/ ResolveRetry \/ ResolveComplete \/ ResolveRefused

Next ==
    \/ StartWorkflow
    \/ ActivitySucceeds \/ ActivitySuspends \/ ActivityFails
    \/ ResumeSuspended
    \/ Updates
    \/ RouteNode \/ EndSucceeds \/ EndFails
    \/ \E act \in Actions : ResolveAdminIntervention(act)
    \/ \E s \in signals : AdminSignal(s)
    \/ NoticeReturns
    \/ Resolutions
    \/ TerminateWorkflow

Spec == Init /\ [][Next]_engineVars

-----------------------------------------------------------------------------
(***************************************************************************)
(* The promise that the engine implements: where each step is, as the host *)
(* sees it.                                                                *)
(***************************************************************************)
stepBar ==
    [a \in Acts |-> IF a \in pending THEN "open"
                    ELSE IF outcome[a] # "none" THEN "closed"
                    ELSE IF future[a] # "unset" THEN "answered"
                    ELSE "none"]

Once == INSTANCE ActivationOnce
            WITH Steps <- Acts, AllAnswers <- Answers, step <- stepBar, answer <- future

\* Every behaviour of the engine is one that the promise allows.
ImplementsOnce == Once!OnceSpec

-----------------------------------------------------------------------------
(***************************************************************************)
(* Properties.                                                             *)
(***************************************************************************)

\* A force-park that was accepted is honoured however the Activity then ends:
\* the step never goes on as completed (the completion.IsReady() case of
\* handleTaskNode).
ForceParkHonoured ==
    \A a \in Acts : future[a] = "park" => outcome[a] \in {"none", "parked"}

\* At most the current activation is open to an answer, or to a resolution.
OneOpenStep ==
    /\ pending \subseteq {seq}
    /\ parked = IF phase = "PARKED" THEN {seq} ELSE {}

\* An open step is a TASK that runs or waits, with no answer and no outcome yet; a
\* step that runs or waits and is not open has its answer.
OpenIsUnanswered ==
    \A a \in Acts :
        /\ a \in pending => /\ kind[a] \in TaskKinds
                            /\ phase \in {"RUNNING", "SUSPENDED"}
                            /\ future[a] = "unset"
        /\ a = seq /\ phase \in {"RUNNING", "SUSPENDED"} /\ kind[a] \in TaskKinds =>
             /\ outcome[a] = "none"
             /\ a \notin pending => future[a] # "unset"

\* What has not run yet is untouched, and a step that was answered is one that
\* runs, waits or has an outcome.
LaterUntouched ==
    /\ \A a \in Acts : a > seq => future[a] = "unset" /\ outcome[a] = "none"
    /\ (wf = "NONE") = (seq = 0)
    /\ phase = "SUSPENDED" => kind[seq] \in TaskKinds
    /\ (phase = "none") = (seq = 0)
    /\ \A a \in Acts : future[a] # "unset" /\ outcome[a] = "none" =>
          a = seq /\ kind[a] \in TaskKinds /\ phase \in {"RUNNING", "SUSPENDED"}

\* The inductive invariant of the engine: never are two activations open at once,
\* and an activation is left before the next one opens (expectCompletion and
\* unregister in handleTaskNode, awaitAdminResolution).
ActivationInv ==
    TypeOK /\ OneOpenStep /\ OpenIsUnanswered /\ LaterUntouched /\ ForceParkHonoured

\* Of several completions and force-parks of one step exactly one is accepted:
\* an answer that was given is never replaced by another caller's
\* (registerCompletionHandler takes the step out of pendingCompletions first).
AnswerIsFinal ==
    [][\A a \in Acts : future[a] # "unset" => future'[a] = future[a]]_engineVars

\* A step takes an answer only while its own node is running its Activity or
\* waiting for the answer: never after it was left, and never once the node has
\* been retried under a new activation (unregister on every way out of
\* handleTaskNode).
AnsweredOnlyWhileWaiting ==
    [][\A a \in Acts : future'[a] # future[a] =>
          a = seq /\ kind[a] \in TaskKinds /\ phase \in {"RUNNING", "SUSPENDED"}]_engineVars

\* A resolution ends a parking of the activation it was sent for: a late signal
\* for one run of a node never resolves a later run (routing by ActivationID).
ResolvedByOwnSignal ==
    [][phase = "PARKED" /\ phase' = "JOINING" =>
          \E s \in signals \ signals' : s.act = seq]_engineVars

\* Once a step has its answer its node leaves it: the answer given while the
\* Activity was still running is not forgotten when it suspends.
AnsweredStepEnds ==
    \A a \in Acts : (future[a] # "unset") ~> (outcome[a] # "none" \/ wf = "TERMINATED")

\* A resolution that was received takes effect, whatever became of the park
\* notification (parkNodeForAdmin joins it before it acts).
ResolutionTakesEffect == (phase = "JOINING") ~> (phase # "JOINING" \/ wf # "RUNNING")

=============================================================================
