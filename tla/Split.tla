------------------------------- MODULE Split -------------------------------
(***************************************************************************)
(* A node that runs child workflows: a SPLIT_TASK in one of its failure    *)
(* modes, or a BATCH or PARALLEL split (mode GATEWAY), which awaits its    *)
(* children one after the other (dynamic_split.go, batch_gateway.go,       *)
(* parallel_gateway.go).  A branch keeps its workflow ID from one visit of *)
(* the node to the next, so children of an earlier visit that still run    *)
(* get in the way of the next one.                                         *)
(*                                                                         *)
(* The branches of a SPLIT_TASK run the rendezvous of the README: a step,  *)
(* EMIT, one WAIT for each sibling, another step (signaling.go).  Their    *)
(* broadcasts go through the signal channel of the parent, which keeps     *)
(* what nobody has received, across the visits of the node.                *)
(***************************************************************************)
EXTENDS Integers, Sequences, FiniteSets

CONSTANTS
    N,              \* branches of the split
    Modes,          \* kinds of split: failure modes, and GATEWAY
    MaxVisits       \* bound: visits of the node (first run, retries, loops)

ASSUME SplitAssumption == N \in Nat \ {0} /\ MaxVisits \in Nat \ {0}

VARIABLES
    mode,       \* the kind of split
    phase,      \* the node in its workflow
    visit,      \* the number of this visit
    future,     \* what the parent knows of each child of this visit
    handled,    \* the branches whose end the parent has seen
    child,      \* the execution that last ran under each branch's workflow ID
    inbox,      \* the parent's signal channel: visit and branch of each broadcast
    results,    \* the visit of which each branch's results were committed
    sent,       \* history: visits and branches that have broadcast
    clean       \* history: visits that began with no child open and an empty channel

splitVars == <<mode, phase, visit, future, handled, child, inbox, results, sent, clean>>

Branches == 1 .. N
Closed == {"completed", "failed", "aborted", "canceled", "terminated"}
Passed == {"finishing", "completed"}
IsOpen(b) == child[b].st \notin Closed \cup {"none"}
IsSplitTask == mode # "GATEWAY"

\* An execution of a child.  at: the state that it parked in; due, got: signals on their
\* way to it and in its channel; left: WAITs still to pass; took: history, the signals
\* that its WAITs have received.
Execution(v, st) ==
    [visit |-> v, st |-> st, at |-> "working", cancel |-> "none",
     due |-> 0, got |-> 0, left |-> N - 1, took |-> 0]
NoChild == Execution(0, "none")

\* What the end of a child means to the future of the visit that started it.
Outcome == [s \in Closed |-> IF s = "completed" THEN "ok" ELSE IF s = "aborted" THEN "aborted" ELSE "failed"]

-----------------------------------------------------------------------------
(***************************************************************************)
(* Child workflows.                                                        *)
(***************************************************************************)
Moves(b, st) ==
    /\ child' = [child EXCEPT ![b].st = st]
    /\ UNCHANGED <<mode, phase, visit, future, handled, inbox, results, sent, clean>>

\* A child ends, and its channel with it.  Its parent learns of it if it waits for this
\* very execution.
Ends(b, st) ==
    /\ child' = [child EXCEPT ![b] = Execution(child[b].visit, st)]
    /\ future' = [future EXCEPT ![b] = IF @ = "running" THEN Outcome[st] ELSE @]
    /\ UNCHANGED <<mode, phase, visit, handled, inbox, results, sent, clean>>

\* The first step waits for somebody outside, and is answered.
ChildSuspends(b) == child[b].st = "working" /\ child[b].cancel # "received" /\ Moves(b, "suspended")
ChildAnswered(b) == child[b].st = "suspended" /\ Moves(b, "working")

\* A branch waits for one signal after the other, and then goes on.
AtWait(left) == IF left = 0 THEN "finishing" ELSE "waiting"

handleSignalingEmit(b) ==
    /\ IsSplitTask
    /\ child[b].st = "working"
    /\ child[b].cancel # "received"
    /\ child' = [child EXCEPT ![b].st = AtWait(child[b].left)]
    /\ inbox' = Append(inbox, [visit |-> child[b].visit, from |-> b])
    /\ sent' = sent \cup {<<child[b].visit, b>>}
    /\ UNCHANGED <<mode, phase, visit, future, handled, results, clean>>

\* A signal reaches the channel of the child that it was sent to.
SignalArrives(b) ==
    /\ IsOpen(b)
    /\ child[b].due > 0
    /\ child' = [child EXCEPT ![b].due = child[b].due - 1, ![b].got = child[b].got + 1]
    /\ UNCHANGED <<mode, phase, visit, future, handled, inbox, results, sent, clean>>

\* A WAIT takes one signal from the child's channel.  It parks, with the signal taken,
\* when the outputs cannot be mapped.
handleSignalingWait(b) ==
    /\ child[b].st = "waiting"
    /\ child[b].cancel # "received"
    /\ child[b].got > 0
    /\ \/ child' = [child EXCEPT ![b].got = child[b].got - 1, ![b].took = child[b].took + 1,
                                  ![b].left = child[b].left - 1, ![b].st = AtWait(child[b].left - 1)]
       \/ child' = [child EXCEPT ![b].got = child[b].got - 1, ![b].took = child[b].took + 1,
                                  ![b].st = "parked", ![b].at = "waiting"]
    /\ UNCHANGED <<mode, phase, visit, future, handled, inbox, results, sent, clean>>

ChildCompletes(b) ==
    /\ child[b].st = IF IsSplitTask THEN "finishing" ELSE "working"
    /\ child[b].cancel # "received"
    /\ Ends(b, "completed")

\* A step of the child fails.  An admin retries the parked node, which discards the signal
\* that a WAIT had received, completes it in its place (of the other steps, that is as if
\* a retry had succeeded), or aborts the child.
ChildParks(b) ==
    /\ child[b].st \in {"working", "finishing"}
    /\ child[b].cancel # "received"
    /\ child' = [child EXCEPT ![b].st = "parked", ![b].at = child[b].st]
    /\ UNCHANGED <<mode, phase, visit, future, handled, inbox, results, sent, clean>>
ChildResumes(b) == child[b].st = "parked" /\ child[b].cancel # "received" /\ Moves(b, child[b].at)
ChildWaitCompleted(b) ==
    /\ child[b].st = "parked"
    /\ child[b].at = "waiting"
    /\ child[b].cancel # "received"
    /\ child' = [child EXCEPT ![b].left = child[b].left - 1, ![b].st = AtWait(child[b].left - 1)]
    /\ UNCHANGED <<mode, phase, visit, future, handled, inbox, results, sent, clean>>
ChildAborts(b) == child[b].st = "parked" /\ child[b].cancel # "received" /\ Ends(b, "aborted")

\* The child fails without parking: its definition is refused, or it is terminated.
ChildFails(b) == IsOpen(b) /\ Ends(b, "failed")

\* The request of a parent that fails fast reaches the child.
CancelArrives(b) ==
    /\ IsOpen(b)
    /\ child[b].cancel = "requested"
    /\ child' = [child EXCEPT ![b].cancel = "received"]
    /\ UNCHANGED <<mode, phase, visit, future, handled, inbox, results, sent, clean>>

\* A cancelled child ends at a call of Temporal.  Neither a step that waits for its
\* completion nor a parked node is one: their futures do not hear of the cancellation,
\* and the dispatcher that could resolve the latter has stopped.
ChildCanceled(b) ==
    /\ child[b].cancel = "received"
    /\ child[b].st \in {"working", "waiting", "finishing"}
    /\ Ends(b, "canceled")

-----------------------------------------------------------------------------
(***************************************************************************)
(* The node.                                                               *)
(***************************************************************************)

\* The split refuses its data or fetches no template: it parks and has no children.
SplitRefuses ==
    /\ phase = "ready"
    /\ phase' = "parked"
    /\ UNCHANGED <<mode, visit, future, handled, child, inbox, results, sent, clean>>

spawnChildWorkflows ==
    /\ phase = "ready"
    /\ phase' = IF IsSplitTask THEN "starting" ELSE "awaiting"
    /\ future' = [b \in Branches |-> "requested"]
    /\ handled' = {}
    /\ clean' = IF inbox = <<>> /\ \A b \in Branches : ~IsOpen(b) THEN clean \cup {visit} ELSE clean
    /\ UNCHANGED <<mode, visit, child, inbox, results, sent>>

\* Temporal starts the child, unless an execution with its ID is still open.
StartRefused(b) == IsOpen(b)
TemporalStarts(b) ==
    /\ future[b] = "requested"
    /\ phase \notin {"failed", "ended"}
    /\ IF StartRefused(b)
       THEN future' = [future EXCEPT ![b] = "refused"] /\ UNCHANGED child
       ELSE /\ future' = [future EXCEPT ![b] = "running"]
            /\ child' = [child EXCEPT ![b] = Execution(visit, "working")]
    /\ UNCHANGED <<mode, phase, visit, handled, inbox, results, sent, clean>>

\* A SPLIT_TASK waits for every start, and parks when one was refused.
AnyStarted == \E b \in Branches : future[b] # "refused"
AllStarted == \A b \in Branches : future[b] # "refused"
SplitStarted ==
    /\ phase = "starting"
    /\ \A b \in Branches : future[b] # "requested"
    /\ phase' = IF AllStarted THEN "awaiting" ELSE "parked"
    /\ UNCHANGED <<mode, visit, future, handled, child, inbox, results, sent, clean>>

\* The workflow fails, and Temporal terminates the children that are still open.
TerminateOpen ==
    [b \in Branches |-> IF IsOpen(b) THEN Execution(child[b].visit, "terminated") ELSE child[b]]

\* An error of the node parks it and leaves its children as given, unless it comes from
\* a child that an admin aborted: then the workflow fails.
NodeFails(terminal, left) ==
    /\ phase' = IF terminal THEN "failed" ELSE "parked"
    /\ child' = IF terminal THEN TerminateOpen ELSE left

\* A gateway awaits its children in the order of their edges.
GatewayAwaits ==
    /\ phase = "awaiting"
    /\ ~IsSplitTask
    /\ \E b \in Branches \ handled :
       /\ \A c \in Branches \ handled : b <= c
       /\ future[b] \notin {"requested", "running"}
       /\ IF future[b] = "ok"
          THEN /\ handled' = handled \cup {b}
               /\ phase' = IF handled' = Branches THEN "completed" ELSE phase
               /\ results' = IF handled' = Branches THEN [c \in Branches |-> child[c].visit] ELSE results
               /\ UNCHANGED child
          ELSE NodeFails(future[b] = "aborted", child) /\ UNCHANGED <<handled, results>>
    /\ UNCHANGED <<mode, visit, future, inbox, sent, clean>>

\* A sibling that the parent has not seen end is sent the broadcast, wherever it is: its
\* channel keeps the signal until a WAIT takes it.
HearsAtWait(b, from) == b \notin handled /\ b # from /\ child[b].st = "waiting"
Hears(b, from) == b \notin handled /\ b # from /\ IsOpen(b)

\* The parent hands on the oldest broadcast.
Multicast ==
    /\ phase = "awaiting"
    /\ IsSplitTask
    /\ inbox # <<>>
    /\ inbox' = Tail(inbox)
    /\ child' = [b \in Branches |->
                    IF Hears(b, Head(inbox).from) THEN [child[b] EXCEPT !.due = @ + 1] ELSE child[b]]
    /\ UNCHANGED <<mode, phase, visit, future, handled, results, sent, clean>>

\* The selector takes a child's end only when no broadcast is waiting.
EndsFirst == TRUE
BroadcastsFirst == inbox = <<>>

\* FAIL_FAST asks Temporal to cancel the children that it has not seen end.
CancelRemaining(b) ==
    [c \in Branches |-> IF c \notin handled \cup {b} /\ IsOpen(c)
                        THEN [child[c] EXCEPT !.cancel = "requested"] ELSE child[c]]

\* The loop goes on until the end of every branch has been seen.
AllButOneSeen(seen) == Cardinality(seen) >= N - 1
AllSeen(seen) == seen = Branches

\* The last end commits the results.  COLLECT_ALL then parks if a branch failed, even by
\* ABORT: its error holds the text of the branches' errors and not the errors.
monitorChildWorkflows(b) ==
    /\ phase = "awaiting"
    /\ IsSplitTask
    /\ BroadcastsFirst
    /\ b \notin handled
    /\ future[b] \in {"ok", "failed", "aborted"}
    /\ IF mode = "FAIL_FAST" /\ future[b] # "ok"
       THEN NodeFails(future[b] = "aborted", CancelRemaining(b)) /\ UNCHANGED <<handled, results>>
       ELSE /\ handled' = handled \cup {b}
            /\ IF AllSeen(handled')
               THEN /\ results' = [c \in Branches |-> child[c].visit]
                    /\ phase' = IF mode = "COLLECT_ALL" /\ \E c \in Branches : future[c] # "ok"
                                THEN "parked" ELSE "completed"
               ELSE UNCHANGED <<results, phase>>
            /\ UNCHANGED child
    /\ UNCHANGED <<mode, visit, future, inbox, sent, clean>>

\* The node is run again: after RETRY, or by a loop that leads back to it.  Starts of the
\* last visit have been answered by then.
Again ==
    /\ visit < MaxVisits
    /\ \A b \in Branches : future[b] # "requested"
    /\ visit' = visit + 1
    /\ phase' = "ready"
    /\ future' = [b \in Branches |-> "none"]
    /\ handled' = {}
    /\ UNCHANGED <<mode, child, inbox, results, sent, clean>>

AdminRetries == phase = "parked" /\ Again
LoopsBack == phase \in {"completed", "waved"} /\ Again

\* COMPLETE is refused for gateways.  The children, if any run, go on.
AdminCompletes ==
    /\ phase = "parked"
    /\ IsSplitTask
    /\ phase' = "waved"
    /\ UNCHANGED <<mode, visit, future, handled, child, inbox, results, sent, clean>>

AdminAborts ==
    /\ phase = "parked"
    /\ phase' = "failed"
    /\ child' = TerminateOpen
    /\ UNCHANGED <<mode, visit, future, handled, inbox, results, sent, clean>>

\* The workflow runs to its end.
ParentEnds ==
    /\ phase \in {"completed", "waved"}
    /\ phase' = "ended"
    /\ child' = TerminateOpen
    /\ UNCHANGED <<mode, visit, future, handled, inbox, results, sent, clean>>

SplitInit ==
    /\ mode \in Modes
    /\ phase = "ready"
    /\ visit = 1
    /\ future = [b \in Branches |-> "none"]
    /\ handled = {}
    /\ child = [b \in Branches |-> NoChild]
    /\ inbox = <<>>
    /\ results = [b \in Branches |-> 0]
    /\ sent = {}
    /\ clean = {}

ParentStep ==
    \/ SplitRefuses \/ spawnChildWorkflows \/ SplitStarted \/ GatewayAwaits \/ Multicast
    \/ \E b \in Branches : monitorChildWorkflows(b)
    \/ AdminRetries \/ LoopsBack \/ AdminCompletes \/ AdminAborts \/ ParentEnds

ChildStep(b) ==
    \/ TemporalStarts(b)
    \/ ChildSuspends(b) \/ ChildAnswered(b) \/ handleSignalingEmit(b)
    \/ SignalArrives(b) \/ handleSignalingWait(b) \/ ChildWaitCompleted(b)
    \/ ChildCompletes(b) \/ ChildParks(b) \/ ChildResumes(b) \/ ChildAborts(b) \/ ChildFails(b)
    \/ CancelArrives(b) \/ ChildCanceled(b)

SplitNext == ParentStep \/ \E b \in Branches : ChildStep(b)

\* Temporal hands signals and ends of children to the workflows that wait for them.
SplitFairness ==
    /\ WF_splitVars(Multicast)
    /\ \A b \in Branches : WF_splitVars(SignalArrives(b)) /\ WF_splitVars(handleSignalingWait(b))

SplitSpec == SplitInit /\ [][SplitNext]_splitVars /\ SplitFairness

-----------------------------------------------------------------------------
(***************************************************************************)
(* Properties.                                                             *)
(***************************************************************************)
Futures == {"none", "requested", "refused", "running", "ok", "failed", "aborted"}
Lives == {"none", "working", "suspended", "waiting", "finishing", "parked"} \cup Closed
Children == [visit : 0 .. MaxVisits, st : Lives, at : {"working", "waiting", "finishing"},
             cancel : {"none", "requested", "received"},
             due : Nat, got : Nat, left : Int, took : Nat]

SplitTypeOK ==
    /\ mode \in Modes
    /\ phase \in {"ready", "starting", "awaiting", "parked", "completed", "waved", "failed", "ended"}
    /\ visit \in 1 .. MaxVisits
    /\ future \in [Branches -> Futures]
    /\ handled \subseteq Branches
    /\ child \in [Branches -> Children]
    /\ results \in [Branches -> 0 .. MaxVisits]

\* What the futures say is so: a child that the parent awaits is open, and is the one
\* that this visit started; an end that it has seen is that child's.
FuturesTell ==
    \A b \in Branches :
        /\ future[b] = "running" => child[b].visit = visit /\ (IsOpen(b) \/ phase \in {"failed", "ended"})
        /\ future[b] \in {"ok", "failed", "aborted"} =>
              child[b].visit = visit /\ child[b].st \in Closed /\ Outcome[child[b].st] = future[b]
        /\ b \in handled => future[b] \in {"ok", "failed", "aborted"}
        /\ (b \in handled /\ mode \in {"GATEWAY", "FAIL_FAST"}) => future[b] = "ok"

\* How far the node has come in each phase.
PhaseTells ==
    /\ phase = "starting" => handled = {} /\ \A b \in Branches : future[b] # "none"
    /\ phase = "awaiting" => handled # Branches
    /\ (phase = "awaiting" /\ IsSplitTask) =>
          \A b \in Branches : future[b] \notin {"none", "requested", "refused"}
    /\ phase = "completed" =>
          /\ handled = Branches
          /\ results = [b \in Branches |-> visit]
          /\ mode = "COLLECT_ALL" => \A b \in Branches : future[b] = "ok"

NodeInv == SplitTypeOK /\ FuturesTell /\ PhaseTells

\* Where a child is in its rendezvous.
BeforeEmit(b) == \/ child[b].st \in {"working", "suspended"}
                 \/ child[b].st = "parked" /\ child[b].at = "working"
InWait(b) == \/ child[b].st = "waiting"
             \/ child[b].st = "parked" /\ child[b].at = "waiting"
BeforeWait(b) == BeforeEmit(b) \/ InWait(b)
AfterWait(b) == child[b].st \in Passed \/ (child[b].st = "parked" /\ child[b].at = "finishing")

\* The broadcast of branch b on visit v waits in the parent's channel.
InChannel(v, b) == \E i \in DOMAIN inbox : inbox[i] = [visit |-> v, from |-> b]

\* The broadcasts: each branch makes one a visit, after its first step, and the channel
\* holds some of them, no two of them the same.
BroadcastsTell ==
    /\ inbox \in Seq([visit : 1 .. MaxVisits, from : Branches])
    /\ \A i, j \in DOMAIN inbox : inbox[i] = inbox[j] => i = j
    /\ \A v \in 1 .. MaxVisits, b \in Branches :
          /\ InChannel(v, b) => <<v, b>> \in sent
          /\ <<v, b>> \in sent => v <= child[b].visit /\ (v = child[b].visit => ~BeforeEmit(b))

\* A child is of this visit if the parent started it, and of an earlier one otherwise.
VisitsTell ==
    /\ \A b \in Branches :
          /\ IsOpen(b) => child[b].visit >= 1
          /\ future[b] \in {"none", "requested", "refused"} => child[b].visit < visit
          /\ future[b] = "requested" => phase = "starting"
          /\ phase = "ready" => future[b] = "none"
    /\ \A v \in clean : v \in 1 .. visit
    /\ phase = "ready" => visit \notin clean

\* What child b has heard of: the broadcasts of its siblings that have left the channel.
Heard(b) == {c \in Branches \ {b} : <<child[b].visit, c>> \in sent /\ ~InChannel(child[b].visit, c)}

\* The signals that child b was sent.
Signals(b) == child[b].due + child[b].got + child[b].took

\* A child has received a signal for each WAIT that it passed, and for the one in which it
\* is parked.
WaitTells(b) ==
    /\ BeforeEmit(b) => child[b].left = N - 1 /\ child[b].took = 0
    /\ InWait(b) =>
          /\ child[b].left \in 1 .. N - 1
          /\ child[b].took + child[b].left >= (IF child[b].st = "parked" THEN N ELSE N - 1)
WaitsTell == \A b \in Branches : WaitTells(b)

\* A visit that began clean has the channel and the open children for itself, and each of
\* them counts what it has heard of.
CleanIsAlone ==
    /\ visit \in clean =>
          \A b \in Branches :
              /\ \A v \in 1 .. MaxVisits : InChannel(v, b) => v = visit
              /\ IsOpen(b) => child[b].visit = visit
              /\ phase = "starting" /\ <<visit, b>> \in sent => InChannel(visit, b)
    /\ \A b \in Branches : child[b].visit \in clean =>
          /\ BeforeWait(b) => Signals(b) = Cardinality(Heard(b))
          /\ AfterWait(b) => \A c \in Branches \ {b} : <<child[b].visit, c>> \in sent

\* Unless it fails fast, a split leaves neither children nor broadcasts behind.
NothingLeft ==
    mode # "FAIL_FAST" =>
        /\ phase \in {"ready", "parked", "completed", "waved"} =>
              inbox = <<>> /\ \A b \in Branches : ~IsOpen(b)
        /\ phase = "starting" =>
              \A b \in Branches : future[b] # "refused" /\ (future[b] = "requested" => ~IsOpen(b))
        /\ phase \in {"starting", "awaiting"} => visit \in clean

RendezvousInv == BroadcastsTell /\ VisitsTell /\ WaitsTell /\ CleanIsAlone /\ NothingLeft

\* The inductive invariant: the parent knows its own children, and only them, and the
\* branches of a SPLIT_TASK hear of each other once (spawnChildWorkflows,
\* monitorChildWorkflows, collectAndMergeBatchResults, handleSignalingEmit).
SplitInv == NodeInv /\ (IsSplitTask => RendezvousInv)

\* A split that completes by itself has seen the end of every child that it started on
\* this visit, none of its branches runs on, and the results that it committed are theirs;
\* unless failures are ignored they all completed.  Children of an earlier visit never
\* stand in for those of this one (handleSplitTaskNode, monitorChildWorkflows,
\* handleBatchSplitGateway, handleParallelSplitGateway).
CompletedIsWhole ==
    phase = "completed" =>
        \A b \in Branches :
            /\ child[b].visit = visit
            /\ child[b].st \in Closed
            /\ mode \in {"GATEWAY", "FAIL_FAST", "COLLECT_ALL"} => child[b].st = "completed"
            /\ results[b] = visit

\* The rendezvous of the README holds: a branch that is past its WAITs has siblings that
\* all have broadcast on the same visit.  It takes a visit that began with an empty
\* channel and no child open, and unless it fails fast every visit of a split does
\* (monitorChildWorkflows, handleSignalingEmit, handleSignalingWait).
RendezvousHolds ==
    IsSplitTask =>
        /\ \A b \in Branches :
              (child[b].st \in Passed /\ child[b].visit \in clean) =>
                  \A c \in Branches \ {b} : <<child[b].visit, c>> \in sent
        /\ (mode # "FAIL_FAST" /\ phase \in {"starting", "awaiting"}) => visit \in clean

\* Child b has received more signals than it passed WAITs: one parked, and its RETRY waits
\* for a signal that is sent anew.
HasDiscarded(b) == child[b].took + child[b].left > N - 1

\* A rendezvous opens: once all branches of a visit have broadcast, each of them gets past
\* its WAITs, parks or is closed, or the split has stopped to listen.  The exception is a
\* branch that parked in a WAIT with its signal received: a retry discards it, and the
\* siblings do not send another (monitorChildWorkflows, handleSignalingWait, README
\* "Barrier / rendezvous").
RendezvousOpens ==
    \A v \in 1 .. MaxVisits :
        (phase = "awaiting" /\ visit = v /\ \A b \in Branches : <<v, b>> \in sent)
            ~> \/ phase # "awaiting"
               \/ \A b \in Branches : child[b].st \in Passed \cup Closed \cup {"parked"} \/ HasDiscarded(b)

=============================================================================
