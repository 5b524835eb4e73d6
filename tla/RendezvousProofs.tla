-------------------------- MODULE RendezvousProofs --------------------------
(***************************************************************************)
(* For any number of branches, any set of modes and any number of visits,  *)
(* the invariant of Split holds, a split that completes is whole, its      *)
(* branches hear of each other once on each visit, and none of them gets   *)
(* past its WAITs too early.                                               *)
(***************************************************************************)
EXTENDS Split, FiniteSetTheorems, TLAPS

-----------------------------------------------------------------------------
(***************************************************************************)
(* The parent and its children.                                            *)
(***************************************************************************)

\* The split has a branch.
LEMMA BranchesNonEmpty == Branches # {}
  BY SplitAssumption DEF Branches

\* An execution, as it starts and as it ends.
LEMMA ExecutionType ==
  ASSUME NEW v \in 0 .. MaxVisits, NEW st \in Lives
  PROVE  /\ Execution(v, st) \in Children
         /\ Execution(v, st).visit = v /\ Execution(v, st).st = st
  BY SplitAssumption DEF Execution, Children

\* A node that was not visited has no futures and no children.
LEMMA InitNodeInv == SplitInit => NodeInv
  <1> SUFFICES ASSUME SplitInit PROVE NodeInv
    BY Zenon
  <1>1. SplitTypeOK
    BY SplitAssumption, ExecutionType DEF SplitInit, SplitTypeOK, Futures, Lives, NoChild
  <1>2. FuturesTell
    BY Zenon DEF SplitInit, FuturesTell
  <1>3. PhaseTells
    BY Zenon DEF SplitInit, PhaseTells
  <1> QED
    BY <1>1, <1>2, <1>3, Zenon DEF NodeInv

\* The moves of an open child that the parent does not notice.
LEMMA ChildMoves ==
  ASSUME NodeInv, NEW b \in Branches, IsOpen(b),
         NEW c \in Children, c.visit = child[b].visit, c.st \notin Closed \cup {"none"},
         child' = [child EXCEPT ![b] = c],
         UNCHANGED <<mode, phase, visit, future, handled, results>>
  PROVE  NodeInv'
  <1>1. SplitTypeOK'
    BY Zenon DEF NodeInv, SplitTypeOK
  <1>2. FuturesTell'
    BY Zenon DEF NodeInv, SplitTypeOK, FuturesTell, IsOpen
  <1>3. PhaseTells'
    BY Zenon DEF NodeInv, PhaseTells, IsSplitTask
  <1> QED
    BY <1>1, <1>2, <1>3, Zenon DEF NodeInv

\* An open child ends: the parent learns of it if it awaits this execution.
LEMMA ChildEnds ==
  ASSUME NodeInv, NEW b \in Branches, IsOpen(b), NEW st \in Closed, Ends(b, st)
  PROVE  NodeInv'
  <1> USE DEF Ends
  <1>1. /\ child' = [child EXCEPT ![b] = Execution(child[b].visit, st)]
        /\ child[b] \in Children
    BY Zenon DEF NodeInv, SplitTypeOK
  <1>2. /\ child'[b].visit = child[b].visit
        /\ child'[b].st = st
        /\ child'[b] \in Children
    <2>1. child'[b] = Execution(child[b].visit, st)
      BY <1>1, Zenon DEF NodeInv, SplitTypeOK
    <2>2. child[b].visit \in 0 .. MaxVisits /\ st \in Lives
      BY <1>1, Zenon DEF Children, Lives
    <2> QED
      BY <2>1, <2>2, ExecutionType
  <1>3. Outcome[st] \in {"ok", "failed", "aborted"}
    BY Zenon DEF Outcome
  <1>4. SplitTypeOK'
    BY <1>1, <1>2, <1>3, Zenon DEF NodeInv, SplitTypeOK, Futures
  <1>5. FuturesTell'
    <2> SUFFICES ASSUME NEW d \in Branches
                 PROVE  /\ future'[d] = "running" => /\ child'[d].visit = visit'
                                                     /\ IsOpen(d)' \/ phase' \in {"failed", "ended"}
                        /\ future'[d] \in {"ok", "failed", "aborted"} =>
                              /\ child'[d].visit = visit'
                              /\ child'[d].st \in Closed
                              /\ Outcome[child'[d].st] = future'[d]
                        /\ d \in handled' => future'[d] \in {"ok", "failed", "aborted"}
                        /\ (d \in handled' /\ mode' \in {"GATEWAY", "FAIL_FAST"}) => future'[d] = "ok"
      BY Zenon DEF FuturesTell
    <2>1. CASE d # b
      BY <2>1, <1>1, Zenon DEF NodeInv, SplitTypeOK, FuturesTell, IsOpen
    <2>2. CASE d = b
      BY <2>2, <1>2, <1>3, Zenon DEF NodeInv, SplitTypeOK, FuturesTell, IsOpen
    <2> QED
      BY <2>1, <2>2, Zenon
  <1>6. PhaseTells'
    <2>1. \A d \in Branches : future'[d] = future[d] \/ (d = b /\ future[d] = "running" /\ future'[d] = Outcome[st])
      BY Zenon DEF NodeInv, SplitTypeOK
    <2> QED
      BY <2>1, <1>3, Zenon DEF NodeInv, PhaseTells, IsSplitTask
  <1> QED
    BY <1>4, <1>5, <1>6, Zenon DEF NodeInv

\* What an action of one child preserves.
LEMMA ChildStepPreserves ==
  ASSUME NodeInv, NEW b \in Branches, ChildStep(b)
  PROVE  NodeInv'
  <1>0. child \in [Branches -> Children] /\ child[b] \in Children
    BY Zenon DEF NodeInv, SplitTypeOK
  <1>1. CASE TemporalStarts(b)
    <2> USE DEF TemporalStarts
    <2>1. CASE StartRefused(b)
      <3>1. SplitTypeOK'
        BY <1>1, <2>1, Zenon DEF NodeInv, SplitTypeOK, Futures
      <3>2. FuturesTell'
        BY <1>1, <2>1 DEF NodeInv, SplitTypeOK, FuturesTell, IsOpen
      <3>3. PhaseTells'
        BY <1>1, <2>1, Zenon DEF NodeInv, SplitTypeOK, FuturesTell, PhaseTells, IsSplitTask
      <3> QED
        BY <3>1, <3>2, <3>3, Zenon DEF NodeInv
    <2>2. CASE ~StartRefused(b)
      <3>1. /\ child' = [child EXCEPT ![b] = Execution(visit, "working")]
            /\ future' = [future EXCEPT ![b] = "running"]
            /\ UNCHANGED <<mode, phase, visit, handled, results>>
            /\ phase \notin {"failed", "ended"}
            /\ future[b] = "requested"
        BY <1>1, <2>2, Zenon
      <3>2. /\ child'[b].visit = visit
            /\ child'[b].st = "working"
            /\ child'[b] \in Children
        <4>1. visit \in 0 .. MaxVisits
          BY SplitAssumption DEF NodeInv, SplitTypeOK
        <4>2. child'[b] = Execution(visit, "working")
          BY <3>1, <1>0, Zenon
        <4> QED
          BY <4>1, <4>2, ExecutionType DEF Lives
      <3>3. SplitTypeOK'
        BY <3>1, <3>2, Zenon DEF NodeInv, SplitTypeOK, Futures
      <3>4. FuturesTell'
        BY <3>1, <3>2, Zenon DEF NodeInv, SplitTypeOK, FuturesTell, IsOpen, Closed
      <3>5. PhaseTells'
        BY <3>1, Zenon DEF NodeInv, SplitTypeOK, FuturesTell, PhaseTells, IsSplitTask
      <3> QED
        BY <3>3, <3>4, <3>5, Zenon DEF NodeInv
    <2> QED
      BY <2>1, <2>2, Zenon
  <1>2. CASE ChildCompletes(b)
    BY <1>2, ChildEnds, Zenon DEF ChildCompletes, IsOpen, Closed
  <1>3. CASE ChildAborts(b)
    BY <1>3, ChildEnds, Zenon DEF ChildAborts, IsOpen, Closed
  <1>4. CASE ChildFails(b)
    BY <1>4, ChildEnds, Zenon DEF ChildFails, Closed
  <1>5. CASE ChildCanceled(b)
    BY <1>5, ChildEnds, Zenon DEF ChildCanceled, IsOpen, Closed
  <1>6. CASE \/ ChildSuspends(b) \/ ChildAnswered(b) \/ handleSignalingEmit(b)
             \/ SignalArrives(b) \/ handleSignalingWait(b) \/ ChildWaitCompleted(b)
             \/ ChildParks(b) \/ ChildResumes(b) \/ CancelArrives(b)
    <2>1. /\ IsOpen(b)
          /\ UNCHANGED <<mode, phase, visit, future, handled, results>>
      BY <1>6, Zenon DEF ChildSuspends, ChildAnswered, handleSignalingEmit, SignalArrives,
                  handleSignalingWait, ChildWaitCompleted, ChildParks, ChildResumes, CancelArrives,
                  Moves, IsOpen, Closed
    <2>2. \E c \in Children : /\ c.visit = child[b].visit
                              /\ c.st \notin Closed \cup {"none"}
                              /\ child' = [child EXCEPT ![b] = c]
      <3>1. CASE ChildSuspends(b)
        <4> DEFINE c == [child[b] EXCEPT !.st = "suspended"]
        <4>1. c \in Children /\ c.visit = child[b].visit /\ c.st = "suspended" /\ child' = [child EXCEPT ![b] = c]
          BY <3>1, <1>0, Zenon DEF ChildSuspends, Moves, Children, Lives
        <4> QED
          BY <4>1, Zenon DEF Closed
      <3>2. CASE ChildAnswered(b)
        <4> DEFINE c == [child[b] EXCEPT !.st = "working"]
        <4>1. c \in Children /\ c.visit = child[b].visit /\ c.st = "working" /\ child' = [child EXCEPT ![b] = c]
          BY <3>2, <1>0, Zenon DEF ChildAnswered, Moves, Children, Lives
        <4> QED
          BY <4>1, Zenon DEF Closed
      <3>3. CASE handleSignalingEmit(b)
        <4> DEFINE c == [child[b] EXCEPT !.st = AtWait(child[b].left)]
        <4>1. AtWait(child[b].left) \in {"waiting", "finishing"}
          BY Zenon DEF AtWait
        <4>2. /\ c \in Children /\ c.visit = child[b].visit /\ c.st = AtWait(child[b].left)
              /\ child' = [child EXCEPT ![b] = c]
          BY <3>3, <4>1, <1>0, Zenon DEF handleSignalingEmit, Children, Lives
        <4> QED
          BY <4>1, <4>2, Zenon DEF Closed
      <3>4. CASE handleSignalingWait(b)
        <4> DEFINE l == child[b].left - 1
                   c == [child[b] EXCEPT !.got = child[b].got - 1, !.took = child[b].took + 1,
                                         !.left = l, !.st = AtWait(l)]
                   d == [child[b] EXCEPT !.got = child[b].got - 1, !.took = child[b].took + 1,
                                         !.st = "parked", !.at = "waiting"]
        <4>1. child[b].got - 1 \in Nat /\ child[b].took + 1 \in Nat /\ l \in Int
          BY <3>4, <1>0 DEF handleSignalingWait, Children
        <4>2. AtWait(l) \in {"waiting", "finishing"}
          BY Zenon DEF AtWait
        <4> HIDE DEF l
        <4>3. c \in Children /\ c.visit = child[b].visit /\ c.st = AtWait(l)
          BY <4>1, <4>2, <1>0, Zenon DEF Children, Lives
        <4>4. d \in Children /\ d.visit = child[b].visit /\ d.st = "parked"
          BY <4>1, <1>0, Zenon DEF Children, Lives
        <4>5. child' = [child EXCEPT ![b] = c] \/ child' = [child EXCEPT ![b] = d]
          BY <3>4, Zenon DEF handleSignalingWait, l
        <4> QED
          BY <4>2, <4>3, <4>4, <4>5, Zenon DEF Closed
      <3>5. CASE ChildParks(b)
        <4> DEFINE c == [child[b] EXCEPT !.st = "parked", !.at = child[b].st]
        <4>1. c \in Children /\ c.visit = child[b].visit /\ c.st = "parked" /\ child' = [child EXCEPT ![b] = c]
          BY <3>5, <1>0, Zenon DEF ChildParks, Children, Lives
        <4> QED
          BY <4>1, Zenon DEF Closed
      <3>6. CASE ChildResumes(b)
        <4> DEFINE c == [child[b] EXCEPT !.st = child[b].at]
        <4>1. child[b].at \in {"working", "waiting", "finishing"}
          BY <1>0, Zenon DEF Children
        <4>2. c \in Children /\ c.visit = child[b].visit /\ c.st = child[b].at /\ child' = [child EXCEPT ![b] = c]
          BY <3>6, <4>1, <1>0, Zenon DEF ChildResumes, Moves, Children, Lives
        <4> QED
          BY <4>1, <4>2, Zenon DEF Closed
      <3>7. CASE CancelArrives(b)
        <4> DEFINE c == [child[b] EXCEPT !.cancel = "received"]
        <4>1. c \in Children /\ c.visit = child[b].visit /\ c.st = child[b].st /\ child' = [child EXCEPT ![b] = c]
          BY <3>7, <1>0, Zenon DEF CancelArrives, Children
        <4> QED
          BY <4>1, <2>1, Zenon DEF IsOpen
      <3>8. CASE SignalArrives(b)
        <4> DEFINE c == [child[b] EXCEPT !.due = child[b].due - 1, !.got = child[b].got + 1]
        <4>1. child[b].due - 1 \in Nat /\ child[b].got + 1 \in Nat
          BY <3>8, <1>0 DEF SignalArrives, Children
        <4>2. c \in Children /\ c.visit = child[b].visit /\ c.st = child[b].st /\ child' = [child EXCEPT ![b] = c]
          BY <3>8, <4>1, <1>0, Zenon DEF SignalArrives, Children
        <4> QED
          BY <4>2, <2>1, Zenon DEF IsOpen
      <3>9. CASE ChildWaitCompleted(b)
        <4> DEFINE l == child[b].left - 1
                   c == [child[b] EXCEPT !.left = l, !.st = AtWait(l)]
        <4>1. l \in Int /\ AtWait(l) \in {"waiting", "finishing"}
          BY <1>0 DEF Children, AtWait
        <4>2. child' = [child EXCEPT ![b] = c]
          BY <3>9, Zenon DEF ChildWaitCompleted
        <4> HIDE DEF l
        <4>3. c \in Children /\ c.visit = child[b].visit /\ c.st = AtWait(l)
          BY <4>1, <1>0, Zenon DEF Children, Lives
        <4> QED
          BY <4>1, <4>2, <4>3, Zenon DEF Closed
      <3> QED
        BY <1>6, <3>1, <3>2, <3>3, <3>4, <3>5, <3>6, <3>7, <3>8, <3>9, Zenon
    <2> QED
      BY <2>1, <2>2, ChildMoves, Zenon
  <1> QED
    BY <1>1, <1>2, <1>3, <1>4, <1>5, <1>6, Zenon DEF ChildStep

\* Children that are left as they are, or whose open ones are terminated.
LEMMA TerminateTells ==
  ASSUME NodeInv
  PROVE  /\ TerminateOpen \in [Branches -> Children]
         /\ \A b \in Branches : /\ TerminateOpen[b].visit = child[b].visit
                                /\ ~IsOpen(b) => TerminateOpen[b] = child[b]
  <1> SUFFICES ASSUME NEW b \in Branches
               PROVE  /\ TerminateOpen[b] \in Children
                      /\ TerminateOpen[b].visit = child[b].visit
                      /\ ~IsOpen(b) => TerminateOpen[b] = child[b]
    BY Zenon DEF TerminateOpen
  <1>1. child[b] \in Children
    BY Zenon DEF NodeInv, SplitTypeOK
  <1>2. CASE IsOpen(b)
    <2> DEFINE c == Execution(child[b].visit, "terminated")
    <2>1. c \in Children /\ c.visit = child[b].visit
      BY <1>1, ExecutionType, Zenon DEF Children, Lives, Closed
    <2>2. TerminateOpen[b] = c
      BY <1>2, Zenon DEF TerminateOpen
    <2> QED
      BY <2>1, <2>2, <1>2, Zenon
  <1>3. CASE ~IsOpen(b)
    BY <1>1, <1>3, Zenon DEF TerminateOpen
  <1> QED
    BY <1>2, <1>3, Zenon

\* The parent stops to listen; the executions under its workflow IDs stay the same ones.
LEMMA ParentStops ==
  ASSUME NodeInv, phase' \in {"parked", "waved", "failed", "ended"},
         UNCHANGED <<mode, visit, future, handled, results>>,
         child' \in [Branches -> Children],
         \A b \in Branches : /\ child'[b].visit = child[b].visit
                             /\ ~IsOpen(b) => child'[b] = child[b]
                             /\ (IsOpen(b) /\ phase' \notin {"failed", "ended"}) => IsOpen(b)',
         phase \notin {"failed", "ended"}
  PROVE  NodeInv'
  <1>1. SplitTypeOK'
    BY Zenon DEF NodeInv, SplitTypeOK
  <1>2. FuturesTell'
    BY Zenon DEF NodeInv, SplitTypeOK, FuturesTell, IsOpen
  <1>3. PhaseTells'
    BY Zenon DEF PhaseTells
  <1> QED
    BY <1>1, <1>2, <1>3, Zenon DEF NodeInv

\* A failing node stops as above, whether its children are cancelled or not.
LEMMA NodeFailsPreserves ==
  ASSUME NodeInv, NEW terminal \in BOOLEAN, NEW left, NodeFails(terminal, left),
         phase \notin {"failed", "ended"},
         UNCHANGED <<mode, visit, future, handled, results>>,
         left \in [Branches -> Children],
         \A b \in Branches : /\ left[b].visit = child[b].visit
                             /\ left[b].st = child[b].st
                             /\ ~IsOpen(b) => left[b] = child[b]
  PROVE  NodeInv'
  <1>1. CASE terminal
    BY <1>1, TerminateTells, ParentStops, Zenon DEF NodeFails
  <1>2. CASE ~terminal
    <2>1. phase' = "parked" /\ child' = left
      BY <1>2, Zenon DEF NodeFails
    <2>2. \A b \in Branches : IsOpen(b) => IsOpen(b)'
      BY <2>1, Zenon DEF IsOpen
    <2> QED
      BY <2>1, <2>2, ParentStops, Zenon
  <1> QED
    BY <1>1, <1>2, Zenon

\* The node is run again, from a phase in which it is at rest.
LEMMA AgainPreserves ==
  ASSUME NodeInv, Again
  PROVE  NodeInv'
  <1> USE DEF Again
  <1>1. SplitTypeOK'
    BY SplitAssumption DEF NodeInv, SplitTypeOK, Futures
  <1>2. FuturesTell'
    BY Zenon DEF FuturesTell
  <1>3. PhaseTells'
    BY Zenon DEF PhaseTells
  <1> QED
    BY <1>1, <1>2, <1>3, Zenon DEF NodeInv

\* A gateway that has waited for one more branch (collectAndMergeBatchResults).
LEMMA GatewayAwaitsPreserves ==
  ASSUME NodeInv, GatewayAwaits
  PROVE  NodeInv'
  <1>1. PICK b \in Branches \ handled :
          /\ future[b] \notin {"requested", "running"}
          /\ IF future[b] = "ok"
             THEN /\ handled' = handled \cup {b}
                  /\ phase' = IF handled' = Branches THEN "completed" ELSE phase
                  /\ results' = IF handled' = Branches THEN [c \in Branches |-> child[c].visit] ELSE results
                  /\ UNCHANGED child
             ELSE NodeFails(future[b] = "aborted", child) /\ UNCHANGED <<handled, results>>
    BY Zenon DEF GatewayAwaits
  <1>2. phase = "awaiting" /\ mode = "GATEWAY" /\ UNCHANGED <<mode, visit, future>>
    BY Zenon DEF GatewayAwaits, IsSplitTask
  <1>3. CASE future[b] # "ok"
    <2>1. NodeFails(future[b] = "aborted", child) /\ UNCHANGED <<handled, results>>
      BY <1>1, <1>3, Zenon
    <2>2. child \in [Branches -> Children]
      BY Zenon DEF NodeInv, SplitTypeOK
    <2> QED
      BY <2>1, <2>2, <1>2, NodeFailsPreserves, Zenon
  <1>4. CASE future[b] = "ok"
    <2>1. /\ handled' = handled \cup {b}
          /\ phase' = IF handled' = Branches THEN "completed" ELSE phase
          /\ results' = IF handled' = Branches THEN [c \in Branches |-> child[c].visit] ELSE results
          /\ UNCHANGED child
      BY <1>1, <1>4, Zenon
    <2>2. \A c \in handled' : future[c] = "ok" /\ child[c].visit = visit
      BY <2>1, <1>2, <1>4, Zenon DEF NodeInv, SplitTypeOK, FuturesTell
    <2>3. SplitTypeOK'
      BY <2>1, <1>2, Zenon DEF NodeInv, SplitTypeOK, Children
    <2>4. FuturesTell'
      BY <2>1, <2>2, <1>2, Zenon DEF NodeInv, FuturesTell, IsOpen
    <2>5. PhaseTells'
      BY <2>1, <2>2, <1>2, Zenon DEF NodeInv, PhaseTells, IsSplitTask
    <2> QED
      BY <2>3, <2>4, <2>5, Zenon DEF NodeInv
  <1> QED
    BY <1>3, <1>4, Zenon

\* A SPLIT_TASK that handles the end of a child, in each failure mode (monitorChildWorkflows).
LEMMA MonitorPreserves ==
  ASSUME NodeInv, NEW b \in Branches, monitorChildWorkflows(b)
  PROVE  NodeInv'
  <1>1. /\ phase = "awaiting" /\ IsSplitTask
        /\ b \notin handled
        /\ future[b] \in {"ok", "failed", "aborted"}
        /\ UNCHANGED <<mode, visit, future>>
    BY Zenon DEF monitorChildWorkflows
  <1>2. CASE mode = "FAIL_FAST" /\ future[b] # "ok"
    <2>1. NodeFails(future[b] = "aborted", CancelRemaining(b)) /\ UNCHANGED <<handled, results>>
      BY <1>2, Zenon DEF monitorChildWorkflows
    <2>2. ASSUME NEW c \in Branches
          PROVE  /\ CancelRemaining(b)[c] \in Children
                 /\ CancelRemaining(b)[c].visit = child[c].visit
                 /\ CancelRemaining(b)[c].st = child[c].st
                 /\ ~IsOpen(c) => CancelRemaining(b)[c] = child[c]
      <3> DEFINE d == [child[c] EXCEPT !.cancel = "requested"]
      <3>1. child[c] \in Children
        BY Zenon DEF NodeInv, SplitTypeOK
      <3>2. d \in Children /\ d.visit = child[c].visit /\ d.st = child[c].st
        BY <3>1, Zenon DEF Children
      <3>3. CancelRemaining(b)[c] = IF c \notin handled \cup {b} /\ IsOpen(c) THEN d ELSE child[c]
        BY Zenon DEF CancelRemaining
      <3> QED
        BY <3>1, <3>2, <3>3, Zenon
    <2>3. CancelRemaining(b) \in [Branches -> Children]
      BY <2>2, Zenon DEF CancelRemaining
    <2> QED
      BY <2>1, <2>2, <2>3, <1>1, NodeFailsPreserves, Zenon
  <1>3. CASE ~(mode = "FAIL_FAST" /\ future[b] # "ok")
    <2>1. /\ handled' = handled \cup {b}
          /\ IF AllSeen(handled')
             THEN /\ results' = [c \in Branches |-> child[c].visit]
                  /\ phase' = IF mode = "COLLECT_ALL" /\ \E c \in Branches : future[c] # "ok"
                              THEN "parked" ELSE "completed"
             ELSE UNCHANGED <<results, phase>>
          /\ UNCHANGED child
      BY <1>3, Zenon DEF monitorChildWorkflows
    <2>2. \A c \in handled' : future[c] \in {"ok", "failed", "aborted"} /\ child[c].visit = visit
      BY <2>1, <1>1, Zenon DEF NodeInv, SplitTypeOK, FuturesTell
    <2>3. SplitTypeOK'
      BY <2>1, <1>1, Zenon DEF NodeInv, SplitTypeOK, Children
    <2>4. FuturesTell'
      BY <2>1, <2>2, <1>1, <1>3, Zenon DEF NodeInv, FuturesTell, IsOpen, IsSplitTask
    <2>5. PhaseTells'
      BY <2>1, <2>2, <1>1, Zenon DEF NodeInv, PhaseTells, IsSplitTask, AllSeen
    <2> QED
      BY <2>3, <2>4, <2>5, Zenon DEF NodeInv
  <1> QED
    BY <1>2, <1>3, Zenon

\* A broadcast changes nothing but the signals that a child has got.
LEMMA MulticastPreserves ==
  ASSUME NodeInv, Multicast
  PROVE  NodeInv'
  <1>1. UNCHANGED <<mode, phase, visit, future, handled, results>>
    BY Zenon DEF Multicast
  <1>2. ASSUME NEW b \in Branches
        PROVE  /\ child'[b] \in Children
               /\ child'[b].visit = child[b].visit
               /\ child'[b].st = child[b].st
    <2> DEFINE c == [child[b] EXCEPT !.due = @ + 1]
    <2>1. child[b] \in Children /\ child[b].due \in Nat
      BY Zenon DEF NodeInv, SplitTypeOK, Children
    <2>2. c \in Children /\ c.visit = child[b].visit /\ c.st = child[b].st
      BY <2>1 DEF Children
    <2>3. child'[b] = IF Hears(b, Head(inbox).from) THEN c ELSE child[b]
      BY Zenon DEF Multicast
    <2> QED
      BY <2>1, <2>2, <2>3, Zenon
  <1>3. SplitTypeOK'
    <2>1. child' \in [Branches -> Children]
      BY <1>2, Zenon DEF Multicast
    <2> QED
      BY <2>1, <1>1, Zenon DEF NodeInv, SplitTypeOK
  <1>4. FuturesTell'
    BY <1>1, <1>2, Zenon DEF NodeInv, FuturesTell, IsOpen
  <1>5. PhaseTells'
    BY <1>1, Zenon DEF NodeInv, PhaseTells, IsSplitTask
  <1> QED
    BY <1>3, <1>4, <1>5, Zenon DEF NodeInv

\* Every step of the parent keeps the invariant (handleSplitTaskNode and the gateways).
LEMMA ParentStepPreserves ==
  ASSUME NodeInv, ParentStep
  PROVE  NodeInv'
  <1>0. child \in [Branches -> Children]
    BY Zenon DEF NodeInv, SplitTypeOK
  <1>1. CASE SplitRefuses \/ AdminCompletes
    <2>1. /\ phase \in {"ready", "parked"}
          /\ phase' \in {"parked", "waved"}
          /\ UNCHANGED <<mode, visit, future, handled, child, results>>
      BY <1>1, Zenon DEF SplitRefuses, AdminCompletes
    <2>2. \A b \in Branches : IsOpen(b) => IsOpen(b)'
      BY <2>1, Zenon DEF IsOpen
    <2> QED
      BY <2>1, <2>2, <1>0, ParentStops, Zenon
  <1>2. CASE AdminAborts \/ ParentEnds
    <2>1. /\ phase \in {"parked", "completed", "waved"}
          /\ phase' \in {"failed", "ended"}
          /\ child' = TerminateOpen
          /\ UNCHANGED <<mode, visit, future, handled, results>>
      BY <1>2, Zenon DEF AdminAborts, ParentEnds
    <2> QED
      BY <2>1, TerminateTells, ParentStops, Zenon
  <1>3. CASE spawnChildWorkflows
    <2> USE <1>3 DEF spawnChildWorkflows
    <2>1. SplitTypeOK'
      BY Zenon DEF NodeInv, SplitTypeOK, Futures
    <2>2. FuturesTell'
      BY Zenon DEF FuturesTell
    <2>3. PhaseTells'
      BY BranchesNonEmpty, Zenon DEF NodeInv, PhaseTells, IsSplitTask
    <2> QED
      BY <2>1, <2>2, <2>3, Zenon DEF NodeInv
  <1>4. CASE SplitStarted
    <2> USE <1>4 DEF SplitStarted
    <2>1. SplitTypeOK'
      BY Zenon DEF NodeInv, SplitTypeOK
    <2>2. FuturesTell'
      BY Zenon DEF NodeInv, FuturesTell, IsOpen
    <2>3. PhaseTells'
      BY BranchesNonEmpty, Zenon DEF NodeInv, PhaseTells, AllStarted
    <2> QED
      BY <2>1, <2>2, <2>3, Zenon DEF NodeInv
  <1>5. CASE GatewayAwaits
    BY <1>5, GatewayAwaitsPreserves, Zenon
  <1>6. CASE Multicast
    BY <1>6, MulticastPreserves, Zenon
  <1>7. CASE \E b \in Branches : monitorChildWorkflows(b)
    BY <1>7, MonitorPreserves, Zenon
  <1>8. CASE AdminRetries \/ LoopsBack
    BY <1>8, AgainPreserves, Zenon DEF AdminRetries, LoopsBack
  <1> QED
    BY <1>1, <1>2, <1>3, <1>4, <1>5, <1>6, <1>7, <1>8, Zenon DEF ParentStep

\* Steps that change nothing of the split keep the invariant.
LEMMA StutterPreserves ==
  ASSUME NodeInv, UNCHANGED splitVars
  PROVE  NodeInv'
  BY DEF NodeInv, SplitTypeOK, FuturesTell, PhaseTells, IsOpen, IsSplitTask, splitVars

\* The parent of a split knows its own children and only them, whatever fails, is
\* cancelled, retried or left over (spawnChildWorkflows, monitorChildWorkflows,
\* collectAndMergeBatchResults, parkNodeForAdmin).
THEOREM NodeInvariance == SplitSpec => []NodeInv
  <1>1. ASSUME NodeInv, [SplitNext]_splitVars
        PROVE  NodeInv'
    BY <1>1, ParentStepPreserves, ChildStepPreserves, StutterPreserves, Zenon DEF SplitNext
  <1> QED
    BY <1>1, InitNodeInv, PTL DEF SplitSpec

\* A split that completes is whole: every branch of this visit has ended, and the results
\* that were committed are theirs (handleSplitTaskNode, handleBatchSplitGateway,
\* handleParallelSplitGateway).
THEOREM CompletedSplitsAreWhole == SplitSpec => []CompletedIsWhole
  <1>1. NodeInv => CompletedIsWhole
    <2> SUFFICES ASSUME NodeInv, phase = "completed", NEW b \in Branches
                 PROVE  /\ child[b].visit = visit
                        /\ child[b].st \in Closed
                        /\ mode \in {"GATEWAY", "FAIL_FAST", "COLLECT_ALL"} => child[b].st = "completed"
                        /\ results[b] = visit
      BY Zenon DEF CompletedIsWhole
    <2>1. handled = Branches /\ results[b] = visit
      BY Zenon DEF NodeInv, PhaseTells
    <2>2. /\ child[b].visit = visit
          /\ child[b].st \in Closed
          /\ Outcome[child[b].st] = future[b]
      BY <2>1, Zenon DEF NodeInv, FuturesTell
    <2>3. mode \in {"GATEWAY", "FAIL_FAST", "COLLECT_ALL"} => future[b] = "ok"
      BY <2>1, Zenon DEF NodeInv, FuturesTell, PhaseTells
    <2>4. Outcome[child[b].st] = "ok" => child[b].st = "completed"
      BY <2>2, Zenon DEF Outcome
    <2> QED
      BY <2>1, <2>2, <2>3, <2>4, Zenon
  <1> QED
    BY <1>1, NodeInvariance, PTL

\* The phases in which a split has nothing to wait for.
Resting == {"ready", "parked", "completed", "waved"}

\* A step in which nobody is started and no broadcast is made or handed on.
Quiet ==
    /\ UNCHANGED <<mode, visit, inbox, sent, clean>>
    /\ phase' \in {"starting", "ready"} => phase' = phase
    /\ phase' = "awaiting" => phase \in {"starting", "awaiting"}
    /\ phase' # phase => \A b \in Branches : future[b] # "requested"
    /\ mode # "FAIL_FAST" /\ phase' \in Resting =>
          phase \in Resting \/ (inbox = <<>> /\ \A b \in Branches : ~IsOpen(b)')
    /\ \A b \in Branches :
          /\ future'[b] # future[b] =>
                future[b] = "running" /\ future'[b] \notin {"none", "requested", "refused"}
          /\ child'[b].visit = child[b].visit
          /\ IsOpen(b)' => IsOpen(b)
          /\ BeforeEmit(b)' => BeforeEmit(b)
          /\ BeforeWait(b)' => BeforeWait(b) /\ Signals(b)' = Signals(b)
          /\ AfterWait(b)' /\ child[b].visit \in clean => AfterWait(b) \/ Heard(b) = Branches \ {b}
          /\ WaitTells(b) => WaitTells(b)'

\* The rendezvous is as before.
LEMMA QuietKeeps ==
  ASSUME RendezvousInv, Quiet
  PROVE  RendezvousInv'
  <1>1. \A v, b : InChannel(v, b)' <=> InChannel(v, b)
    BY Zenon DEF Quiet, InChannel
  <1>2. ASSUME NEW b \in Branches PROVE Heard(b)' = Heard(b)
    BY <1>1, Zenon DEF Heard, Quiet
  <1>3. BroadcastsTell'
    BY <1>1, Zenon DEF RendezvousInv, BroadcastsTell, Quiet
  <1>4. VisitsTell'
    BY Zenon DEF RendezvousInv, VisitsTell, Quiet
  <1>5. CleanIsAlone'
    <2>1. ASSUME NEW b \in Branches, visit \in clean
          PROVE  /\ \A v \in 1 .. MaxVisits : InChannel(v, b)' => v = visit'
                 /\ IsOpen(b)' => child'[b].visit = visit'
                 /\ phase' = "starting" /\ <<visit', b>> \in sent' => InChannel(visit, b)'
      BY <1>1, <2>1, Zenon DEF RendezvousInv, CleanIsAlone, Quiet
    <2>2. ASSUME NEW b \in Branches, child[b].visit \in clean, BeforeWait(b)'
          PROVE  Signals(b)' = Cardinality(Heard(b)')
      BY <1>2, <2>2, Zenon DEF RendezvousInv, CleanIsAlone, Quiet
    <2>3. ASSUME NEW b \in Branches, child[b].visit \in clean, AfterWait(b)'
          PROVE  \A c \in Branches \ {b} : <<child'[b].visit, c>> \in sent'
      <3>1. CASE AfterWait(b)
        BY <2>3, <3>1, Zenon DEF RendezvousInv, CleanIsAlone, Quiet
      <3>2. CASE Heard(b) = Branches \ {b}
        BY <3>2, Zenon DEF Heard, Quiet
      <3> QED
        BY <2>3, <3>1, <3>2, Zenon DEF Quiet
    <2> QED
      BY <2>1, <2>2, <2>3, Zenon DEF CleanIsAlone, Quiet
  <1>6. NothingLeft'
    BY Zenon DEF RendezvousInv, NothingLeft, Quiet, Resting
  <1>7. WaitsTell'
    BY Zenon DEF RendezvousInv, WaitsTell, Quiet
  <1> QED
    BY <1>3, <1>4, <1>5, <1>6, <1>7, Zenon DEF RendezvousInv

\* A step of one open child alone.
LEMMA OneChildQuiet ==
  ASSUME NEW b \in Branches, IsOpen(b),
         UNCHANGED <<mode, phase, visit, inbox, sent, clean>>,
         \A d \in Branches \ {b} : child'[d] = child[d] /\ future'[d] = future[d],
         future'[b] # future[b] =>
            future[b] = "running" /\ future'[b] \notin {"none", "requested", "refused"},
         child'[b].visit = child[b].visit,
         BeforeEmit(b)' => BeforeEmit(b),
         BeforeWait(b)' => BeforeWait(b) /\ Signals(b)' = Signals(b),
         AfterWait(b)' /\ child[b].visit \in clean => AfterWait(b) \/ Heard(b) = Branches \ {b},
         WaitTells(b) => WaitTells(b)'
  PROVE  Quiet
  <1>1. ASSUME NEW d \in Branches
        PROVE  /\ future'[d] # future[d] =>
                    future[d] = "running" /\ future'[d] \notin {"none", "requested", "refused"}
               /\ child'[d].visit = child[d].visit
               /\ IsOpen(d)' => IsOpen(d)
               /\ BeforeEmit(d)' => BeforeEmit(d)
               /\ BeforeWait(d)' => BeforeWait(d) /\ Signals(d)' = Signals(d)
               /\ AfterWait(d)' /\ child[d].visit \in clean => AfterWait(d) \/ Heard(d) = Branches \ {d}
               /\ WaitTells(d) => WaitTells(d)'
    <2>1. CASE d = b
      BY <2>1, Zenon
    <2>2. CASE d # b
      BY <2>2, Zenon DEF IsOpen, BeforeEmit, InWait, BeforeWait, AfterWait, Signals, WaitTells
    <2> QED
      BY <2>1, <2>2, Zenon
  <1> QED
    BY <1>1, Zenon DEF Quiet

\* So is its end.
LEMMA EndQuiet ==
  ASSUME NodeInv, NEW b \in Branches, IsOpen(b), NEW st \in Closed, Ends(b, st),
         st = "completed" => AfterWait(b)
  PROVE  Quiet
  <1>0. child \in [Branches -> Children] /\ future \in [Branches -> Futures]
    BY Zenon DEF NodeInv, SplitTypeOK
  <1>1. /\ child'[b] = Execution(child[b].visit, st)
        /\ \A d \in Branches \ {b} : child'[d] = child[d] /\ future'[d] = future[d]
        /\ future'[b] = IF future[b] = "running" THEN Outcome[st] ELSE future[b]
    BY <1>0, Zenon DEF Ends
  <1>2. child'[b].visit = child[b].visit /\ child'[b].st = st
    BY <1>1 DEF Execution
  <1>3. Outcome[st] \in {"ok", "failed", "aborted"}
    BY Zenon DEF Outcome
  <1>4. ~BeforeEmit(b)' /\ ~BeforeWait(b)' /\ (AfterWait(b)' => AfterWait(b)) /\ WaitTells(b)'
    BY <1>2, Zenon DEF BeforeEmit, InWait, BeforeWait, AfterWait, WaitTells, Passed, Closed
  <1>5. UNCHANGED <<mode, phase, visit, inbox, sent, clean>>
    BY Zenon DEF Ends
  <1> QED
    BY <1>1, <1>2, <1>3, <1>4, <1>5, OneChildQuiet, Zenon

\* What a step of the parent may do to its children without taking part in the rendezvous:
\* close them, or ask for their cancellation.
LeavesChildren ==
    \A b \in Branches :
        /\ child'[b].visit = child[b].visit
        /\ \/ child'[b].st = "terminated"
           \/ /\ child'[b].st = child[b].st /\ child'[b].at = child[b].at
              /\ child'[b].due = child[b].due /\ child'[b].got = child[b].got
              /\ child'[b].left = child[b].left /\ child'[b].took = child[b].took

\* TerminateOpen does the one, CancelRemaining the other.
LEMMA ParentLeaves ==
  ASSUME NodeInv, \/ UNCHANGED child
                  \/ child' = TerminateOpen
                  \/ \E b \in Branches : child' = CancelRemaining(b)
  PROVE  LeavesChildren
  <1>0. child \in [Branches -> Children]
    BY Zenon DEF NodeInv, SplitTypeOK
  <1> SUFFICES ASSUME NEW b \in Branches
               PROVE  /\ child'[b].visit = child[b].visit
                      /\ \/ child'[b].st = "terminated"
                         \/ /\ child'[b].st = child[b].st /\ child'[b].at = child[b].at
                            /\ child'[b].due = child[b].due /\ child'[b].got = child[b].got
                            /\ child'[b].left = child[b].left /\ child'[b].took = child[b].took
    BY Zenon DEF LeavesChildren
  <1>1. child[b] \in Children
    BY <1>0, Zenon
  <1>2. CASE UNCHANGED child
    BY <1>2, Zenon
  <1>3. CASE child' = TerminateOpen
    BY <1>1, <1>3, Zenon DEF TerminateOpen, Execution
  <1>4. CASE \E d \in Branches : child' = CancelRemaining(d)
    BY <1>1, <1>4 DEF CancelRemaining, Children
  <1> QED
    BY <1>2, <1>3, <1>4, Zenon

\* Then only the phase can matter.
LEMMA ParentQuiet ==
  ASSUME LeavesChildren, UNCHANGED <<mode, visit, future, inbox, sent, clean>>,
         phase' \notin {"starting", "ready"},
         phase' = "awaiting" => phase \in {"starting", "awaiting"},
         phase' # phase => \A b \in Branches : future[b] # "requested",
         mode # "FAIL_FAST" /\ phase' \in Resting =>
            phase \in Resting \/ (inbox = <<>> /\ \A b \in Branches : child[b].st \in Closed)
  PROVE  Quiet
  <1>1. ASSUME NEW b \in Branches
        PROVE  /\ child'[b].visit = child[b].visit
               /\ IsOpen(b)' => IsOpen(b)
               /\ BeforeEmit(b)' => BeforeEmit(b)
               /\ BeforeWait(b)' => BeforeWait(b) /\ Signals(b)' = Signals(b)
               /\ AfterWait(b)' => AfterWait(b)
               /\ WaitTells(b) => WaitTells(b)'
    <2>1. CASE child'[b].st = "terminated"
      BY <2>1, Zenon DEF LeavesChildren, IsOpen, Closed, BeforeEmit, InWait, BeforeWait, AfterWait,
                         WaitTells, Passed
    <2>2. CASE child'[b].st # "terminated"
      BY <2>2, Zenon DEF LeavesChildren, IsOpen, BeforeEmit, InWait, BeforeWait, AfterWait, Signals,
                         WaitTells
    <2> QED
      BY <2>1, <2>2, Zenon
  <1>2. ASSUME NEW b \in Branches, child[b].st \in Closed PROVE ~IsOpen(b)'
    BY <1>2, Zenon DEF LeavesChildren, IsOpen, Closed
  <1> QED
    BY <1>1, <1>2, Zenon DEF Quiet

\* The steps of the parent that are quiet: refusals, starts that have all been answered,
\* ends that the selector takes, and what an admin or the workflow makes of the node.
LEMMA ParentStepQuiet ==
  ASSUME NodeInv, RendezvousInv, IsSplitTask,
         \/ SplitRefuses \/ SplitStarted \/ AdminCompletes \/ AdminAborts \/ ParentEnds
         \/ \E b \in Branches : monitorChildWorkflows(b)
  PROVE  Quiet
  <1>0. phase # "starting" => \A b \in Branches : future[b] # "requested"
    BY Zenon DEF RendezvousInv, VisitsTell
  <1>1. CASE SplitRefuses \/ AdminCompletes
    <2>1. /\ phase' \in {"parked", "waved"} /\ phase \in {"ready", "parked"}
          /\ UNCHANGED <<mode, visit, future, child, inbox, sent, clean>>
      BY <1>1, Zenon DEF SplitRefuses, AdminCompletes
    <2> QED
      BY <1>0, <2>1, ParentLeaves, ParentQuiet, Zenon DEF Resting
  <1>2. CASE AdminAborts \/ ParentEnds
    <2>1. /\ phase' \in {"failed", "ended"} /\ phase \in {"parked", "completed", "waved"}
          /\ child' = TerminateOpen
          /\ UNCHANGED <<mode, visit, future, inbox, sent, clean>>
      BY <1>2, Zenon DEF AdminAborts, ParentEnds
    <2> QED
      BY <1>0, <2>1, ParentLeaves, ParentQuiet, Zenon DEF Resting
  <1>3. CASE SplitStarted
    <2>1. /\ phase' = (IF AllStarted THEN "awaiting" ELSE "parked") /\ phase = "starting"
          /\ \A b \in Branches : future[b] # "requested"
          /\ UNCHANGED <<mode, visit, future, child, inbox, sent, clean>>
      BY <1>3, Zenon DEF SplitStarted
    <2>2. mode # "FAIL_FAST" => AllStarted
      BY <2>1, Zenon DEF AllStarted, RendezvousInv, NothingLeft
    <2> QED
      BY <2>1, <2>2, ParentLeaves, ParentQuiet, Zenon DEF Resting
  <1>4. ASSUME NEW b \in Branches, monitorChildWorkflows(b)
        PROVE  Quiet
    <2>1. /\ phase = "awaiting" /\ inbox = <<>> /\ future[b] \in {"ok", "failed", "aborted"}
          /\ UNCHANGED <<mode, visit, future, inbox, sent, clean>>
      BY <1>4, Zenon DEF monitorChildWorkflows, BroadcastsFirst
    <2>2. CASE mode = "FAIL_FAST" /\ future[b] # "ok"
      <3>1. NodeFails(future[b] = "aborted", CancelRemaining(b))
        BY <1>4, <2>2, Zenon DEF monitorChildWorkflows
      <3>2. LeavesChildren /\ phase' \in {"failed", "parked"}
        BY <3>1, ParentLeaves, Zenon DEF NodeFails
      <3> QED
        BY <1>0, <2>1, <2>2, <3>2, ParentQuiet, Zenon
    <2>3. CASE ~(mode = "FAIL_FAST" /\ future[b] # "ok")
      <3>1. /\ handled' = handled \cup {b}
            /\ IF handled' = Branches THEN phase' \in {"parked", "completed"} ELSE phase' = phase
            /\ UNCHANGED child
        BY <1>4, <2>3, Zenon DEF monitorChildWorkflows, AllSeen
      <3>2. handled' = Branches => \A c \in Branches : child[c].st \in Closed
        BY <2>1, <3>1, Zenon DEF NodeInv, FuturesTell
      <3> QED
        BY <1>0, <2>1, <3>1, <3>2, ParentLeaves, ParentQuiet, Zenon DEF Resting
    <2> QED
      BY <2>2, <2>3, Zenon
  <1> QED
    BY <1>1, <1>2, <1>3, <1>4, Zenon

\* A child broadcasts, once.
LEMMA EmitKeeps ==
  ASSUME NodeInv, RendezvousInv, NEW b \in Branches, handleSignalingEmit(b)
  PROVE  RendezvousInv'
  <1> DEFINE w == child[b].visit
             e == [visit |-> w, from |-> b]
  <1>0. /\ child \in [Branches -> Children] /\ MaxVisits \in Nat
        /\ inbox \in Seq([visit : 1 .. MaxVisits, from : Branches])
    BY SplitAssumption, Zenon DEF NodeInv, SplitTypeOK, RendezvousInv, BroadcastsTell
  <1>1. /\ child[b].st = "working" /\ IsOpen(b) /\ BeforeEmit(b) /\ BeforeWait(b)
        /\ inbox' = Append(inbox, e) /\ sent' = sent \cup {<<w, b>>}
        /\ UNCHANGED <<mode, phase, visit, future, clean>>
    BY Zenon DEF handleSignalingEmit, IsOpen, Closed, BeforeEmit, BeforeWait
  <1>2. /\ child'[b] = [child[b] EXCEPT !.st = AtWait(child[b].left)]
        /\ \A d \in Branches \ {b} : child'[d] = child[d]
    BY <1>0, Zenon DEF handleSignalingEmit
  <1>3. /\ child'[b].visit = w /\ child'[b].st = AtWait(N - 1) /\ child'[b].at = child[b].at
        /\ child'[b].due = child[b].due /\ child'[b].got = child[b].got
        /\ child'[b].left = N - 1 /\ child'[b].took = 0 /\ child[b].took = 0
    <2>1. child[b].left = N - 1 /\ child[b].took = 0
      BY <1>1, Zenon DEF RendezvousInv, WaitsTell, WaitTells
    <2> QED
      BY <1>0, <1>2, <2>1 DEF Children
  <1>4. w \in 1 .. MaxVisits /\ <<w, b>> \notin sent
    <2>1. w \in 1 .. MaxVisits
      BY <1>0, <1>1 DEF RendezvousInv, VisitsTell, Children
    <2> QED
      BY <1>1, <2>1, Zenon DEF RendezvousInv, BroadcastsTell
  <1>5. ASSUME NEW d \in Branches
        PROVE  /\ child'[d].visit = child[d].visit /\ Signals(d)' = Signals(d)
               /\ IsOpen(d)' <=> IsOpen(d)
               /\ BeforeWait(d)' => BeforeWait(d)
               /\ AfterWait(d)' => AfterWait(d) \/ Branches = {d}
               /\ BeforeEmit(d)' <=> BeforeEmit(d) /\ d # b
               /\ WaitTells(d)'
    <2>1. CASE d # b
      BY <1>2, <2>1, Zenon DEF IsOpen, BeforeWait, InWait, AfterWait, BeforeEmit, Signals,
                               RendezvousInv, WaitsTell, WaitTells
    <2>2. CASE d = b /\ N = 1
      <3>1. child'[b].st = "finishing" /\ Branches = {b}
        BY <1>3, <2>2 DEF AtWait, Branches
      <3> QED
        BY <1>1, <1>3, <2>2, <3>1, Zenon DEF IsOpen, Closed, BeforeWait, InWait, BeforeEmit, Signals, WaitTells
    <2>3. CASE d = b /\ N # 1
      <3>1. /\ child'[b].st = "waiting"
            /\ N - 1 \in 1 .. N - 1 /\ 0 + (N - 1) >= N - 1
        BY <1>3, <2>3, SplitAssumption DEF AtWait
      <3> QED
        BY <1>1, <1>3, <2>3, <3>1, Zenon DEF IsOpen, Closed, BeforeWait, InWait, AfterWait, BeforeEmit,
                                             Signals, WaitTells, Passed
    <2> QED
      BY <2>1, <2>2, <2>3, Zenon
  <1>6. /\ inbox' \in Seq([visit : 1 .. MaxVisits, from : Branches])
        /\ Len(inbox') = Len(inbox) + 1 /\ inbox'[Len(inbox) + 1] = e
        /\ \A i \in DOMAIN inbox : i \in DOMAIN inbox' /\ inbox'[i] = inbox[i]
        /\ \A i \in DOMAIN inbox' : i \in DOMAIN inbox \/ i = Len(inbox) + 1
    BY <1>0, <1>1, <1>4
  <1>7. \A v, d : InChannel(v, d)' <=> InChannel(v, d) \/ (v = w /\ d = b)
    <2> TAKE v, d
    <2>1. ASSUME InChannel(v, d) PROVE InChannel(v, d)'
      BY <1>6, <2>1, Zenon DEF InChannel
    <2>2. ASSUME v = w, d = b PROVE InChannel(v, d)'
      <3>1. Len(inbox) + 1 \in DOMAIN inbox' /\ inbox'[Len(inbox) + 1] = [visit |-> v, from |-> d]
        BY <1>0, <1>6, <2>2
      <3> QED
        BY <3>1, Zenon DEF InChannel
    <2>3. ASSUME InChannel(v, d)', ~InChannel(v, d) PROVE v = w /\ d = b
      <3>1. PICK i \in DOMAIN inbox' : inbox'[i] = [visit |-> v, from |-> d]
        BY <2>3, Zenon DEF InChannel
      <3>2. i = Len(inbox) + 1
        BY <1>6, <2>3, <3>1, Zenon DEF InChannel
      <3>3. [visit |-> v, from |-> d] = [visit |-> w, from |-> b]
        BY <1>6, <3>1, <3>2, Zenon
      <3> QED
        BY <3>3, Zenon
    <2> QED
      BY <2>1, <2>2, <2>3, Zenon
  <1>8. ~InChannel(w, b)
    BY <1>4, Zenon DEF RendezvousInv, BroadcastsTell
  <1>9. BroadcastsTell'
    <2>1. \A i, j \in DOMAIN inbox' : inbox'[i] = inbox'[j] => i = j
      <3>1. \A i \in DOMAIN inbox : inbox[i] # e
        BY <1>8, Zenon DEF InChannel
      <3>2. \A i, j \in DOMAIN inbox : inbox[i] = inbox[j] => i = j
        BY Zenon DEF RendezvousInv, BroadcastsTell
      <3> QED
        BY <1>6, <3>1, <3>2, Zenon
    <2>2. ASSUME NEW v \in 1 .. MaxVisits, NEW d \in Branches
          PROVE  /\ InChannel(v, d)' => <<v, d>> \in sent'
                 /\ <<v, d>> \in sent' => v <= child'[d].visit /\ (v = child'[d].visit => ~BeforeEmit(d)')
      <3>1. CASE <<v, d>> \in sent
        BY <1>1, <1>4, <1>5, <3>1, Zenon DEF RendezvousInv, BroadcastsTell
      <3>2. CASE v = w /\ d = b
        BY <1>0, <1>1, <1>4, <1>5, <3>2
      <3>3. CASE <<v, d>> \notin sent /\ ~(v = w /\ d = b)
        BY <1>1, <1>7, <3>3, Zenon DEF RendezvousInv, BroadcastsTell
      <3> QED
        BY <3>1, <3>2, <3>3, Zenon
    <2> QED
      BY <1>6, <2>1, <2>2, Zenon DEF BroadcastsTell
  <1>10. VisitsTell'
    BY <1>1, <1>5, Zenon DEF RendezvousInv, VisitsTell
  <1>11. CleanIsAlone'
    <2>1. ASSUME NEW d \in Branches PROVE Heard(d)' = Heard(d)
      <3>1. ASSUME NEW c
            PROVE  (<<child[d].visit, c>> \in sent /\ ~InChannel(child[d].visit, c))'
                     <=> (<<child[d].visit, c>> \in sent /\ ~InChannel(child[d].visit, c))
        BY <1>1, <1>4, <1>5, <1>7, Zenon
      <3> QED
        BY <3>1, Zenon DEF Heard
    <2>2. ASSUME NEW d \in Branches, visit \in clean
          PROVE  /\ \A v \in 1 .. MaxVisits : InChannel(v, d)' => v = visit
                 /\ IsOpen(d)' => child'[d].visit = visit
                 /\ phase = "starting" /\ <<visit, d>> \in sent' => InChannel(visit, d)'
      BY <1>1, <1>5, <1>7, <2>2, Zenon DEF RendezvousInv, CleanIsAlone
    <2>3. ASSUME NEW d \in Branches, child'[d].visit \in clean
          PROVE  /\ BeforeWait(d)' => Signals(d)' = Cardinality(Heard(d)')
                 /\ AfterWait(d)' => \A c \in Branches \ {d} : <<child'[d].visit, c>> \in sent'
      BY <1>1, <1>5, <2>1, <2>3, Zenon DEF RendezvousInv, CleanIsAlone
    <2> QED
      BY <1>1, <2>2, <2>3, Zenon DEF CleanIsAlone
  <1>12. NothingLeft' /\ WaitsTell'
    BY <1>1, <1>5, Zenon DEF RendezvousInv, NothingLeft, WaitsTell
  <1> QED
    BY <1>9, <1>10, <1>11, <1>12, Zenon DEF RendezvousInv

-----------------------------------------------------------------------------
(***************************************************************************)
(* The notifications among the children.                                   *)
(***************************************************************************)

\* A child hears of siblings only, and of all of them when it has counted N - 1.
LEMMA HeardCounts ==
  ASSUME NEW b \in Branches
  PROVE  /\ IsFiniteSet(Heard(b)) /\ Cardinality(Heard(b)) \in Nat
         /\ Cardinality(Heard(b)) >= N - 1 => Heard(b) = Branches \ {b}
  <1>1. IsFiniteSet(Branches) /\ Cardinality(Branches) = N
    BY FS_Interval, SplitAssumption DEF Branches
  <1>2. IsFiniteSet(Branches \ {b}) /\ Cardinality(Branches \ {b}) = N - 1
    BY <1>1, FS_RemoveElement, Zenon
  <1>3. Heard(b) \in SUBSET (Branches \ {b})
    BY Zenon DEF Heard
  <1>4. /\ IsFiniteSet(Heard(b)) /\ Cardinality(Heard(b)) <= N - 1
        /\ N - 1 = Cardinality(Heard(b)) => Branches \ {b} = Heard(b)
    BY <1>2, <1>3, FS_Subset
  <1>5. Cardinality(Heard(b)) \in Nat
    BY <1>4, FS_CardinalityType, Zenon
  <1> QED
    BY <1>4, <1>5, SplitAssumption

\* Every step of a child is one, but its start and its broadcast.
LEMMA ChildQuiet ==
  ASSUME NodeInv, RendezvousInv, IsSplitTask, NEW b \in Branches, ChildStep(b),
         ~TemporalStarts(b), ~handleSignalingEmit(b)
  PROVE  Quiet
  <1>0. child \in [Branches -> Children] /\ child[b] \in Children /\ clean \subseteq Nat
    BY DEF NodeInv, SplitTypeOK, RendezvousInv, VisitsTell
  <1> USE DEF Closed, IsOpen, BeforeEmit, InWait, BeforeWait, AfterWait, Signals, WaitTells, Passed
  <1>1. CASE ChildSuspends(b) \/ ChildAnswered(b) \/ ChildResumes(b)
    <2>1. PICK st : /\ Moves(b, st)
                    /\ \/ child[b].st \in {"working", "suspended"} /\ st \in {"working", "suspended"}
                       \/ child[b].st = "parked" /\ st = child[b].at
      BY <1>1, Zenon DEF ChildSuspends, ChildAnswered, ChildResumes
    <2>2. /\ child'[b] = [child[b] EXCEPT !.st = st]
          /\ \A d \in Branches \ {b} : child'[d] = child[d] /\ future'[d] = future[d]
          /\ UNCHANGED <<mode, phase, visit, future, inbox, sent, clean>>
      BY <1>0, <2>1, Zenon DEF Moves
    <2>3. /\ child'[b].visit = child[b].visit /\ child'[b].st = st
          /\ child'[b].due = child[b].due /\ child'[b].got = child[b].got
          /\ child'[b].left = child[b].left /\ child'[b].took = child[b].took
          /\ child[b].at \in {"working", "waiting", "finishing"}
      BY <1>0, <2>2 DEF Children
    <2>4. WaitTells(b) => WaitTells(b)'
      BY <1>0, <2>1, <2>3, SplitAssumption DEF Children
    <2> QED
      BY <2>1, <2>2, <2>3, <2>4, OneChildQuiet, Zenon
  <1>2. CASE ChildParks(b)
    <2>1. /\ child'[b] = [child[b] EXCEPT !.st = "parked", !.at = child[b].st]
          /\ \A d \in Branches \ {b} : child'[d] = child[d] /\ future'[d] = future[d]
          /\ UNCHANGED <<mode, phase, visit, future, inbox, sent, clean>>
          /\ child[b].st \in {"working", "finishing"}
      BY <1>0, <1>2, Zenon DEF ChildParks
    <2>2. /\ child'[b].visit = child[b].visit /\ child'[b].st = "parked"
          /\ child'[b].due = child[b].due /\ child'[b].got = child[b].got
          /\ child'[b].left = child[b].left /\ child'[b].took = child[b].took
          /\ child'[b].at = child[b].st
      BY <1>0, <2>1 DEF Children
    <2> QED
      BY <2>1, <2>2, OneChildQuiet, ZenonT(30)
  <1>3. CASE CancelArrives(b)
    <2>1. /\ child'[b] = [child[b] EXCEPT !.cancel = "received"]
          /\ \A d \in Branches \ {b} : child'[d] = child[d] /\ future'[d] = future[d]
          /\ UNCHANGED <<mode, phase, visit, future, inbox, sent, clean>>
          /\ IsOpen(b)
      BY <1>0, <1>3, Zenon DEF CancelArrives
    <2>2. /\ child'[b].visit = child[b].visit /\ child'[b].st = child[b].st
          /\ child'[b].due = child[b].due /\ child'[b].got = child[b].got
          /\ child'[b].left = child[b].left /\ child'[b].took = child[b].took
          /\ child'[b].at = child[b].at
      BY <1>0, <2>1 DEF Children
    <2> QED
      BY <2>1, <2>2, OneChildQuiet, ZenonT(30)
  <1>4. CASE handleSignalingWait(b)
    <2>1. /\ \A d \in Branches \ {b} : child'[d] = child[d] /\ future'[d] = future[d]
          /\ UNCHANGED <<mode, phase, visit, future, inbox, sent, clean>>
          /\ child[b].st = "waiting" /\ IsOpen(b)
          /\ \/ child'[b] = [child[b] EXCEPT !.got = child[b].got - 1, !.took = child[b].took + 1,
                                             !.left = child[b].left - 1, !.st = AtWait(child[b].left - 1)]
             \/ child'[b] = [child[b] EXCEPT !.got = child[b].got - 1, !.took = child[b].took + 1,
                                             !.st = "parked", !.at = "waiting"]
      BY <1>0, <1>4, Zenon DEF handleSignalingWait
    <2>2. child[b].left \in 1 .. N - 1 /\ child[b].took + child[b].left >= N - 1
      BY <2>1, Zenon DEF RendezvousInv, WaitsTell
    <2>3. /\ child'[b].visit = child[b].visit /\ child'[b].due = child[b].due
          /\ child'[b].got = child[b].got - 1 /\ child'[b].took = child[b].took + 1
          /\ \/ child'[b].left = child[b].left - 1 /\ child'[b].st = AtWait(child[b].left - 1)
             \/ child'[b].left = child[b].left /\ child'[b].st = "parked" /\ child'[b].at = "waiting"
      BY <1>0, <2>1, Zenon DEF Children
    <2>4. /\ ~BeforeEmit(b)' /\ BeforeWait(b) /\ Signals(b)' = Signals(b) /\ WaitTells(b)'
          /\ AfterWait(b)' => child[b].left = 1
      BY <1>0, <2>1, <2>2, <2>3, SplitAssumption DEF Children, AtWait
    <2>5. AfterWait(b)' /\ child[b].visit \in clean => Heard(b) = Branches \ {b}
      <3> SUFFICES ASSUME AfterWait(b)', child[b].visit \in clean PROVE Heard(b) = Branches \ {b}
        BY Zenon
      <3>1. child[b].left = 1 /\ Signals(b) = Cardinality(Heard(b))
        BY <2>4, Zenon DEF RendezvousInv, CleanIsAlone
      <3>2. Signals(b)' >= N - 1
        BY <1>0, <2>2, <2>3, <3>1, SplitAssumption, <1>4 DEF Children, handleSignalingWait
      <3> QED
        BY <2>4, <3>1, <3>2, HeardCounts, Zenon
    <2> QED
      BY <2>1, <2>3, <2>4, <2>5, OneChildQuiet, Zenon
  <1>5. CASE ChildCompletes(b)
    BY <1>5, EndQuiet, Zenon DEF ChildCompletes
  <1>6. CASE ChildAborts(b) \/ ChildFails(b) \/ ChildCanceled(b)
    BY <1>6, EndQuiet, Zenon DEF ChildAborts, ChildFails, ChildCanceled
  <1>7. CASE SignalArrives(b)
    <2>1. /\ child'[b] = [child[b] EXCEPT !.due = child[b].due - 1, !.got = child[b].got + 1]
          /\ \A d \in Branches \ {b} : child'[d] = child[d] /\ future'[d] = future[d]
          /\ UNCHANGED <<mode, phase, visit, future, inbox, sent, clean>>
          /\ IsOpen(b)
      BY <1>0, <1>7, Zenon DEF SignalArrives
    <2>2. /\ child'[b].visit = child[b].visit /\ child'[b].st = child[b].st
          /\ child'[b].left = child[b].left /\ child'[b].took = child[b].took
          /\ child'[b].at = child[b].at
          /\ Signals(b)' = Signals(b)
      BY <1>0, <2>1 DEF Children
    <2> QED
      BY <2>1, <2>2, OneChildQuiet, ZenonT(30)
  <1>8. CASE ChildWaitCompleted(b)
    <2>1. /\ child'[b] = [child[b] EXCEPT !.left = child[b].left - 1, !.st = AtWait(child[b].left - 1)]
          /\ \A d \in Branches \ {b} : child'[d] = child[d] /\ future'[d] = future[d]
          /\ UNCHANGED <<mode, phase, visit, future, inbox, sent, clean>>
          /\ child[b].st = "parked" /\ child[b].at = "waiting" /\ IsOpen(b)
      BY <1>0, <1>8, Zenon DEF ChildWaitCompleted
    <2>2. child[b].left \in 1 .. N - 1 /\ child[b].took + child[b].left >= N
      BY <2>1, Zenon DEF RendezvousInv, WaitsTell
    <2>3. /\ child'[b].visit = child[b].visit /\ child'[b].due = child[b].due
          /\ child'[b].got = child[b].got /\ child'[b].took = child[b].took
          /\ child'[b].left = child[b].left - 1 /\ child'[b].st = AtWait(child[b].left - 1)
      BY <1>0, <2>1 DEF Children
    <2>4. /\ ~BeforeEmit(b)' /\ BeforeWait(b) /\ Signals(b)' = Signals(b) /\ WaitTells(b)'
          /\ AfterWait(b)' => child[b].left = 1
      BY <1>0, <2>1, <2>2, <2>3, SplitAssumption DEF Children, AtWait
    <2>5. AfterWait(b)' /\ child[b].visit \in clean => Heard(b) = Branches \ {b}
      <3> SUFFICES ASSUME AfterWait(b)', child[b].visit \in clean PROVE Heard(b) = Branches \ {b}
        BY Zenon
      <3>1. child[b].left = 1 /\ Signals(b) = Cardinality(Heard(b))
        BY <2>4, Zenon DEF RendezvousInv, CleanIsAlone
      <3>2. Signals(b) >= N - 1
        BY <1>0, <2>2, <3>1, SplitAssumption DEF Children
      <3> QED
        BY <3>1, <3>2, HeardCounts, Zenon
    <2> QED
      BY <2>1, <2>3, <2>4, <2>5, OneChildQuiet, Zenon
  <1> QED
    BY <1>1, <1>2, <1>3, <1>4, <1>5, <1>6, <1>7, <1>8, Zenon DEF ChildStep

\* Temporal answers the request for a child.
LEMMA StartKeeps ==
  ASSUME NodeInv, RendezvousInv, NEW b \in Branches, TemporalStarts(b)
  PROVE  RendezvousInv'
  <1>0. /\ child \in [Branches -> Children] /\ future \in [Branches -> Futures]
        /\ visit \in 1 .. MaxVisits /\ MaxVisits \in Nat
        /\ \A d \in Branches : child[d].visit \in Nat
    BY SplitAssumption DEF NodeInv, SplitTypeOK, Children
  <1>1. /\ future[b] = "requested" /\ phase = "starting" /\ child[b].visit < visit
        /\ UNCHANGED <<mode, phase, visit, inbox, sent, clean>>
    BY Zenon DEF TemporalStarts, RendezvousInv, VisitsTell
  <1>2. \A v, d : InChannel(v, d)' <=> InChannel(v, d)
    BY <1>1, Zenon DEF InChannel
  <1>3. CASE StartRefused(b)
    <2>1. /\ UNCHANGED child /\ future'[b] = "refused"
          /\ \A d \in Branches \ {b} : future'[d] = future[d]
      BY <1>0, <1>3, Zenon DEF TemporalStarts
    <2>2. BroadcastsTell'
      BY <1>1, <1>2, <2>1, Zenon DEF RendezvousInv, BroadcastsTell, BeforeEmit
    <2>3. VisitsTell'
      BY <1>1, <2>1, Zenon DEF RendezvousInv, VisitsTell, IsOpen
    <2>4. CleanIsAlone'
      <3>1. ASSUME NEW d \in Branches PROVE Heard(d)' = Heard(d)
        BY <1>1, <1>2, <2>1, Zenon DEF Heard
      <3> QED
        BY <1>1, <1>2, <2>1, <3>1, Zenon
           DEF RendezvousInv, CleanIsAlone, IsOpen, BeforeWait, InWait, BeforeEmit, AfterWait, Signals
    <2>5. NothingLeft' /\ WaitsTell'
      BY <1>1, <1>3, <2>1, Zenon
         DEF RendezvousInv, NothingLeft, StartRefused, WaitsTell, WaitTells, InWait, BeforeEmit
    <2> QED
      BY <2>2, <2>3, <2>4, <2>5, Zenon DEF RendezvousInv
  <1>4. CASE ~StartRefused(b)
    <2>1. /\ child'[b] = Execution(visit, "working") /\ future'[b] = "running"
          /\ \A d \in Branches \ {b} : future'[d] = future[d] /\ child'[d] = child[d]
      BY <1>0, <1>4, Zenon DEF TemporalStarts
    <2>2. /\ child'[b].visit = visit /\ child'[b].st = "working" /\ Signals(b)' = 0
          /\ child'[b].left = N - 1 /\ child'[b].took = 0
      BY <2>1 DEF Execution, Signals
    <2>3. BroadcastsTell'
      <3>1. ASSUME NEW v \in 1 .. MaxVisits, NEW d \in Branches, <<v, d>> \in sent
            PROVE  v <= child'[d].visit /\ (v = child'[d].visit => ~BeforeEmit(d)')
        <4>1. v <= child[d].visit /\ (v = child[d].visit => ~BeforeEmit(d))
          BY <3>1, Zenon DEF RendezvousInv, BroadcastsTell
        <4>2. CASE d = b
          BY <1>0, <1>1, <2>2, <4>1, <4>2
        <4>3. CASE d # b
          BY <2>1, <4>1, <4>3, Zenon DEF BeforeEmit
        <4> QED
          BY <4>2, <4>3, Zenon
      <3> QED
        BY <1>1, <1>2, <3>1, Zenon DEF RendezvousInv, BroadcastsTell
    <2>4. VisitsTell'
      BY <1>0, <1>1, <2>1, <2>2 DEF RendezvousInv, VisitsTell, IsOpen
    <2>5. CleanIsAlone'
      <3>1. ASSUME NEW d \in Branches, d # b PROVE Heard(d)' = Heard(d)
        BY <1>1, <1>2, <2>1, <3>1, Zenon DEF Heard
      <3>2. ASSUME visit \in clean PROVE Heard(b)' = {}
        BY <1>1, <1>2, <2>2, <3>2, Zenon DEF Heard, RendezvousInv, CleanIsAlone
      <3>3. ~AfterWait(b)'
        BY <2>2, Zenon DEF AfterWait, Passed
      <3>4. ASSUME NEW d \in Branches, child'[d].visit \in clean
            PROVE  /\ BeforeWait(d)' => Signals(d)' = Cardinality(Heard(d)')
                   /\ AfterWait(d)' => \A c \in Branches \ {d} : <<child'[d].visit, c>> \in sent
        <4>1. CASE d = b
          BY <2>2, <3>2, <3>3, <3>4, <4>1, FS_EmptySet, Zenon
        <4>2. CASE d # b
          BY <2>1, <3>1, <3>4, <4>2, Zenon
             DEF RendezvousInv, CleanIsAlone, BeforeWait, InWait, BeforeEmit, AfterWait, Signals
        <4> QED
          BY <4>1, <4>2, Zenon
      <3>5. ASSUME NEW d \in Branches, visit \in clean
            PROVE  /\ \A v \in 1 .. MaxVisits : InChannel(v, d)' => v = visit
                   /\ IsOpen(d)' => child'[d].visit = visit
                   /\ <<visit, d>> \in sent => InChannel(visit, d)'
        BY <1>1, <1>2, <2>1, <2>2, <3>5, ZenonT(30) DEF RendezvousInv, CleanIsAlone, IsOpen
      <3> QED
        BY <1>1, <3>4, <3>5, Zenon DEF CleanIsAlone
    <2>6. NothingLeft'
      BY <1>1, <2>1, Zenon DEF RendezvousInv, NothingLeft, IsOpen
    <2>7. WaitsTell'
      BY <2>1, <2>2, Zenon DEF RendezvousInv, WaitsTell, WaitTells, InWait, BeforeEmit
    <2> QED
      BY <2>3, <2>4, <2>5, <2>6, <2>7, Zenon DEF RendezvousInv
  <1> QED
    BY <1>3, <1>4, Zenon

\* The oldest element of a channel.
LEMMA HeadFacts ==
  ASSUME NEW R, NEW s \in Seq(R), s # <<>>
  PROVE  Head(s) \in R /\ Head(s) = s[1] /\ 1 \in DOMAIN s
  OBVIOUS

\* The parent hands on the oldest broadcast: every sibling that counts them counts one more.
LEMMA MulticastKeeps ==
  ASSUME NodeInv, RendezvousInv, Multicast
  PROVE  RendezvousInv'
  <1> DEFINE e == Head(inbox)
  <1>0. /\ child \in [Branches -> Children] /\ MaxVisits \in Nat
        /\ inbox \in Seq([visit : 1 .. MaxVisits, from : Branches])
    BY SplitAssumption, Zenon DEF NodeInv, SplitTypeOK, RendezvousInv, BroadcastsTell
  <1>1. /\ phase = "awaiting" /\ inbox # <<>> /\ inbox' = Tail(inbox)
        /\ UNCHANGED <<mode, phase, visit, future, sent, clean>>
    BY Zenon DEF Multicast
  <1>2. /\ e = inbox[1] /\ 1 \in DOMAIN inbox /\ e.visit \in 1 .. MaxVisits /\ e.from \in Branches
        /\ e = [visit |-> e.visit, from |-> e.from]
    <2>1. e = inbox[1] /\ 1 \in DOMAIN inbox /\ e \in [visit : 1 .. MaxVisits, from : Branches]
      BY <1>0, <1>1, HeadFacts, Zenon
    <2> QED
      BY <2>1, Zenon
  <1>3. /\ inbox' \in Seq([visit : 1 .. MaxVisits, from : Branches])
        /\ \A i \in DOMAIN inbox' : i + 1 \in DOMAIN inbox /\ inbox'[i] = inbox[i + 1] /\ i + 1 # 1
        /\ \A i \in DOMAIN inbox : i = 1 \/ (i - 1 \in DOMAIN inbox' /\ inbox'[i - 1] = inbox[i])
    BY <1>0, <1>1
  <1>4. \A v, d : InChannel(v, d)' <=> InChannel(v, d) /\ [visit |-> v, from |-> d] # e
    <2>1. ASSUME NEW i \in DOMAIN inbox' PROVE inbox'[i] # e
      BY <1>2, <1>3 DEF RendezvousInv, BroadcastsTell
    <2> QED
      BY <1>2, <1>3, <2>1 DEF InChannel
  <1>5. <<e.visit, e.from>> \in sent
    <2>1. InChannel(e.visit, e.from)
      BY <1>2, Zenon DEF InChannel
    <2> QED
      BY <1>2, <2>1, Zenon DEF RendezvousInv, BroadcastsTell
  <1>6. ASSUME NEW d \in Branches
        PROVE  /\ child'[d].visit = child[d].visit
               /\ IsOpen(d)' <=> IsOpen(d)
               /\ BeforeWait(d)' <=> BeforeWait(d)
               /\ AfterWait(d)' <=> AfterWait(d)
               /\ BeforeEmit(d)' <=> BeforeEmit(d)
               /\ WaitTells(d)' <=> WaitTells(d)
               /\ Signals(d)' = IF Hears(d, e.from) THEN Signals(d) + 1 ELSE Signals(d)
    <2>1. child[d] \in Children
      BY <1>0, Zenon
    <2>2. child'[d] = IF Hears(d, e.from) THEN [child[d] EXCEPT !.due = child[d].due + 1] ELSE child[d]
      BY Zenon DEF Multicast
    <2>3. /\ child'[d].visit = child[d].visit /\ child'[d].st = child[d].st /\ child'[d].at = child[d].at
          /\ child'[d].left = child[d].left /\ child'[d].took = child[d].took
          /\ Signals(d)' = IF Hears(d, e.from) THEN Signals(d) + 1 ELSE Signals(d)
      BY <2>1, <2>2 DEF Children, Signals
    <2> QED
      BY <2>3, Zenon DEF IsOpen, BeforeWait, InWait, AfterWait, BeforeEmit, WaitTells
  <1>7. BroadcastsTell'
    <2>1. \A i, j \in DOMAIN inbox' : inbox'[i] = inbox'[j] => i = j
      <3> SUFFICES ASSUME NEW i \in DOMAIN inbox', NEW j \in DOMAIN inbox', inbox'[i] = inbox'[j]
                   PROVE  i = j
        BY Zenon
      <3>1. i + 1 = j + 1
        BY <1>3 DEF RendezvousInv, BroadcastsTell
      <3> QED
        BY <1>3, <3>1
    <2>2. ASSUME NEW v \in 1 .. MaxVisits, NEW d \in Branches
          PROVE  /\ InChannel(v, d)' => <<v, d>> \in sent'
                 /\ <<v, d>> \in sent' => v <= child'[d].visit /\ (v = child'[d].visit => ~BeforeEmit(d)')
      BY <1>1, <1>4, <1>6, Zenon DEF RendezvousInv, BroadcastsTell
    <2> QED
      BY <1>3, <2>1, <2>2, Zenon DEF BroadcastsTell
  <1>8. VisitsTell'
    BY <1>1, <1>6, Zenon DEF RendezvousInv, VisitsTell
  <1>9. ASSUME visit \in clean, NEW d \in Branches, child[d].visit = visit, BeforeWait(d)
        PROVE  Signals(d)' = Cardinality(Heard(d)')
    <2>1. e.visit = visit
      <3>1. InChannel(e.visit, e.from)
        BY <1>2, Zenon DEF InChannel
      <3> QED
        BY <1>2, <1>9, <3>1, Zenon DEF RendezvousInv, CleanIsAlone
    <2>2. Hears(d, e.from) <=> d # e.from
      <3>1. IsOpen(d) /\ child[d].st \notin Closed
        BY <1>9, Zenon DEF BeforeWait, InWait, BeforeEmit, IsOpen, Closed
      <3>2. d \notin handled
        BY <3>1, Zenon DEF NodeInv, FuturesTell
      <3> QED
        BY <3>1, <3>2, Zenon DEF Hears
    <2>3. Signals(d) = Cardinality(Heard(d)) /\ IsFiniteSet(Heard(d))
      BY <1>9, HeardCounts, Zenon DEF RendezvousInv, CleanIsAlone
    <2>4. CASE d = e.from
      <3>1. Heard(d)' = Heard(d)
        <4>1. ASSUME NEW c \in Branches \ {d}
              PROVE  (<<child[d].visit, c>> \in sent /\ ~InChannel(child[d].visit, c))'
                       <=> (<<child[d].visit, c>> \in sent /\ ~InChannel(child[d].visit, c))
          BY <1>1, <1>2, <1>4, <1>5, <1>6, <1>9, <2>1, <2>4
        <4> QED
          BY <4>1, Zenon DEF Heard
      <3> QED
        BY <1>6, <2>2, <2>3, <2>4, <3>1, Zenon
    <2>5. CASE d # e.from
      <3>0. ASSUME NEW c
            PROVE  (<<child[d].visit, c>> \in sent /\ ~InChannel(child[d].visit, c))'
                     <=> (<<child[d].visit, c>> \in sent /\ ~InChannel(child[d].visit, c)) \/ c = e.from
        BY <1>1, <1>2, <1>4, <1>5, <1>6, <1>9, <2>1
      <3>1. Heard(d)' = Heard(d) \cup {e.from}
        BY <1>2, <2>5, <3>0, Zenon DEF Heard
      <3>2. e.from \notin Heard(d)
        BY <1>2, <1>9, <2>1, Zenon DEF Heard, InChannel
      <3>3. Cardinality(Heard(d)') = Cardinality(Heard(d)) + 1
        BY <2>3, <3>1, <3>2, FS_AddElement, Zenon
      <3> QED
        BY <1>6, <2>2, <2>3, <2>5, <3>3, Zenon
    <2> QED
      BY <2>4, <2>5, Zenon
  <1>10. CleanIsAlone'
    <2>1. \A d \in Branches : child[d].visit = visit
      BY <1>1, Zenon DEF Multicast, NodeInv, SplitTypeOK, Futures, PhaseTells, FuturesTell
    <2>2. ASSUME NEW d \in Branches, visit \in clean
          PROVE  /\ \A v \in 1 .. MaxVisits : InChannel(v, d)' => v = visit
                 /\ IsOpen(d)' => child'[d].visit = visit
      BY <1>4, <1>6, <2>1, <2>2, Zenon DEF RendezvousInv, CleanIsAlone
    <2>3. ASSUME NEW d \in Branches, child'[d].visit \in clean
          PROVE  /\ BeforeWait(d)' => Signals(d)' = Cardinality(Heard(d)')
                 /\ AfterWait(d)' => \A c \in Branches \ {d} : <<child'[d].visit, c>> \in sent
      BY <1>6, <1>9, <2>1, <2>3, Zenon DEF RendezvousInv, CleanIsAlone
    <2> QED
      BY <1>1, <2>2, <2>3, Zenon DEF CleanIsAlone
  <1>11. NothingLeft' /\ WaitsTell'
    BY <1>1, <1>6, Zenon DEF RendezvousInv, NothingLeft, WaitsTell
  <1> QED
    BY <1>7, <1>8, <1>10, <1>11, Zenon DEF RendezvousInv

\* A visit begins.
LEMMA SpawnKeeps ==
  ASSUME NodeInv, RendezvousInv, IsSplitTask, spawnChildWorkflows
  PROVE  RendezvousInv'
  <1>0. visit \in 1 .. MaxVisits /\ MaxVisits \in Nat /\ \A b \in Branches : child[b].visit \in Nat
    BY SplitAssumption DEF NodeInv, SplitTypeOK, Children
  <1>1. /\ phase = "ready" /\ phase' = "starting" /\ UNCHANGED <<mode, visit, child, inbox, sent>>
        /\ \A b \in Branches : future'[b] = "requested" /\ child[b].visit < visit
        /\ clean' = IF inbox = <<>> /\ \A b \in Branches : ~IsOpen(b) THEN clean \cup {visit} ELSE clean
        /\ visit \notin clean
    BY Zenon DEF spawnChildWorkflows, RendezvousInv, VisitsTell
  <1>2. \A v, b : InChannel(v, b)' <=> InChannel(v, b)
    BY <1>1, Zenon DEF InChannel
  <1>3. \A b \in Branches : <<visit, b>> \notin sent
    BY <1>0, <1>1 DEF RendezvousInv, BroadcastsTell
  <1>4. ASSUME NEW b \in Branches
        PROVE  /\ Heard(b)' = Heard(b)
               /\ IsOpen(b)' <=> IsOpen(b)
               /\ BeforeWait(b)' <=> BeforeWait(b)
               /\ AfterWait(b)' <=> AfterWait(b)
               /\ BeforeEmit(b)' <=> BeforeEmit(b)
               /\ Signals(b)' = Signals(b) /\ (WaitTells(b)' <=> WaitTells(b))
               /\ child[b].visit \in clean' <=> child[b].visit \in clean
    <2>1. child[b].visit \in clean' <=> child[b].visit \in clean
      BY <1>0, <1>1
    <2> QED
      BY <1>1, <1>2, <2>1, Zenon DEF Heard, IsOpen, BeforeWait, InWait, AfterWait, BeforeEmit, Signals, WaitTells
  <1>5. BroadcastsTell'
    BY <1>1, <1>2, <1>4, Zenon DEF RendezvousInv, BroadcastsTell
  <1>6. VisitsTell'
    <2>1. \A v \in clean' : v \in 1 .. visit
      BY <1>0, <1>1 DEF RendezvousInv, VisitsTell
    <2> QED
      BY <1>1, <1>4, <2>1, Zenon DEF RendezvousInv, VisitsTell
  <1>7. CleanIsAlone'
    <2>1. ASSUME visit \in clean'
          PROVE  inbox = <<>> /\ \A b \in Branches : ~IsOpen(b)
      BY <1>1, <2>1, Zenon
    <2>2. visit \in clean' => \A v, b : ~InChannel(v, b)
      BY <2>1 DEF InChannel
    <2>3. ASSUME NEW b \in Branches, child[b].visit \in clean'
          PROVE  /\ BeforeWait(b)' => Signals(b)' = Cardinality(Heard(b)')
                 /\ AfterWait(b)' => \A c \in Branches \ {b} : <<child'[b].visit, c>> \in sent'
      BY <1>1, <1>4, <2>3, Zenon DEF RendezvousInv, CleanIsAlone
    <2> QED
      BY <1>1, <1>2, <1>3, <1>4, <2>1, <2>2, <2>3, Zenon DEF CleanIsAlone
  <1>8. NothingLeft'
    <2>1. mode # "FAIL_FAST" => inbox = <<>> /\ \A b \in Branches : ~IsOpen(b)
      BY <1>1, Zenon DEF RendezvousInv, NothingLeft
    <2> QED
      BY <1>1, <1>4, <2>1, Zenon DEF NothingLeft
  <1>9. WaitsTell'
    BY <1>4, Zenon DEF RendezvousInv, WaitsTell
  <1> QED
    BY <1>5, <1>6, <1>7, <1>8, <1>9, Zenon DEF RendezvousInv

\* The node is left for its next visit.
LEMMA AgainKeeps ==
  ASSUME NodeInv, RendezvousInv, Again, phase \in {"parked", "completed", "waved"}
  PROVE  RendezvousInv'
  <1>0. /\ visit \in 1 .. MaxVisits /\ MaxVisits \in Nat
        /\ \A b \in Branches : child[b].visit \in Nat /\ child[b].visit <= visit
    <2>1. \A b \in Branches : future[b] \in Futures /\ child[b].visit \in Nat
      BY SplitAssumption DEF NodeInv, SplitTypeOK, Children
    <2>2. visit \in 1 .. MaxVisits /\ MaxVisits \in Nat
      BY SplitAssumption, Zenon DEF NodeInv, SplitTypeOK
    <2> QED
      BY <2>1, <2>2 DEF NodeInv, FuturesTell, RendezvousInv, VisitsTell, Futures
  <1>1. /\ phase' = "ready" /\ visit' = visit + 1 /\ UNCHANGED <<mode, child, inbox, sent, clean>>
        /\ \A b \in Branches : future'[b] = "none"
    BY Zenon DEF Again
  <1>2. \A v, b : InChannel(v, b)' <=> InChannel(v, b)
    BY <1>1, Zenon DEF InChannel
  <1>3. visit' \notin clean
    BY <1>0, <1>1 DEF RendezvousInv, VisitsTell
  <1>4. ASSUME NEW b \in Branches
        PROVE  /\ Heard(b)' = Heard(b)
               /\ IsOpen(b)' <=> IsOpen(b)
               /\ BeforeWait(b)' <=> BeforeWait(b)
               /\ AfterWait(b)' <=> AfterWait(b)
               /\ BeforeEmit(b)' <=> BeforeEmit(b)
               /\ Signals(b)' = Signals(b) /\ (WaitTells(b)' <=> WaitTells(b))
    BY <1>1, <1>2, Zenon DEF Heard, IsOpen, BeforeWait, InWait, AfterWait, BeforeEmit, Signals, WaitTells
  <1>5. BroadcastsTell'
    BY <1>1, <1>2, <1>4, Zenon DEF RendezvousInv, BroadcastsTell
  <1>6. VisitsTell'
    <2>1. \A v \in clean : v \in 1 .. visit'
      BY <1>0, <1>1 DEF RendezvousInv, VisitsTell
    <2>2. \A b \in Branches : child[b].visit < visit'
      BY <1>0, <1>1
    <2> QED
      BY <1>1, <1>3, <1>4, <2>1, <2>2, Zenon DEF RendezvousInv, VisitsTell
  <1>7. CleanIsAlone'
    BY <1>1, <1>3, <1>4, Zenon DEF RendezvousInv, CleanIsAlone
  <1>8. NothingLeft' /\ WaitsTell'
    BY <1>1, <1>4, Zenon DEF RendezvousInv, NothingLeft, WaitsTell
  <1> QED
    BY <1>5, <1>6, <1>7, <1>8, Zenon DEF RendezvousInv

\* A node that was not visited has heard of nobody.
LEMMA InitRendezvous == SplitInit => RendezvousInv
  <1> SUFFICES ASSUME SplitInit PROVE RendezvousInv
    BY Zenon
  <1>1. \A b \in Branches : child[b].visit = 0 /\ child[b].st = "none"
    BY Zenon DEF SplitInit, NoChild, Execution
  <1>2. BroadcastsTell
    BY DEF SplitInit, BroadcastsTell, InChannel
  <1>3. VisitsTell
    BY <1>1 DEF SplitInit, VisitsTell, IsOpen
  <1>4. CleanIsAlone
    BY Zenon DEF SplitInit, CleanIsAlone
  <1>5. NothingLeft /\ WaitsTell
    BY <1>1, Zenon DEF SplitInit, NothingLeft, IsOpen, WaitsTell, WaitTells, BeforeEmit, InWait
  <1> QED
    BY <1>2, <1>3, <1>4, <1>5, Zenon DEF RendezvousInv

\* Every step of a SPLIT_TASK keeps the rendezvous.
LEMMA RendezvousStep ==
  ASSUME NodeInv, RendezvousInv, IsSplitTask, [SplitNext]_splitVars
  PROVE  RendezvousInv'
  <1>1. CASE UNCHANGED splitVars
    <2>1. Quiet
      BY <1>1, Zenon DEF splitVars, Quiet, IsOpen, BeforeEmit, BeforeWait, InWait, AfterWait, Signals, WaitTells
    <2> QED
      BY <2>1, QuietKeeps, Zenon
  <1>2. ASSUME NEW b \in Branches, ChildStep(b) PROVE RendezvousInv'
    BY <1>2, ChildQuiet, QuietKeeps, StartKeeps, EmitKeeps, Zenon
  <1>3. CASE ParentStep
    <2>1. ~GatewayAwaits
      BY Zenon DEF GatewayAwaits
    <2>2. CASE AdminRetries \/ LoopsBack
      BY <2>2, AgainKeeps, Zenon DEF AdminRetries, LoopsBack
    <2> QED
      BY <1>3, <2>1, <2>2, ParentStepQuiet, QuietKeeps, MulticastKeeps, SpawnKeeps, Zenon DEF ParentStep
  <1> QED
    BY <1>1, <1>2, <1>3, Zenon DEF SplitNext

\* The parent of a split knows its own children and only them, whatever fails, is cancelled,
\* retried or left over, and the branches of a SPLIT_TASK hear of each other once
\* (spawnChildWorkflows, monitorChildWorkflows, collectAndMergeBatchResults,
\* parkNodeForAdmin, handleSignalingEmit, handleSignalingWait).
THEOREM SplitInvariance == SplitSpec => []SplitInv
  <1>1. SplitInit => (IsSplitTask => RendezvousInv)
    BY InitRendezvous, Zenon
  <1>2. NodeInv /\ (IsSplitTask => RendezvousInv) /\ [SplitNext]_splitVars => (IsSplitTask => RendezvousInv)'
    <2> SUFFICES ASSUME NodeInv, IsSplitTask => RendezvousInv, [SplitNext]_splitVars, IsSplitTask'
                 PROVE  RendezvousInv'
      BY Zenon
    <2>1. mode' = mode
      BY Zenon DEF SplitNext, splitVars, ParentStep, ChildStep, SplitRefuses, spawnChildWorkflows, SplitStarted,
         GatewayAwaits, Multicast, monitorChildWorkflows, AdminRetries, LoopsBack, Again, AdminCompletes,
         AdminAborts, ParentEnds, TemporalStarts, ChildSuspends, ChildAnswered, handleSignalingEmit,
         SignalArrives, handleSignalingWait, ChildWaitCompleted, ChildCompletes, ChildParks, ChildResumes, ChildAborts, ChildFails,
         CancelArrives, ChildCanceled, Moves, Ends
    <2> QED
      BY <2>1, RendezvousStep, Zenon DEF IsSplitTask
  <1>3. NodeInv /\ (IsSplitTask => RendezvousInv) <=> SplitInv
    BY Zenon DEF SplitInv
  <1> QED
    BY <1>1, <1>2, <1>3, NodeInvariance, PTL DEF SplitSpec

\* A branch that is past its WAITs on a visit that began clean has siblings that all have
\* broadcast on that visit, for any number of branches, and unless it fails fast every
\* visit of a SPLIT_TASK begins clean (handleSignalingWait, monitorChildWorkflows).
THEOREM RendezvousIsKept == SplitSpec => []RendezvousHolds
  <1>1. SplitInv => RendezvousHolds
    BY Zenon DEF SplitInv, RendezvousInv, CleanIsAlone, NothingLeft, AfterWait, RendezvousHolds
  <1> QED
    BY <1>1, SplitInvariance, PTL

=============================================================================
