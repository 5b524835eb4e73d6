--------------------------- MODULE TaskOrderProofs ---------------------------
(***************************************************************************)
(* Proofs about the order in which a task's row, its workflow and its      *)
(* parent change: the row, the attempts and the calls follow the workflow, *)
(* and a completion tells the parent what became of the task.              *)
(***************************************************************************)
EXTENDS TaskStepProofs

-----------------------------------------------------------------------------
(***************************************************************************)
(* The row, the attempts and the calls follow the workflow.                *)
(***************************************************************************)

\* Nothing but an END follows an END.
LEMMA EndStep ==
    ASSUME ActivationInv, EndIsLast, SameNode \/ NextNode
    PROVE  EndIsLast'
<1>1. CASE SameNode
  BY <1>1, Zenon DEF SameNode, EndIsLast
<1>2. CASE NextNode
  <2>1. /\ seq \in Nat /\ Acts \subseteq Nat /\ 1 \in Acts /\ 0 \notin Acts
        /\ seq \in 0 .. MaxSeq /\ kind \in [Acts -> AllKinds \cup {"none"}]
    BY BoundsAssumption DEF ActivationInv, TypeOK, Acts
  <2>2. PICK k : kind' = [kind EXCEPT ![seq'] = k] /\ (seq # 0 /\ kind[seq] = "END" => k = "END")
    BY <1>2, Zenon DEF NextNode
  <2>3. seq' \in Acts /\ seq' # 1 /\ seq' = IF seq = 0 THEN 2 ELSE seq + 1
    BY <1>2, <2>1 DEF NextNode
  <2>4. kind'[seq'] = k /\ \A a \in Acts : a # seq' => kind'[a] = kind[a]
    BY <2>1, <2>2, <2>3, Zenon
  <2>5. ASSUME NEW a \in Acts, NEW b \in Acts, a <= b, b <= seq', kind'[a] = "END"
        PROVE  kind'[b] = "END"
    <3>1. CASE a = b
      BY <2>5, <3>1, Zenon
    <3>2. CASE a # b
      <4>1. a \in Nat /\ b \in Nat /\ a < b /\ a # seq' /\ a # 0 /\ seq' \in Nat
        BY <2>1, <2>3, <2>5, <3>2
      <4>2. kind[a] = "END" /\ a # 1
        BY <2>4, <2>5, <4>1, Zenon DEF EndIsLast
      <4>3. a <= seq /\ seq # 0 /\ seq \in Acts
        BY <2>1, <2>3, <2>5, <4>1, <4>2 DEF Acts
      <4>4. kind[seq] = "END"
        BY <4>2, <4>3, <2>1 DEF EndIsLast
      <4>5. CASE b = seq'
        BY <2>2, <2>4, <4>3, <4>4, <4>5, Zenon
      <4>6. CASE b # seq'
        <5>1. b <= seq
          BY <2>1, <2>3, <2>5, <4>1, <4>3, <4>6
        <5> QED BY <2>4, <2>5, <4>2, <4>6, <5>1, Zenon DEF EndIsLast
      <4> QED BY <4>5, <4>6, Zenon
    <3> QED BY <3>1, <3>2, Zenon
  <2> QED BY <2>1, <2>3, <2>4, <2>5, Zenon DEF EndIsLast
<1> QED BY <1>1, <1>2, Zenon

\* Attempts and park notifications stay behind the workflow.
LEMMA RunsStep ==
    ASSUME FlowTypeOK, ActivationInv, RunsFollow, SameNode \/ NextNode, seq' \in 0 .. MaxSeq,
           AttemptsMove, HoldsMove
    PROVE  RunsFollow'
<1>0. /\ seq \in Nat /\ seq' \in Nat /\ seq <= seq' /\ holds \subseteq Acts /\ Acts \subseteq Nat
      /\ \A a \in Acts : a <= seq => kind'[a] = kind[a] /\ a <= seq'
      /\ \A y \in Attempts : y[1] \in Acts
  BY KindsKept DEF FlowTypeOK, Attempts, Acts
<1>1. ASSUME NEW y \in Attempts
      PROVE  /\ att'[y] # "off" => y[1] <= seq' /\ kind'[y[1]] \in ActivityKinds
             /\ att'[y] \in {"claim", "render"} => kind'[y[1]] \in TaskKinds
             /\ att'[y] \in {"read", "complete", "recheck", "wake"} => kind'[y[1]] = "END"
  <2>1. att[y] # "off" => y[1] <= seq' /\ kind'[y[1]] = kind[y[1]] /\ kind[y[1]] \in ActivityKinds
    BY <1>0, Zenon DEF RunsFollow
  <2>2. CASE att'[y] = "off"
    BY <2>2, Zenon
  <2>3. CASE att'[y] = att[y]
    BY <2>1, <2>3, Zenon DEF RunsFollow
  <2>4. CASE Fresh(y)
    <3>1. y[1] = seq' /\ kind'[seq'] \in ActivityKinds /\ att'[y] = FirstStep(kind'[seq'])
      BY <2>4, Zenon DEF Fresh
    <3>2. att'[y] = (IF kind'[y[1]] = "END" THEN "read" ELSE "claim")
          /\ (kind'[y[1]] # "END" => kind'[y[1]] \in TaskKinds)
      BY <3>1, Zenon DEF FirstStep, ActivityKinds
    <3> QED BY <1>0, <3>1, <3>2
  <2>5. CASE Progress(y)
    <3>1. att[y] # "off"
      BY <2>5, Zenon DEF Progress
    <3>2. \/ att[y] = "claim" /\ att'[y] = "render"
          \/ att'[y] = "report"
          \/ att[y] \in {"read", "complete", "recheck"} /\ att'[y] \in {"complete", "recheck", "wake"}
      BY <2>5, Zenon DEF Progress
    <3> QED BY <2>1, <3>1, <3>2, Zenon DEF RunsFollow
  <2> QED BY <2>2, <2>3, <2>4, <2>5, Zenon DEF AttemptsMove
<1>2. \A n \in holds' : n <= seq'
  <2>1. \A n \in holds : n <= seq'
    BY <1>0, Zenon DEF RunsFollow
  <2>2. seq' <= seq'
    BY <1>0
  <2> QED BY <2>1, <2>2, Zenon DEF HoldsMove
<1>3. seq' \in holds' => phase' \in {"PARKED", "JOINING"}
  <2>1. CASE SameNode
    BY <2>1, Zenon DEF SameNode, HoldsMove, RunsFollow
  <2>2. CASE NextNode
    <3>1. seq' > seq
      BY <1>0, <2>2 DEF NextNode
    <3>2. seq' \notin holds
      BY <1>0, <3>1 DEF RunsFollow
    <3> QED BY <3>2, Zenon DEF HoldsMove
  <2> QED BY <2>1, <2>2, Zenon
<1> QED BY <1>1, <1>2, <1>3, Zenon DEF RunsFollow

\* What each write leaves, with the workflow where it is: the row stays behind it, a closed
\* row stays closed, a row that shows the step that runs goes on to do so.
LEMMA WriteFollows ==
    ASSUME FlowInv, RowWrite, row' # row
    PROVE  /\ row.state \in ClosedStates => row'.state = row.state
           /\ row'.state = "CANCELLED" => row'.seq = row.seq + 1
           /\ row'.state # "CANCELLED" =>
                 /\ row'.seq <= seq + 1
                 /\ row'.seq = seq + 1 => row'.active = seq /\ row'.state \in {"ADVANCING", "ON_HOLD"}
                 /\ row'.active < row'.seq => row'.active \notin pending
           /\ row'.active # NoStep => row'.active <= seq /\ kind[row'.active] \in TaskKinds
           /\ row'.state = "COMPLETED" => row'.seq \in Acts /\ row'.seq <= seq /\ kind[row'.seq] = "END"
           /\ row'.state = "CANCELLED" => row'.active < row'.seq
           /\ Exists(row) => Exists(row')
           /\ row'.state # "CANCELLED" /\ StepShown /\ phase \in {"RUNNING", "SUSPENDED"}
                /\ kind[seq] \in TaskKinds =>
                 /\ row'.active = seq
                 /\ seq \in pending => row'.seq = seq /\ row'.state \in {"SHOWING", "STARTING_STEP"}
<1> USE DEF NoStep
<1>0. /\ RowInv /\ seq \in Nat /\ "END" \notin TaskKinds
      /\ row.seq \in Nat /\ row.active \in Nat /\ row.active <= row.seq
      /\ row.active \in Acts \cup {0} /\ Acts \subseteq Nat /\ 0 \notin Acts
      /\ row \in [state : RowStates, active : Acts \cup {NoStep}, seq : Nat,
                  data : Callers \cup Writers]
      /\ pending \subseteq {seq} /\ pending \subseteq Acts
      /\ \A a \in pending : future[a] = "unset"
  BY RowFacts DEF FlowInv, RowInv, ActivationInv, TypeOK, TaskKinds, Acts, OneOpenStep, OpenIsUnanswered
<1>a. /\ row.active # 0 => row.active <= seq /\ kind[row.active] \in TaskKinds
      /\ row.state = "COMPLETED" => row.seq \in Acts /\ row.seq <= seq /\ kind[row.seq] = "END"
      /\ row.state = "CANCELLED" => row.active < row.seq
      /\ row.state # "CANCELLED" /\ row.active < row.seq => row.active \notin pending
  BY Zenon DEF FlowInv, RowIsOfSteps
<1>b. row.state # "CANCELLED" =>
        /\ row.seq <= seq + 1
        /\ row.seq = seq + 1 => row.active = seq /\ row.state \in {"ADVANCING", "ON_HOLD"}
  BY Zenon DEF FlowInv, RowFollowsWorkflow
<1>1. CASE row' = InitTask(row)
  <2>1. row.state = "NONE"
    BY <1>1, Zenon DEF InitTask, Exists
  <2>2. row'.state = "STARTING" /\ row'.active = row.active /\ row'.seq = row.seq
    BY <1>0, <1>1, <2>1, Zenon DEF InitTask, Exists
  <2> QED BY <1>0, <1>a, <1>b, <2>1, <2>2, Zenon DEF ClosedStates, Exists, StepShown
<1>2. ASSUME NEW x \in Attempts, att[x] = "claim", CanClaimStep(row, x[1]), row' = ClaimStep(row, x[1])
      PROVE  /\ row.state \notin ClosedStates /\ row'.state = "STARTING_STEP"
             /\ row'.active = x[1] /\ row'.seq = x[1] /\ x[1] <= seq /\ x[1] \in Acts
             /\ kind[x[1]] \in TaskKinds /\ row.seq <= x[1]
  <2>1. x[1] \in Acts /\ x[1] <= seq /\ kind[x[1]] \in TaskKinds
    BY <1>2, Zenon DEF FlowInv, RunsFollow, Attempts
  <2>2. row.seq <= x[1] /\ row.state # "CANCELLED" /\ row'.state = "STARTING_STEP"
        /\ row'.active = x[1] /\ row'.seq = x[1]
    BY <1>2, Zenon DEF CanClaimStep, ClaimStep
  <2>3. row.state # "COMPLETED"
    <3> SUFFICES ASSUME row.state = "COMPLETED" PROVE FALSE
      BY Zenon
    <3>1. kind[x[1]] = "END"
      BY <1>a, <2>1, <2>2, Zenon DEF FlowInv, EndIsLast
    <3> QED BY <1>0, <2>1, <3>1, Zenon
  <2> QED BY <2>1, <2>2, <2>3, Zenon DEF ClosedStates
<1>3. CASE \E x \in Attempts :
              att[x] = "claim" /\ CanClaimStep(row, x[1]) /\ row' = ClaimStep(row, x[1])
  <2>1. PICK n \in Acts :
           /\ row.state \notin ClosedStates /\ row'.state = "STARTING_STEP"
           /\ row'.active = n /\ row'.seq = n /\ n <= seq
           /\ kind[n] \in TaskKinds /\ row.seq <= n
    BY <1>2, <1>3, Zenon
  <2>2. n \in Nat
    BY <1>0, Zenon
  <2>3. StepShown => n = seq
    BY <1>0, <2>1, <2>2 DEF StepShown
  <2> QED BY <1>0, <2>1, <2>2, <2>3 DEF Exists
<1>4. CASE \E x \in Attempts : \E st \in {"SHOWING", "STARTING_STEP"} :
              /\ att[x] = "render" /\ CanWriteRenderState(row, x[1])
              /\ row' = WriteRenderState(row, x[1], st)
  <2>1. PICK x \in Attempts, st \in {"SHOWING", "STARTING_STEP"} :
              /\ att[x] = "render" /\ CanWriteRenderState(row, x[1])
              /\ row' = WriteRenderState(row, x[1], st)
    BY <1>4, Zenon
  <2>2. kind[x[1]] \in TaskKinds /\ row.active = x[1] /\ row.seq = x[1]
    BY <2>1, Zenon DEF FlowInv, RunsFollow, CanWriteRenderState
  <2>3. row.state \notin ClosedStates
    BY <1>0, <1>a, <2>2 DEF ClosedStates
  <2>4. row'.state = st /\ row'.active = row.active /\ row'.seq = row.seq
    BY <1>0, <2>1, Zenon DEF WriteRenderState
  <2> QED BY <1>0, <1>a, <1>b, <2>2, <2>3, <2>4 DEF ClosedStates, Exists, StepShown
<1>5. CASE \E x \in Attempts :
              att[x] = "complete" /\ CanCompleteTask(row, x[1]) /\ row' = CompleteTask(row, x[1])
  <2>1. PICK n \in Acts :
           /\ n <= seq /\ kind[n] = "END"
           /\ CanCompleteTask(row, n) /\ row' = CompleteTask(row, n)
    BY <1>5, Zenon DEF FlowInv, RunsFollow, Attempts
  <2>2. /\ row.seq <= n /\ row.state # "CANCELLED" /\ n \in Nat
        /\ row'.state = "COMPLETED" /\ row'.seq = n /\ row'.active = row.active
    BY <1>0, <2>1, Zenon DEF CanCompleteTask, CompleteTask
  <2>3. seq \in Acts /\ kind[seq] = "END"
    <3>1. seq \in Acts
      BY <1>0, <2>1, BoundsAssumption DEF FlowInv, RowInv, ActivationInv, TypeOK, Acts
    <3> QED BY <1>0, <2>1, <3>1 DEF FlowInv, EndIsLast
  <2>4. row'.active < row'.seq => row'.active \notin pending
    BY <1>0, <2>1, <2>2
  <2>5. row'.seq <= seq + 1 /\ row'.seq # seq + 1
    BY <1>0, <2>1, <2>2
  <2> QED BY <1>0, <1>a, <2>1, <2>2, <2>3, <2>4, <2>5, Zenon DEF ClosedStates, Exists
<1>6. CASE \E n \in holds : CanHoldTask(row, n) /\ row' = HoldTask(row, n)
  <2>1. PICK n \in holds : CanHoldTask(row, n) /\ row' = HoldTask(row, n)
    BY <1>6, Zenon
  <2>2. n \in Acts /\ n \in Nat /\ n <= seq /\ (n = seq => phase \in {"PARKED", "JOINING"})
    BY <1>0, Zenon DEF FlowInv, RunsFollow, RowInv, FlowTypeOK
  <2>3. /\ row.seq <= n \/ (row.state = "ADVANCING" /\ row.seq = n + 1)
        /\ row.state \notin ClosedStates
        /\ row'.state = "ON_HOLD" /\ row'.active = row.active
        /\ row'.seq = IF row.seq > n THEN row.seq ELSE n
    BY <1>0, <2>1, Zenon DEF CanHoldTask, HoldTask
  <2>4. row'.active < row'.seq => row'.active \notin pending
    <3>1. CASE row.seq > n
      BY <1>0, <1>a, <2>3, <3>1, Zenon DEF ClosedStates
    <3>2. CASE row.seq <= n
      BY <1>0, <2>2, <2>3, <3>2
    <3> QED BY <1>0, <2>2, <3>1, <3>2
  <2>5. ASSUME StepShown, phase \in {"RUNNING", "SUSPENDED"} PROVE seq \notin pending
    BY <1>0, <2>2, <2>3, <2>5 DEF StepShown
  <2>6. row'.seq <= seq + 1 /\ (row'.seq = seq + 1 => row'.active = seq)
    BY <1>0, <1>b, <2>2, <2>3 DEF ClosedStates
  <2> QED BY <1>0, <1>a, <2>3, <2>4, <2>5, <2>6, Zenon DEF Exists, StepShown
<1>7. CASE \E c \in Callers :
              /\ sub[c].pc = "write"
              /\ CanPersistSubmission(row, sub[c].step, sub[c].seq)
              /\ row' = PersistSubmission(row, sub[c].seq, c)
  <2>1. PICK c \in Callers :
              /\ sub[c].pc = "write"
              /\ CanPersistSubmission(row, sub[c].step, sub[c].seq)
              /\ row' = PersistSubmission(row, sub[c].seq, c)
    BY <1>7, Zenon
  <2>2. /\ sub[c].seq = sub[c].step /\ sub[c].step \in Acts /\ future[sub[c].step] = c
        /\ row.state = "CANCELLED" => sub[c].seq < row.seq
    BY <2>1, Zenon DEF FlowInv, RowInv, CallsFollow, CallsAccepted
  <2>3. /\ row.active = sub[c].step /\ row.seq = sub[c].seq
        /\ row'.state = "ADVANCING" /\ row'.active = row.active /\ row'.seq = row.seq + 1
    BY <1>0, <2>1, Zenon DEF CanPersistSubmission, PersistSubmission
  <2>4. row.state \notin ClosedStates
    BY <1>0, <1>a, <2>2, <2>3 DEF ClosedStates
  <2>5. row.active \notin pending
    BY <1>0, <2>2, <2>3, CallersAssumption, Zenon
  <2> QED BY <1>0, <1>a, <2>2, <2>3, <2>4, <2>5 DEF Exists, StepShown
<1>8. CASE row.state \notin NoDraftStates /\ row' = WriteDraft(row)
  <2>1. row'.state = row.state /\ row'.active = row.active /\ row'.seq = row.seq
    BY <1>0, <1>8, Zenon DEF WriteDraft
  <2>2. row.state \notin ClosedStates
    BY <1>8, Zenon DEF NoDraftStates, ClosedStates
  <2> QED BY <1>0, <1>a, <1>b, <2>1, <2>2, Zenon DEF Exists, StepShown, ClosedStates
<1>9. CASE CanCancelTask(row) /\ row' = CancelTask(row)
  <2>1. /\ row'.state = "CANCELLED" /\ row'.active = row.active /\ row'.seq = row.seq + 1
        /\ row.state # "COMPLETED"
    BY <1>0, <1>9, Zenon DEF CanCancelTask, CancelTask
  <2> QED BY <1>0, <1>a, <2>1 DEF Exists, ClosedStates
<1> QED BY <1>1, <1>3, <1>4, <1>5, <1>6, <1>7, <1>8, <1>9, Zenon DEF RowWrite

\* The row stays behind the workflow, and names its steps.
LEMMA RowFollowStep ==
    ASSUME FlowInv, [FlowSteps]_vars, RowInv', SameNode \/ NextNode
    PROVE  RowFollowsWorkflow' /\ RowIsOfSteps'
<1>0. /\ seq \in Nat /\ seq' \in Nat /\ seq <= seq' /\ Acts \subseteq Nat
      /\ \A a \in Acts : a <= seq => kind'[a] = kind[a] /\ a <= seq'
  BY KindsKept DEF FlowInv, RowInv, Acts
<1>1. /\ row.seq \in Nat /\ row.active \in Nat /\ row.active <= row.seq /\ row.active \in Acts \cup {0}
      /\ RowInv
  BY RowFacts, Zenon DEF FlowInv, NoStep
<1>2. pending' \subseteq {seq'} /\ (SameNode => pending' \subseteq pending)
  BY Zenon DEF RowInv, ActivationInv, OneOpenStep, SameNode
<1>3. starting' = "start" \/ wf' # "NONE" => Exists(row')
  <2>1. Exists(row) => Exists(row')
    BY WriteFollows, RowStep, Zenon DEF FlowInv, RowInv
  <2>2. row' = InitTask(row) => Exists(row')
    <3>1. row \in [state : RowStates, active : Acts \cup {NoStep}, seq : Nat,
                   data : Callers \cup Writers]
      BY <1>1, RowFacts, Zenon
    <3> QED BY <3>1, Zenon DEF InitTask, Exists
  <2> QED BY <2>1, <2>2, StartStep, Zenon DEF FlowInv, RowIsOfSteps
<1>4. CASE row' = row
  <2>1. ASSUME row.state # "CANCELLED"
        PROVE  /\ row.seq <= seq' + 1
               /\ row.seq = seq' + 1 => row.active = seq' /\ row.state \in {"ADVANCING", "ON_HOLD"}
    <3>1. row.seq <= seq + 1 /\ (row.seq = seq + 1 => row.active = seq /\ row.state \in {"ADVANCING", "ON_HOLD"})
      BY <2>1, Zenon DEF FlowInv, RowFollowsWorkflow
    <3>2. row.seq = seq' + 1 => seq' = seq
      <4>1. seq \in Nat /\ seq' \in Nat /\ seq <= seq' /\ row.seq \in Nat /\ row.seq <= seq + 1
        BY <1>0, <1>1, <3>1, Zenon
      <4>2. ASSUME NEW a \in Nat, NEW b \in Nat, a <= b, b + 1 <= a + 1 PROVE b = a
        BY <4>2, SMT
      <4> QED BY <4>1, <4>2, Zenon
    <3> QED BY <1>0, <1>1, <3>1, <3>2
  <2>2. row.active # NoStep => row.active <= seq' /\ kind'[row.active] \in TaskKinds
    BY <1>0, <1>1, Zenon DEF FlowInv, RowIsOfSteps, NoStep
  <2>3. row.state = "COMPLETED" => row.seq \in Acts /\ row.seq <= seq' /\ kind'[row.seq] = "END"
    BY <1>0, Zenon DEF FlowInv, RowIsOfSteps
  <2>4. row.state # "CANCELLED" /\ row.active < row.seq => row.active \notin pending'
    <3>1. CASE SameNode
      BY <1>2, <3>1, Zenon DEF FlowInv, RowIsOfSteps
    <3>2. CASE NextNode
      <4>1. seq < seq' /\ seq' \in Acts /\ 0 \notin Acts
        BY <1>0, <3>2 DEF NextNode, Acts
      <4>2. row.active # seq'
        BY <1>0, <1>1, <4>1 DEF FlowInv, RowIsOfSteps, NoStep
      <4> QED BY <1>2, <4>2, Zenon
    <3> QED BY <3>1, <3>2, Zenon
  <2>5. row.state = "CANCELLED" => row.active < row.seq
    BY Zenon DEF FlowInv, RowIsOfSteps
  <2> QED BY <1>1, <1>3, <1>4, <2>1, <2>2, <2>3, <2>4, <2>5, Zenon DEF RowFollowsWorkflow, RowIsOfSteps
<1>5. CASE row' # row
  <2>1. RowWrite /\ UNCHANGED <<wf, seq, kind, phase, pending, future>>
    BY <1>5, RowStep, Zenon DEF FlowInv, RowInv
  <2>2. row'.active <= row'.seq
    BY Zenon DEF RowInv, RowOrdered
  <2> QED BY <1>3, <1>5, <2>1, <2>2, WriteFollows, Zenon DEF RowFollowsWorkflow, RowIsOfSteps
<1> QED BY <1>4, <1>5, Zenon

\* It does so for a call that takes no step itself.
LEMMA CallKeepsFollowing ==
    ASSUME FlowInv, [FlowSteps]_vars, RowInv', SameNode \/ NextNode, NEW c \in Callers,
           sub[c].pc # "idle"
    PROVE  /\ sub[c].step <= seq' /\ sub[c].seq <= row'.seq
           /\ sub[c].step < sub[c].seq => sub[c].step \notin pending'
           /\ row'.state = "CANCELLED" => sub[c].seq < row'.seq
<1>0. /\ seq \in Nat /\ seq' \in Nat /\ seq <= seq' /\ Acts \subseteq Nat /\ RowInv
      /\ row.seq \in Nat /\ row'.seq \in Nat /\ sub[c].seq \in Nat /\ sub[c].step \in Nat
  <2>1. sub[c].step \in Acts /\ Acts \subseteq Nat
    BY DEF FlowInv, RowInv, CallsAccepted, Acts
  <2> QED BY <2>1, KindsKept, RowFacts, Zenon DEF FlowInv, RowInv, FlowTypeOK
<1>1. /\ sub[c].step <= seq /\ sub[c].seq <= row.seq
      /\ sub[c].step < sub[c].seq => sub[c].step \notin pending
      /\ row.state = "CANCELLED" => sub[c].seq < row.seq
  BY Zenon DEF FlowInv, CallsFollow
<1>2. row'.seq >= row.seq /\ (row' # row /\ row'.state = "CANCELLED" => row'.seq = row.seq + 1)
  <2>1. row' # row => RowWrite
    BY RowStep, Zenon DEF RowInv, FlowInv
  <2> QED BY <1>0, <2>1, RowWriteEffect, WriteFollows
<1>3. sub[c].step < sub[c].seq => sub[c].step \notin pending'
  <2>1. CASE SameNode
    BY <1>1, <2>1, Zenon DEF SameNode
  <2>2. CASE NextNode
    <3>1. sub[c].step # seq'
      BY <1>0, <1>1, <2>2 DEF NextNode
    <3> QED BY <3>1, Zenon DEF RowInv, ActivationInv, OneOpenStep
  <2> QED BY <2>1, <2>2, Zenon
<1> QED BY <1>0, <1>1, <1>2, <1>3

\* The calls stay behind the row and the workflow.
LEMMA CallsStep ==
    ASSUME FlowInv, [FlowSteps]_vars, RowInv', SameNode \/ NextNode
    PROVE  CallsFollow'
<1> DEFINE Follows(s) == s.pc # "idle" =>
               /\ s.step <= seq' /\ s.seq <= row'.seq
               /\ s.step < s.seq => s.step \notin pending'
               /\ row'.state = "CANCELLED" => s.seq < row'.seq
               /\ s.pc = "write" => s.seq = s.step
<1>0. RowInv /\ FlowTypeOK /\ sub \in [Callers -> Call]
  BY Zenon DEF FlowInv, RowInv, FlowTypeOK
<1>1. ASSUME NEW d \in Callers PROVE Follows(sub[d])
  BY CallKeepsFollowing, Zenon DEF FlowInv, CallsFollow
<1>2. CASE UNCHANGED sub
  BY <1>1, <1>2, Zenon DEF CallsFollow
<1>3. ASSUME NEW c \in Callers, Follows(sub'[c]), \A d \in Callers : d # c => sub'[d] = sub[d]
      PROVE  CallsFollow'
  <2>1. ASSUME NEW d \in Callers PROVE Follows(sub'[d])
    BY <1>1, <1>3
  <2> QED BY <2>1, Zenon DEF CallsFollow
<1>4. ASSUME NEW c \in Callers, row.active # NoStep, row.state \notin ClosedStates,
             sub' = [sub EXCEPT ![c] = ReadCall("call")], UNCHANGED <<engineVars, row>>
      PROVE  CallsFollow'
  <2>1. sub'[c] = ReadCall("call") /\ \A d \in Callers : d # c => sub'[d] = sub[d]
    BY <1>0, <1>4, Zenon
  <2>2. sub'[c].pc = "call" /\ sub'[c].step = row.active /\ sub'[c].seq = row.seq
    BY <2>1 DEF ReadCall
  <2>3. seq' = seq /\ pending' = pending /\ row' = row /\ row.state # "CANCELLED" /\ row.seq \in Nat
    BY <1>0, <1>4, RowFacts, Zenon DEF engineVars, ClosedStates
  <2>4. row.active <= seq /\ (row.active < row.seq => row.active \notin pending)
    BY <1>4, <2>3, Zenon DEF FlowInv, RowIsOfSteps
  <2>5. Follows(sub'[c])
    BY <2>2, <2>3, <2>4
  <2> QED BY <1>3, <2>1, <2>5, Zenon
<1>5. ASSUME NEW c \in Callers, sub' = [sub EXCEPT ![c] = Idle] PROVE CallsFollow'
  <2>1. sub'[c] = Idle /\ \A d \in Callers : d # c => sub'[d] = sub[d]
    BY <1>0, <1>5, Zenon
  <2>2. Follows(sub'[c])
    BY <2>1 DEF Idle
  <2> QED BY <1>3, <2>1, <2>2, Zenon
<1>6. ASSUME NEW c \in Callers, sub[c].pc = "call", UNCHANGED row, CompleteActivation(sub[c].step, c),
             sub' = [sub EXCEPT ![c].pc = "write"]
      PROVE  CallsFollow'
  <2>1. /\ sub'[c].pc = "write" /\ sub'[c].step = sub[c].step /\ sub'[c].seq = sub[c].seq
        /\ \A d \in Callers : d # c => sub'[d] = sub[d]
    <3>1. sub[c] \in Call
      BY <1>0, Zenon
    <3> QED BY <1>0, <1>6, <3>1, Zenon DEF Call
  <2>2. sub[c].step \in pending
    BY <1>6, Zenon DEF CompleteActivation, UpdateActivation, Answer
  <2>3. sub[c].step = sub[c].seq
    <3>1. /\ sub[c].step <= sub[c].seq /\ sub[c].step \in Acts /\ sub[c].seq \in Nat
          /\ ~(sub[c].step < sub[c].seq)
      BY <1>0, <1>6, <2>2, RowFacts, Zenon DEF RowInv, CallsAccepted, FlowInv, CallsFollow
    <3> QED BY <3>1 DEF Acts
  <2>4. Follows(sub'[c])
    BY <1>1, <1>6, <2>1, <2>3, Zenon
  <2> QED BY <1>3, <2>1, <2>4, Zenon
<1> QED BY <1>0, <1>2, <1>4, <1>5, <1>6, CallStep, Zenon DEF SubWrite

\* A step that was claimed stays shown for as long as it waits for its submission.
LEMMA ShownStep ==
    ASSUME FlowInv, [FlowSteps]_vars, RowInv', SameNode \/ NextNode
    PROVE  ClaimedIsShown'
<1> SUFFICES ASSUME row'.state # "CANCELLED"
             PROVE  /\ Running("SUSPENDED")' => StepShown'
                    /\ \A x \in Attempts :
                          Awaited(x)' /\ kind'[seq'] \in TaskKinds /\ att'[x] \in {"render", "report"}
                            => StepShown'
  BY Zenon DEF ClaimedIsShown
<1>0. /\ RowInv /\ FlowTypeOK /\ ActivationInv /\ RunsFollow /\ seq \in Nat
      /\ row' # row => RowWrite /\ UNCHANGED <<wf, seq, kind, phase, pending, future>>
  BY RowStep DEF FlowInv, RowInv, ActivationInv, TypeOK
<1>1. row.state # "CANCELLED"
  BY <1>0, WriteFollows, Zenon DEF ClosedStates
<1>2. ASSUME SameNode, StepShown, phase \in {"RUNNING", "SUSPENDED"}, kind[seq] \in TaskKinds
      PROVE  StepShown'
  <2>1. seq' = seq /\ pending' \subseteq pending
    BY <1>2, Zenon DEF SameNode
  <2>2. CASE row' = row
    BY <1>2, <2>1, <2>2, Zenon DEF StepShown
  <2>3. CASE row' # row
    BY <1>0, <1>2, <2>1, <2>3, WriteFollows, Zenon DEF StepShown
  <2> QED BY <2>2, <2>3, Zenon
<1>3. ASSUME SameNode, NEW x \in Attempts, Awaited(x), kind[seq] \in TaskKinds,
             att[x] \in {"render", "report"}
      PROVE  StepShown'
  <2>1. StepShown /\ phase = "RUNNING"
    BY <1>1, <1>3, Zenon DEF FlowInv, ClaimedIsShown, Awaited, Running
  <2> QED BY <1>2, <1>3, <2>1, Zenon
<1>4. ASSUME Running("SUSPENDED")' PROVE StepShown'
  <2>1. wf' = "RUNNING" /\ phase' = "SUSPENDED" /\ SameNode /\ wf = "RUNNING"
    BY <1>4, Zenon DEF Running, NextNode, SameNode
  <2>2. CASE phase = "SUSPENDED"
    <3>1. kind[seq] \in TaskKinds
      BY <1>0, <2>2, Zenon DEF ActivationInv, LaterUntouched
    <3>2. StepShown
      BY <1>1, <2>1, <2>2, Zenon DEF FlowInv, ClaimedIsShown, Running
    <3> QED BY <1>2, <2>1, <2>2, <3>1, <3>2, Zenon
  <2>3. CASE phase # "SUSPENDED"
    <3>1. PICK x \in Attempts : Awaited(x) /\ att[x] = "report" /\ kind[x[1]] \in TaskKinds
      BY <1>0, <2>1, <2>3, SuspendStep, Zenon
    <3> QED BY <1>3, <2>1, <3>1, Zenon DEF Awaited
  <2> QED BY <2>2, <2>3, Zenon
<1>5. ASSUME NEW x \in Attempts, Awaited(x)', kind'[seq'] \in TaskKinds, att'[x] \in {"render", "report"}
      PROVE  StepShown'
  <2>1. wf' = "RUNNING" /\ phase' = "RUNNING" /\ x = <<seq', attempt'>> /\ x[1] = seq'
    BY <1>5, Zenon DEF Awaited, Running
  <2>2. AttemptsMove /\ ~Fresh(x) /\ attempt' = attempt
    <3>1. AttemptsMove
      BY <1>0, AttemptStep, Zenon
    <3>2. ~Fresh(x)
      BY <1>5, Zenon DEF Fresh, FirstStep
    <3> QED BY <2>1, <3>1, <3>2, Zenon DEF AttemptsMove
  <2>3. att'[x] = att[x] \/ Progress(x)
    BY <1>5, <2>2, Zenon DEF AttemptsMove
  <2>4. att[x] # "off"
    BY <1>5, <2>3, Zenon DEF Progress
  <2>5. SameNode
    <3>1. x[1] <= seq
      BY <1>0, <2>4, Zenon DEF RunsFollow
    <3> QED BY <1>0, <2>1, <3>1 DEF NextNode
  <2>6. Awaited(x) /\ kind[seq] \in TaskKinds
    BY <1>5, <2>1, <2>2, <2>5, Zenon DEF SameNode, Awaited, Running
  <2>7. CASE att[x] \in {"render", "report"}
    BY <1>3, <2>5, <2>6, <2>7, Zenon
  <2>8. CASE att[x] = "claim" /\ row' = ClaimStep(row, x[1])
    <3>1. row'.active = seq' /\ row'.seq = seq' /\ row'.state = "STARTING_STEP"
      BY <2>1, <2>8, Zenon DEF ClaimStep
    <3> QED BY <3>1, Zenon DEF StepShown
  <2>9. kind[x[1]] # "END"
    BY <2>6, Zenon DEF Awaited, TaskKinds
  <2> QED BY <1>0, <1>5, <2>3, <2>7, <2>8, <2>9, Zenon DEF Progress, RunsFollow
<1> QED BY <1>4, <1>5, Zenon

\* Every step of the task keeps the invariant.
LEMMA FlowInvStep == FlowInv /\ [FlowSteps]_vars => FlowInv'
<1> SUFFICES ASSUME FlowInv, [FlowSteps]_vars PROVE FlowInv'
  BY Zenon
<1>1. RowInv' /\ FlowTypeOK /\ ActivationInv /\ RunsFollow /\ EndIsLast /\ TypeOK
  BY RowInvStep, Zenon DEF FlowInv, RowInv, ActivationInv
<1>2. SameNode \/ NextNode
  BY <1>1, EngineStep, EngineMoves, Zenon
<1>3. EndIsLast'
  BY <1>1, <1>2, EndStep, Zenon
<1>4. RunsFollow'
  BY <1>1, <1>2, AttemptStep, HoldsStep, RunsStep, Zenon DEF RowInv, ActivationInv, TypeOK
<1> QED BY <1>1, <1>2, <1>3, <1>4, RowFollowStep, CallsStep, ShownStep, Zenon DEF FlowInv

\* A task that was never started satisfies it.
LEMMA FlowInvInit == FlowInit => FlowInv
<1> SUFFICES ASSUME FlowInit PROVE FlowInv
  BY Zenon
<1>1. RowInv /\ 1 \in Acts /\ Acts \subseteq Nat
  BY RowInvInit, BoundsAssumption DEF Acts
<1>2. RowFollowsWorkflow /\ RowIsOfSteps
  BY DEF FlowInit, Init, NoRow, NoStep, RowFollowsWorkflow, RowIsOfSteps
<1>3. EndIsLast /\ RunsFollow /\ CallsFollow
  BY <1>1, Zenon DEF FlowInit, Init, Idle, EndIsLast, RunsFollow, CallsFollow
<1>4. ClaimedIsShown
  BY Zenon DEF FlowInit, Init, ClaimedIsShown, Awaited, Running
<1> QED BY <1>1, <1>2, <1>3, <1>4, Zenon DEF FlowInv

\* In the first run of the workflow the row never runs ahead of it, however late the
\* attempts, the notifications and the calls that write the row.
THEOREM FlowInvariance == FlowSpec => [](~rerun => FlowInv)
<1>1. TypedOrder /\ (~rerun => FlowInv) /\ [FlowNext]_vars => (~rerun => FlowInv)'
  BY FirstRunStep, FlowInvStep, Zenon DEF TypedOrder
<1> QED BY <1>1, FlowInvInit, TypedOrderInvariance, PTL DEF FlowSpec

\* A step that waits for its submission can be submitted.
THEOREM SuspendedStaysAddressable == FlowSpec => []SuspendedIsAddressable
<1>1. (~rerun => FlowInv) => SuspendedIsAddressable
  BY Zenon DEF FlowInv, ClaimedIsShown, StepShown, SuspendedIsAddressable
<1> QED BY <1>1, FlowInvariance, PTL

-----------------------------------------------------------------------------
(***************************************************************************)
(* What holds in a second run of the workflow too.                         *)
(***************************************************************************)

\* No write opens a cancelled task, and the one that cancels it moves past all that calls
\* have read.
LEMMA CancelledWrite ==
    ASSUME EveryRunInv, RowWrite, row' # row
    PROVE  /\ row.state = "CANCELLED" => row'.state = "CANCELLED"
           /\ row'.state = "CANCELLED" => row'.seq = row.seq + 1 /\ row'.active = row.active
<1>0. FlowTypeOK /\ RowOrdered /\ CancelledIsPast
  BY Zenon DEF EveryRunInv
<1> USE RowShape
<1>1. CASE row' = InitTask(row)
  BY <1>0, <1>1 DEF InitTask, Exists
<1>2. ASSUME NEW n, CanClaimStep(row, n), row' = ClaimStep(row, n)
      PROVE  row.state # "CANCELLED" /\ row'.state # "CANCELLED"
  BY <1>2 DEF CanClaimStep, ClaimStep
<1>3. ASSUME NEW n, NEW st \in {"SHOWING", "STARTING_STEP"}, CanWriteRenderState(row, n),
             row' = WriteRenderState(row, n, st)
      PROVE  row.state # "CANCELLED" /\ row'.state # "CANCELLED"
  <2>1. ~(row.active < row.seq)
    BY <1>0, <1>3 DEF CanWriteRenderState
  <2>2. row'.state = st
    BY <1>0, <1>3, Zenon DEF WriteRenderState
  <2> QED BY <1>0, <2>1, <2>2, Zenon DEF CancelledIsPast
<1>4. ASSUME NEW n, CanCompleteTask(row, n), row' = CompleteTask(row, n)
      PROVE  row.state # "CANCELLED" /\ row'.state # "CANCELLED"
  BY <1>0, <1>4, Zenon DEF CanCompleteTask, CompleteTask
<1>5. ASSUME NEW n, CanHoldTask(row, n), row' = HoldTask(row, n)
      PROVE  row.state # "CANCELLED" /\ row'.state # "CANCELLED"
  BY <1>0, <1>5, Zenon DEF CanHoldTask, HoldTask, ClosedStates
<1>6. ASSUME NEW c \in Callers, sub[c].pc = "write",
             CanPersistSubmission(row, sub[c].step, sub[c].seq),
             row' = PersistSubmission(row, sub[c].seq, c)
      PROVE  row.state # "CANCELLED" /\ row'.state # "CANCELLED"
  <2>1. sub[c].pc # "idle" /\ ~(sub[c].seq < row.seq)
    BY <1>0, <1>6 DEF CanPersistSubmission
  <2>2. row'.state = "ADVANCING"
    BY <1>0, <1>6, Zenon DEF PersistSubmission
  <2> QED BY <1>0, <2>1, <2>2, Zenon DEF CancelledIsPast
<1>7. CASE row.state \notin NoDraftStates /\ row' = WriteDraft(row)
  <2>1. row.state # "CANCELLED" /\ row'.state = row.state
    BY <1>0, <1>7, Zenon DEF WriteDraft, NoDraftStates
  <2> QED BY <2>1, Zenon
<1>8. CASE row' = CancelTask(row)
  BY <1>0, <1>8, Zenon DEF CancelTask
<1> QED BY <1>1, <1>2, <1>3, <1>4, <1>5, <1>6, <1>7, <1>8, Zenon DEF RowWrite

\* Every step keeps a cancelled row past its step and past the calls.
LEMMA CancelledStep ==
    ASSUME EveryRunInv, [FlowSteps]_vars, TypedOrder'
    PROVE  CancelledIsPast' /\ (row.state = "CANCELLED" => row'.state = "CANCELLED")
<1>0. FlowTypeOK /\ RowOrdered /\ CancelledIsPast /\ FlowTypeOK' /\ RowOrdered'
  BY Zenon DEF EveryRunInv, TypedOrder
<1>1. row.seq \in Nat /\ row.active \in Nat /\ row.active <= row.seq
  BY <1>0, RowShape, Zenon
<1>2. /\ row' # row => RowWrite
      /\ row.state = "CANCELLED" => row'.state = "CANCELLED"
      /\ row' # row /\ row'.state = "CANCELLED" => row'.seq = row.seq + 1 /\ row'.active = row.active
  BY <1>0, RowStep, CancelledWrite, Zenon
<1>3. row'.seq >= row.seq /\ row'.seq \in Nat
  <2>1. row'.seq \in Nat
    BY <1>0, Zenon DEF FlowTypeOK
  <2>2. CASE row' = row
    BY <1>1, <2>1, <2>2
  <2>3. CASE row' # row
    BY <1>0, <1>2, <2>1, <2>3, WriteMoves, Zenon
  <2> QED BY <2>2, <2>3, Zenon
<1>4. row'.state = "CANCELLED" => row'.active < row'.seq
  <2>1. CASE row' = row
    BY <1>0, <2>1, Zenon DEF CancelledIsPast
  <2>2. CASE row' # row
    BY <1>1, <1>2, <2>2
  <2> QED BY <2>1, <2>2, Zenon
<1> DEFINE Behind(s) == s.pc # "idle" =>
               s.seq <= row'.seq /\ (row'.state = "CANCELLED" => s.seq < row'.seq)
<1>5. ASSUME NEW c \in Callers PROVE Behind(sub[c])
  <2>1. sub[c].seq \in Nat
    BY <1>0, RowShape, Zenon
  <2>2. sub[c].pc # "idle" => sub[c].seq <= row.seq /\ (row.state = "CANCELLED" => sub[c].seq < row.seq)
    BY <1>0, Zenon DEF CancelledIsPast
  <2>3. CASE row' = row
    BY <2>2, <2>3, Zenon
  <2>4. CASE row' # row
    BY <1>1, <1>2, <1>3, <2>1, <2>2, <2>4
  <2> QED BY <2>3, <2>4, Zenon
<1>6. ASSUME NEW c \in Callers PROVE Behind(sub'[c])
  <2>1. CASE sub'[c] = sub[c]
    BY <1>5, <2>1
  <2>2. CASE sub'[c] = Idle
    <3>1. sub'[c].pc = "idle"
      BY <2>2 DEF Idle
    <3> QED BY <3>1, Zenon
  <2>3. CASE sub'[c] = ReadCall("call") /\ row.state \notin ClosedStates /\ row' = row
    <3>1. sub'[c].seq = row'.seq /\ row'.state # "CANCELLED"
      BY <2>3 DEF ReadCall, ClosedStates
    <3> QED BY <1>3, <3>1
  <2>4. CASE sub[c].pc = "call" /\ sub'[c] = [sub[c] EXCEPT !.pc = "write"]
    <3>1. sub[c] \in Call
      BY <1>0, Zenon DEF FlowTypeOK
    <3>2. sub'[c].seq = sub[c].seq
      BY <2>4, <3>1, Zenon DEF Call
    <3> QED BY <1>5, <2>4, <3>2, Zenon
  <2>5. \/ sub'[c] = sub[c] \/ sub'[c] = Idle
        \/ sub'[c] = ReadCall("call") /\ row.state \notin ClosedStates /\ row' = row
        \/ sub[c].pc = "call" /\ sub'[c] = [sub[c] EXCEPT !.pc = "write"]
    <3>1. sub \in [Callers -> Call] /\ (UNCHANGED sub \/ SubWrite)
      BY <1>0, CallStep, Zenon DEF FlowTypeOK
    <3> QED BY <3>1, Zenon DEF SubWrite
  <2> QED BY <2>1, <2>2, <2>3, <2>4, <2>5, Zenon
<1> QED BY <1>2, <1>4, <1>6, Zenon DEF CancelledIsPast

\* Every step keeps it that a completion reports what is so.
LEMMA ReportStep ==
    ASSUME EveryRunInv, [FlowSteps]_vars, row.state = "CANCELLED" => row'.state = "CANCELLED"
    PROVE  ReportIsTrue'
<1> SUFFICES ASSUME "read" \notin Faults, NEW x \in Attempts, att'[x] = "report", kind'[x[1]] = "END"
             PROVE  parent' # "pending" \/ row'.state = "CANCELLED"
  BY Zenon DEF ReportIsTrue
<1>0. FlowTypeOK /\ TypeOK /\ ActivationInv /\ RunsFollow /\ ReportIsTrue /\ x[1] \in Acts
  BY Zenon DEF EveryRunInv, FlowTypeOK, Attempts
<1>1. AttemptsMove /\ (SameNode \/ NextNode)
  BY <1>0, AttemptStep, EngineStep, EngineMoves, Zenon
<1>2. CASE att[x] = "report"
  <2>1. kind[x[1]] = "END"
    BY <1>0, <1>1, <1>2, KindsKept, Zenon DEF RunsFollow
  <2> QED BY <1>0, <1>2, <2>1, ParentStep, Zenon DEF ReportIsTrue
<1>3. CASE Progress(x)
  <2>1. kind[x[1]] = "END"
    BY <1>3, Zenon DEF Progress, engineVars
  <2>2. att[x] # "render"
    BY <1>0, <2>1, Zenon DEF RunsFollow, TaskKinds
  <2>3. row.state = "CANCELLED" \/ WakeParent
    BY <1>3, <2>2, Zenon DEF Progress
  <2> QED BY <2>3, Zenon DEF WakeParent
<1>4. ~Fresh(x)
  BY Zenon DEF Fresh, FirstStep
<1> QED BY <1>1, <1>2, <1>3, <1>4, Zenon DEF AttemptsMove

\* Every step of a run keeps the invariant, and so does the start of a second run.
LEMMA EveryRunStep ==
    ASSUME EveryRunInv, [FlowNext]_vars
    PROVE  EveryRunInv' /\ (row.state = "CANCELLED" => row'.state = "CANCELLED")
<1>0. TypedOrder' /\ FlowTypeOK /\ TypeOK /\ ActivationInv /\ RunsFollow
  BY TypedOrderStep, Zenon DEF EveryRunInv, TypedOrder, ActivationInv
<1>1. CASE StartTaskFindsClosed
  <2>1. RunsFollow' /\ ReportIsTrue'
    BY <1>1, Zenon DEF StartTaskFindsClosed, runVars, RunsFollow, ReportIsTrue
  <2>2. CancelledIsPast' /\ row' = row
    BY <1>1, Zenon DEF StartTaskFindsClosed, EveryRunInv, CancelledIsPast
  <2> QED BY <1>0, <2>1, <2>2, Zenon DEF TypedOrder, EveryRunInv
<1>2. CASE [FlowSteps]_vars
  <2>1. CancelledIsPast' /\ (row.state = "CANCELLED" => row'.state = "CANCELLED")
    BY <1>0, <1>2, CancelledStep, Zenon
  <2>2. ReportIsTrue'
    BY <1>2, <2>1, ReportStep, Zenon
  <2>3. SameNode \/ NextNode
    BY <1>0, <1>2, EngineStep, EngineMoves, Zenon
  <2>4. AttemptsMove /\ HoldsMove /\ seq' \in 0 .. MaxSeq
    BY <1>0, <1>2, AttemptStep, HoldsStep, Zenon DEF TypedOrder, ActivationInv, TypeOK
  <2>5. RunsFollow'
    BY <1>0, <2>3, <2>4, RunsStep, Zenon
  <2> QED BY <1>0, <2>1, <2>2, <2>5, Zenon DEF TypedOrder, EveryRunInv
<1> QED BY <1>1, <1>2, Zenon DEF FlowNext

\* It holds of every task, however often its workflow is run.
THEOREM EveryRunInvariance == FlowSpec => []EveryRunInv
<1>1. FlowInit => EveryRunInv
  <2> SUFFICES ASSUME FlowInit PROVE EveryRunInv
    BY Zenon
  <2>1. RowInv /\ RunsFollow
    BY FlowInvInit, Zenon DEF FlowInv
  <2>2. CancelledIsPast /\ ReportIsTrue
    BY Zenon DEF FlowInit, NoRow, Idle, CancelledIsPast, ReportIsTrue
  <2> QED BY <2>1, <2>2, Zenon DEF RowInv, EveryRunInv
<1>2. EveryRunInv /\ [FlowNext]_vars => EveryRunInv'
  BY EveryRunStep, Zenon
<1> QED BY <1>1, <1>2, PTL DEF FlowSpec

\* A cancelled task is never opened again, by a second run of its workflow neither, and a
\* completed one is not as long as the workflow has run once.
THEOREM ClosedStaysFinal == FlowSpec => ClosedIsFinal
<1>1. EveryRunInv /\ (~rerun => FlowInv) /\ [FlowNext]_vars =>
        [/\ row.state = "CANCELLED" => row'.state = "CANCELLED"
         /\ row.state = "COMPLETED" /\ ~rerun => row'.state = "COMPLETED"]_vars
  <2> SUFFICES ASSUME EveryRunInv, ~rerun => FlowInv, [FlowNext]_vars
               PROVE  /\ row.state = "CANCELLED" => row'.state = "CANCELLED"
                      /\ row.state = "COMPLETED" /\ ~rerun => row'.state = "COMPLETED"
    BY Zenon
  <2>1. ASSUME ~rerun, row' # row, row.state = "COMPLETED" PROVE row'.state = "COMPLETED"
    <3>1. [FlowSteps]_vars
      BY <2>1, Zenon DEF FlowNext, StartTaskFindsClosed
    <3>2. RowWrite /\ FlowInv
      BY <2>1, <3>1, RowStep, Zenon DEF EveryRunInv
    <3> QED BY <2>1, <3>2, WriteFollows, Zenon DEF ClosedStates
  <2> QED BY <2>1, EveryRunStep, Zenon
<1> QED BY <1>1, EveryRunInvariance, FlowInvariance, PTL DEF FlowSpec, ClosedIsFinal

\* As long as the reads of a completion do not fail, a task never ends with its completion
\* reported and its parent waiting, however often the completion was retried or timed out
\* and however often the workflow is run.
THEOREM ReportedEndsWakeParents == ASSUME "read" \notin Faults PROVE FlowSpec => EndReportedWakesParent
<1>1. EveryRunInv /\ [FlowNext]_vars =>
        [EndRuns /\ wf' = "COMPLETED" => parent # "pending" \/ row.state = "CANCELLED"]_vars
  <2>1. wf' = "COMPLETED" => ~StartTaskFindsClosed
    BY Zenon DEF StartTaskFindsClosed, RunForgotten
  <2> QED BY <2>1, EndReportStep, Zenon DEF EveryRunInv, ReportIsTrue, FlowNext
<1> QED BY <1>1, EveryRunInvariance, PTL DEF FlowSpec, EndReportedWakesParent

-----------------------------------------------------------------------------
(***************************************************************************)
(* The completion of a task and its parent, in the first run.              *)
(***************************************************************************)

\* Every step keeps what is known of the completions.
LEMMA CompletionStep == FlowInv /\ CompletionInv /\ [FlowSteps]_vars => CompletionInv'
<1> SUFFICES ASSUME FlowInv, CompletionInv, [FlowSteps]_vars, Faults \cap {"read", "timeout"} = {}
             PROVE  \A x \in Attempts :
                       /\ att'[x] # "off" => x = <<seq', attempt'>> /\ phase' = "RUNNING"
                       /\ att'[x] = "recheck" => row'.state = "CANCELLED"
                       /\ att'[x] = "wake" => row'.state = "COMPLETED"
  BY Zenon DEF CompletionInv
<1>a. RowInv /\ FlowTypeOK /\ ActivationInv /\ RunsFollow /\ TypeOK /\ seq \in Nat
  BY DEF FlowInv, RowInv, ActivationInv, TypeOK
<1>b. (SameNode \/ NextNode) /\ (row' # row => RowWrite)
  BY <1>a, RowStep, EngineStep, EngineMoves, Zenon
<1>0. /\ RowInv /\ FlowTypeOK /\ ActivationInv /\ RunsFollow /\ TypeOK /\ seq \in Nat
      /\ AttemptsMove /\ (SameNode \/ NextNode)
      /\ row' # row => RowWrite
  BY <1>a, <1>b, AttemptStep, Zenon
<1>1. row.state \in ClosedStates => row'.state = row.state
  BY <1>0, WriteFollows, Zenon
<1>3. ASSUME NEW x \in Attempts, att'[x] # "off"
      PROVE  x = <<seq', attempt'>> /\ phase' = "RUNNING"
  <2>1. att[x] # "off" => x = <<seq, attempt>> /\ phase = "RUNNING"
    BY <1>3, Zenon DEF CompletionInv
  <2>2. CASE Fresh(x)
    BY <2>2, Zenon DEF Fresh
  <2>3. CASE Progress(x)
    BY <2>1, <2>3, Zenon DEF Progress, engineVars
  <2>4. CASE att'[x] = att[x]
    BY <1>0, <1>3, <2>1, <2>4, NodeStaysStep, Zenon DEF NodeStays
  <2> QED BY <1>0, <1>3, <2>2, <2>3, <2>4, Zenon DEF AttemptsMove
<1>4. ASSUME NEW x \in Attempts, att'[x] = "recheck"
      PROVE  row'.state = "CANCELLED"
  <2>1. CASE att[x] = "recheck"
    BY <1>1, <1>4, <2>1, Zenon DEF CompletionInv, ClosedStates
  <2>2. CASE att[x] = "complete" /\ ~CanCompleteTask(row, x[1]) /\ UNCHANGED row
    <3>1. x[1] = seq /\ seq \in Acts /\ kind[seq] = "END" /\ "END" \notin TaskKinds
      <4>1. x = <<seq, attempt>> /\ kind[x[1]] = "END" /\ x[1] \in Acts
        BY <1>0, <1>4, <2>2, Zenon DEF CompletionInv, RunsFollow, Attempts
      <4> QED BY <4>1, Zenon DEF TaskKinds
    <3>2. wf # "NONE" /\ Exists(row)
      BY <1>0, <3>1 DEF ActivationInv, LaterUntouched, FlowInv, RowIsOfSteps, Acts
    <3>3. ASSUME row.state # "CANCELLED" PROVE row.seq <= seq
      <4>1. row.seq <= seq + 1 /\ (row.seq = seq + 1 => row.active = seq)
        BY <3>3, Zenon DEF FlowInv, RowFollowsWorkflow
      <4>2. row.seq # seq + 1
        BY <1>0, <3>1, <4>1 DEF FlowInv, RowIsOfSteps, NoStep, Acts
      <4> QED BY <1>0, <4>1, <4>2, RowFacts
    <3> QED BY <2>2, <3>1, <3>2, <3>3, Zenon DEF CanCompleteTask
  <2>3. ~Fresh(x)
    BY <1>4, Zenon DEF Fresh, FirstStep
  <2> QED BY <1>0, <1>4, <2>1, <2>2, <2>3, Zenon DEF AttemptsMove, Progress
<1>5. ASSUME NEW x \in Attempts, att'[x] = "wake"
      PROVE  row'.state = "COMPLETED"
  <2>1. CASE att[x] = "wake"
    BY <1>1, <1>5, <2>1, Zenon DEF CompletionInv, ClosedStates
  <2>2. CASE row' = CompleteTask(row, x[1])
    <3>1. row \in [state : RowStates, active : Acts \cup {NoStep}, seq : Nat,
                   data : Callers \cup Writers]
      BY <1>0, RowFacts, Zenon
    <3> QED BY <2>2, <3>1, Zenon DEF CompleteTask
  <2>3. att[x] = "recheck" => row.state = "CANCELLED"
    BY <1>5, Zenon DEF CompletionInv
  <2>4. ~Fresh(x)
    BY <1>5, Zenon DEF Fresh, FirstStep
  <2> QED BY <1>0, <1>5, <2>1, <2>2, <2>3, <2>4, Zenon DEF AttemptsMove, Progress
<1> QED BY <1>3, <1>4, <1>5, Zenon

\* It holds in the first run of every workflow.
THEOREM CompletionInvariance == FlowSpec => [](~rerun => CompletionInv)
<1>1. FlowInit => CompletionInv
  BY Zenon DEF FlowInit, CompletionInv
<1>2. TypedOrder /\ (~rerun => FlowInv) /\ (~rerun => CompletionInv) /\ [FlowNext]_vars
        => (~rerun => CompletionInv)'
  BY FirstRunStep, CompletionStep, Zenon DEF TypedOrder
<1> QED BY <1>1, <1>2, TypedOrderInvariance, FlowInvariance, PTL DEF FlowSpec

\* As long as reads do not fail and attempts do not outlive their timeout, a cancelled task
\* does not wake its parent in the first run of its workflow.
THEOREM CancelledTasksDoNotWake ==
    ASSUME Faults \cap {"read", "timeout"} = {} PROVE FlowSpec => CancelledNeverWakes
<1>1. (~rerun => CompletionInv) /\ [FlowNext]_vars =>
        [~rerun /\ parent = "pending" /\ parent' = "woken" => row.state # "CANCELLED"]_vars
  <2>1. parent' # parent => ~StartTaskFindsClosed
    BY Zenon DEF StartTaskFindsClosed
  <2> QED BY <2>1, ParentStep, Zenon DEF CompletionInv, FlowNext
<1> QED BY <1>1, CompletionInvariance, PTL DEF FlowSpec, CancelledNeverWakes

=============================================================================
