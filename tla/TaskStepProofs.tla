---------------------------- MODULE TaskStepProofs ----------------------------
(***************************************************************************)
(* Which step of a task does what: what becomes of the attempts and of the *)
(* park notifications that Temporal runs, which step starts the workflow,  *)
(* makes it wait, ends it or wakes its parent.                             *)
(***************************************************************************)
EXTENDS TaskFlowProofs

\* The first step of an attempt that Temporal has just turned to.
Fresh(y) ==
    /\ y = <<seq', attempt'>>
    /\ phase' = "RUNNING" /\ kind'[seq'] \in ActivityKinds
    /\ att'[y] = FirstStep(kind'[seq'])

\* A step that attempt y takes by itself, and what it finds.
Progress(y) ==
    /\ UNCHANGED <<engineVars, attempt, holds>>
    /\ att'[y] = "report" => Awaited(y)
    /\ \/ /\ att[y] = "claim" /\ att'[y] = "render"
          /\ CanClaimStep(row, y[1]) /\ row' = ClaimStep(row, y[1])
       \/ att[y] = "render" /\ att'[y] = "report"
       \/ att[y] = "read" /\ att'[y] = "complete"
       \/ /\ att[y] = "read" /\ att'[y] = "report"
          /\ row.state = "CANCELLED" \/ "read" \in Faults
       \/ att[y] = "complete" /\ att'[y] = "wake" /\ row' = CompleteTask(row, y[1])
       \/ /\ att[y] = "complete" /\ att'[y] = "recheck"
          /\ ~CanCompleteTask(row, y[1]) /\ UNCHANGED row
       \/ att[y] = "recheck" /\ att'[y] = "report" /\ row.state = "CANCELLED"
       \/ /\ att[y] = "recheck" /\ att'[y] = "wake"
          /\ row.state # "CANCELLED" \/ "read" \in Faults
       \/ att[y] = "wake" /\ att'[y] = "report" /\ WakeParent

\* What a step does to the attempts: one starts, goes on or is over.
AttemptsMove ==
    /\ \A y \in Attempts : att'[y] \in {att[y], "off"} \/ Fresh(y) \/ Progress(y)
    /\ attempt' # attempt => \A y \in Attempts : y = <<seq', attempt'>> => Fresh(y)

\* What the workflow schedules are first attempts.
LEMMA SchedulesMove ==
    ASSUME RunsOK, NEW x \in Attempts, NEW left \in {att, Ended(x)}, Schedules(left)
    PROVE  AttemptsMove
<1>1. /\ left \in [Attempts -> AttemptSteps]
      /\ \A y \in Attempts : left[y] \in {att[y], "off"}
  BY Zenon DEF RunsOK, Ended, AttemptSteps
<1>2. CASE seq' # seq /\ phase' = "RUNNING" /\ kind'[seq'] \in ActivityKinds
  <2>1. attempt' = 1 /\ att' = [left EXCEPT ![<<seq', 1>>] = FirstStep(kind'[seq'])]
    BY <1>2, Zenon DEF Schedules
  <2>2. \A y \in Attempts : att'[y] = IF y = <<seq', 1>> THEN FirstStep(kind'[seq']) ELSE left[y]
    BY <1>1, <2>1, Zenon
  <2>3. \A y \in Attempts : y = <<seq', attempt'>> => Fresh(y)
    BY <1>2, <2>1, <2>2, Zenon DEF Fresh
  <2> QED BY <1>1, <2>1, <2>2, <2>3, Zenon DEF AttemptsMove
<1>3. CASE ~(seq' # seq /\ phase' = "RUNNING" /\ kind'[seq'] \in ActivityKinds)
  <2>1. att' = left /\ attempt' = attempt
    BY <1>3, Zenon DEF Schedules
  <2> QED BY <1>1, <2>1, Zenon DEF AttemptsMove
<1> QED BY <1>2, <1>3, Zenon

\* So is the next attempt of the same Activity.
LEMMA NextAttemptMoves ==
    ASSUME RunsOK, NEW x \in Attempts, NEW left \in {att, Ended(x)}, NextAttempt(left),
           phase = "RUNNING", kind[seq] \in ActivityKinds
    PROVE  AttemptsMove
<1>1. /\ left \in [Attempts -> AttemptSteps]
      /\ \A y \in Attempts : left[y] \in {att[y], "off"}
  BY Zenon DEF RunsOK, Ended, AttemptSteps
<1>2. CASE attempt < MaxAttempts
  <2>1. /\ attempt' = attempt + 1 /\ att' = [left EXCEPT ![<<seq, attempt + 1>>] = FirstStep(kind[seq])]
        /\ seq' = seq /\ kind' = kind /\ phase' = phase
    BY <1>2, Zenon DEF NextAttempt, engineVars
  <2>2. \A y \in Attempts : att'[y] = IF y = <<seq', attempt'>> THEN FirstStep(kind'[seq']) ELSE left[y]
    BY <1>1, <2>1, Zenon
  <2>3. \A y \in Attempts : y = <<seq', attempt'>> => Fresh(y)
    BY <2>1, <2>2, Zenon DEF Fresh
  <2> QED BY <1>1, <2>2, <2>3, Zenon DEF AttemptsMove
<1>3. CASE ~(attempt < MaxAttempts)
  BY <1>3, SchedulesMove, Zenon DEF NextAttempt
<1> QED BY <1>2, <1>3, Zenon

\* The answer of an attempt ends it, and may start another one.
LEMMA AnswerMoves ==
    ASSUME RunsOK, NEW x \in Attempts, kind[x[1]] \in ActivityKinds,
           \/ Reports(x, ActivityFails) \/ Reports(x, ActivitySuspends)
           \/ Reports(x, ActivitySucceeds) \/ Reports(x, EndSucceeds) \/ Retries(x)
           \/ \E left \in {att, Ended(x)} : Awaited(x) /\ NextAttempt(left)
    PROVE  AttemptsMove
<1>1. CASE Goes(x, "off")
  <2>1. attempt' = attempt /\ \A y \in Attempts : att'[y] \in {att[y], "off"}
    BY <1>1, Zenon DEF Goes, RunsOK
  <2> QED BY <2>1, Zenon DEF AttemptsMove
<1>2. Awaited(x) => phase = "RUNNING" /\ kind[seq] \in ActivityKinds
  BY DEF Awaited, Running
<1> QED BY <1>1, <1>2, SchedulesMove, NextAttemptMoves, Zenon DEF Reports, Retries

\* An attempt that takes a step by itself leaves the others alone.
LEMMA GoesMoves ==
    ASSUME RunsOK, NEW x \in Attempts, NEW pc \in AttemptSteps, Goes(x, pc),
           att'[x] = pc => pc = "off" \/ Progress(x)
    PROVE  AttemptsMove
<1>1. /\ attempt' = attempt /\ att'[x] = pc
      /\ \A y \in Attempts : y # x => att'[y] = att[y]
  BY Zenon DEF Goes, RunsOK
<1> QED BY <1>1, Zenon DEF AttemptsMove

\* Every step of the task moves the attempts so.
LEMMA AttemptStep ==
    ASSUME FlowTypeOK, RunsFollow, [FlowSteps]_vars
    PROVE  AttemptsMove
<1>0. RunsOK /\ {"off", "render", "report", "complete", "recheck", "wake"} \subseteq AttemptSteps
  BY Zenon DEF FlowTypeOK, RunsOK, AttemptSteps
<1>1. CASE UNCHANGED <<att, attempt>>
  BY <1>1, Zenon DEF AttemptsMove
<1>2. CASE StartTaskStarts \/ WorkflowGoesOn
  <2>1. CASE Schedules(att)
    <3>1. <<1, 1>> \in Attempts
      BY BoundsAssumption, FlowAssumption DEF Attempts, Acts
    <3> QED BY <1>0, <2>1, <3>1, SchedulesMove, Zenon
  <2> QED BY <1>1, <1>2, <2>1, Zenon DEF StartTaskStarts, WorkflowGoesOn, runVars
<1>3. ASSUME NEW x \in Attempts, Finishes(x),
             \/ att[x] = "render"
             \/ att[x] = "read" /\ (row.state = "CANCELLED" \/ "read" \in Faults)
             \/ att[x] = "recheck" /\ row.state = "CANCELLED"
             \/ att[x] = "wake" /\ WakeParent
      PROVE  AttemptsMove
  <2>1. CASE Awaited(x)
    <3>1. Goes(x, "report")
      BY <1>3, <2>1, Zenon DEF Finishes
    <3>2. att'[x] = "report" => Progress(x)
      BY <1>3, <2>1, <3>1, Zenon DEF Progress, Goes
    <3> QED BY <1>0, <3>1, <3>2, GoesMoves, Zenon
  <2>2. CASE ~Awaited(x)
    BY <1>0, <1>3, <2>2, GoesMoves, Zenon DEF Finishes
  <2> QED BY <2>1, <2>2, Zenon
<1>4. ASSUME NEW x \in Attempts, StepRuns(x) \/ StepErrs(x) \/ AttemptTimesOut(x)
      PROVE  AttemptsMove
  <2>1. att[x] # "off" /\ kind[x[1]] \in ActivityKinds
    BY <1>4, Zenon DEF StepRuns, StepClaims, StepRenders, StepReports, StepErrs, AttemptTimesOut, RunsFollow
  <2>2. CASE att[x] = "claim" /\ CanClaimStep(row, x[1]) /\ row' = ClaimStep(row, x[1]) /\ Goes(x, "render")
    <3>1. att'[x] = "render" => Progress(x)
      BY <2>2, Zenon DEF Progress, Goes
    <3> QED BY <1>0, <2>2, <3>1, GoesMoves, Zenon
  <2>3. CASE StepClaims(x)
    BY <1>0, <2>1, <2>2, <2>3, AnswerMoves, Zenon DEF StepClaims
  <2>4. CASE StepRenders(x)
    BY <1>3, <2>4, Zenon DEF StepRenders
  <2>5. CASE StepReports(x)
    BY <1>0, <2>1, <2>5, AnswerMoves, Zenon DEF StepReports
  <2>6. CASE StepErrs(x) \/ AttemptTimesOut(x)
    BY <1>0, <2>1, <2>6, AnswerMoves, Zenon DEF StepErrs, AttemptTimesOut
  <2> QED BY <1>4, <2>3, <2>4, <2>5, <2>6, Zenon DEF StepRuns
<1>5. ASSUME NEW x \in Attempts, CompletionRuns(x) \/ CompletionReadFails(x) \/ CompletionErrs(x)
      PROVE  AttemptsMove
  <2>1. att[x] # "off" /\ kind[x[1]] \in ActivityKinds
    BY <1>5, Zenon DEF CompletionRuns, CompletionReads, CompletionWrites, CompletionRechecks, CompletionWakes,
       CompletionReports, CompletionReadFails, CompletionErrs, RunsFollow
  <2>2. CASE CompletionReads(x)
    <3>1. CASE Goes(x, "complete")
      <4>1. att'[x] = "complete" => Progress(x)
        BY <2>2, <3>1, Zenon DEF Progress, Goes, CompletionReads
      <4> QED BY <1>0, <3>1, <4>1, GoesMoves, Zenon
    <3> QED BY <1>3, <2>2, <3>1, Zenon DEF CompletionReads
  <2>3. CASE CompletionWrites(x)
    <3>1. CASE CanCompleteTask(row, x[1])
      <4>1. Goes(x, "wake") /\ (att'[x] = "wake" => Progress(x))
        BY <2>3, <3>1, Zenon DEF Progress, Goes, CompletionWrites
      <4> QED BY <1>0, <4>1, GoesMoves, Zenon
    <3>2. CASE ~CanCompleteTask(row, x[1])
      <4>1. Goes(x, "recheck") /\ (att'[x] = "recheck" => Progress(x))
        BY <2>3, <3>2, Zenon DEF Progress, Goes, CompletionWrites
      <4> QED BY <1>0, <4>1, GoesMoves, Zenon
    <3> QED BY <3>1, <3>2, Zenon
  <2>4. CASE CompletionRechecks(x)
    <3>1. CASE Goes(x, "wake") /\ (row.state # "CANCELLED" \/ "read" \in Faults)
      <4>1. att'[x] = "wake" => Progress(x)
        BY <2>4, <3>1, Zenon DEF Progress, Goes, CompletionRechecks
      <4> QED BY <1>0, <3>1, <4>1, GoesMoves, Zenon
    <3> QED BY <1>3, <2>4, <3>1, Zenon DEF CompletionRechecks
  <2>5. CASE CompletionWakes(x)
    BY <1>0, <1>3, <2>1, <2>5, AnswerMoves, Zenon DEF CompletionWakes
  <2>6. CASE CompletionReadFails(x)
    BY <1>3, <2>6, Zenon DEF CompletionReadFails
  <2>7. CASE CompletionReports(x) \/ CompletionErrs(x)
    BY <1>0, <2>1, <2>7, AnswerMoves, Zenon DEF CompletionReports, CompletionErrs
  <2> QED BY <1>5, <2>2, <2>3, <2>4, <2>5, <2>6, <2>7, Zenon DEF CompletionRuns
<1>6. ASSUME NEW c \in Callers,
             SubmitReads(c) \/ SubmitEnds(c) \/ SubmitCompletes(c) \/ SubmitPersists(c)
      PROVE  UNCHANGED <<att, attempt>>
  BY <1>6, Zenon DEF SubmitReads, SubmitEnds, SubmitCompletes, SubmitPersists, runVars
<1>7. CASE \/ SaveDraftReads \/ SaveDraftWrites \/ ParentForceParked \/ NoticeTimesOut
           \/ CancelTaskReads \/ CancelTaskTerminates \/ CancelTaskWrites \/ CancelTaskErrs
           \/ StartTaskInits \/ StartTaskAgain \/ AdminActs \/ UNCHANGED vars
  BY <1>1, <1>7, Zenon DEF SaveDraftReads, SaveDraftWrites, ParentForceParked, NoticeTimesOut,
     CancelTaskReads, CancelTaskTerminates, CancelTaskWrites, CancelTaskErrs, StartTaskInits,
     StartTaskAgain, AdminActs, vars, flowVars, runVars
<1>8. ASSUME NEW n \in holds, HoldsTask(n) PROVE UNCHANGED <<att, attempt>>
  BY <1>8, Zenon DEF HoldsTask
<1> QED BY <1>1, <1>2, <1>4, <1>5, <1>6, <1>7, <1>8, Zenon DEF FlowSteps

\* A park notification is scheduled by the node that parks.
HoldsMove == holds' \subseteq holds \/ (holds' = holds \cup {seq'} /\ phase' = "PARKED")

\* The answer of an attempt schedules no other.
LEMMA AnswerHolds ==
    ASSUME NEW x,
           \/ Reports(x, ActivityFails) \/ Reports(x, ActivitySuspends)
           \/ Reports(x, ActivitySucceeds) \/ Reports(x, EndSucceeds)
           \/ Retries(x) \/ Finishes(x) \/ (\E pc : Goes(x, pc))
           \/ (\E left : NextAttempt(left))
    PROVE  HoldsMove
<1>1. [Next]_engineVars
  BY AttemptEngineStep, Zenon
<1>2. ASSUME NEW left, Schedules(left) PROVE HoldsMove
  BY <1>1, <1>2, ParkingStep, Zenon DEF Schedules, HoldsMove
<1>3. CASE UNCHANGED holds
  BY <1>3, Zenon DEF HoldsMove
<1> QED BY <1>2, <1>3, Zenon DEF Reports, Retries, Finishes, Goes, NextAttempt

\* Every step of the task moves the park notifications so.
LEMMA HoldsStep ==
    ASSUME FlowTypeOK, [FlowSteps]_vars
    PROVE  HoldsMove
<1>0. [Next]_engineVars
  BY EngineStep, Zenon DEF FlowTypeOK
<1>1. CASE holds' \subseteq holds
  BY <1>1, Zenon DEF HoldsMove
<1>2. CASE StartTaskStarts \/ WorkflowGoesOn
  <2>1. CASE Schedules(att)
    BY <1>0, <2>1, ParkingStep, Zenon DEF Schedules, HoldsMove
  <2> QED BY <1>1, <1>2, <2>1, Zenon DEF StartTaskStarts, WorkflowGoesOn, runVars
<1>3. ASSUME NEW x \in Attempts, StepRuns(x) \/ StepErrs(x) \/ AttemptTimesOut(x)
      PROVE  HoldsMove
  BY <1>3, AnswerHolds, Zenon
  DEF StepRuns, StepErrs, StepClaims, StepRenders, StepReports, AttemptTimesOut
<1>4. ASSUME NEW x \in Attempts, CompletionRuns(x) \/ CompletionReadFails(x) \/ CompletionErrs(x)
      PROVE  HoldsMove
  BY <1>4, AnswerHolds, Zenon
  DEF CompletionRuns, CompletionReads, CompletionWrites, CompletionRechecks, CompletionWakes,
      CompletionReports, CompletionReadFails, CompletionErrs
<1>5. ASSUME NEW c \in Callers,
             SubmitReads(c) \/ SubmitEnds(c) \/ SubmitCompletes(c) \/ SubmitPersists(c)
      PROVE  UNCHANGED holds
  BY <1>5, Zenon DEF SubmitReads, SubmitEnds, SubmitCompletes, SubmitPersists, runVars
<1>6. CASE \/ SaveDraftReads \/ SaveDraftWrites \/ ParentForceParked \/ NoticeTimesOut
           \/ CancelTaskReads \/ CancelTaskTerminates \/ CancelTaskWrites \/ CancelTaskErrs
           \/ StartTaskInits \/ StartTaskAgain \/ AdminActs \/ UNCHANGED vars
  BY <1>1, <1>6, Zenon DEF SaveDraftReads, SaveDraftWrites, ParentForceParked, NoticeTimesOut,
     CancelTaskReads, CancelTaskTerminates, CancelTaskWrites, CancelTaskErrs, StartTaskInits,
     StartTaskAgain, AdminActs, vars, flowVars, runVars
<1>7. ASSUME NEW n \in holds, HoldsTask(n) PROVE holds' \subseteq holds
  BY <1>7, Zenon DEF HoldsTask
<1> QED BY <1>1, <1>2, <1>3, <1>4, <1>5, <1>6, <1>7, Zenon DEF FlowSteps

\* A step starts to wait for its submission by the report of the attempt that Temporal waits for.
LEMMA SuspendStep ==
    ASSUME FlowTypeOK, [FlowSteps]_vars, phase' = "SUSPENDED", phase # "SUSPENDED"
    PROVE  \E x \in Attempts : Awaited(x) /\ att[x] = "report" /\ kind[x[1]] \in TaskKinds
<1>1. ~UNCHANGED engineVars /\ ~UNCHANGED phase
  BY Zenon DEF engineVars
<1>2. \A n, k, others : ~Dispatch(n, k, others)
  BY Zenon DEF Dispatch, ParkAt
<1>3. ~StartWorkflow /\ ~RouteNode /\ ~EndFails /\ ~ResumeSuspended
  BY <1>2, Zenon DEF StartWorkflow, RouteNode, EndFails, ResumeSuspended, MoveOn, ParkAt, Running
<1>4. ~ActivitySucceeds /\ ~ActivityFails
  BY <1>2, Zenon DEF ActivitySucceeds, ActivityFails, TakeSync, TakeResult, ParkStep, MoveOn, ParkAt
<1>5. ~EndSucceeds /\ ~NoticeReturns /\ ~TerminateWorkflow /\ (\A a, c : ~CompleteActivation(a, c))
  BY <1>1, Zenon DEF EndSucceeds, NoticeReturns, TerminateWorkflow, CompleteActivation, UpdateActivation
<1>6. ~Resolutions /\ (\A s : ~AdminSignal(s))
  BY <1>1, <1>2, Zenon DEF Resolutions, ResolveAbort, ResolveRetry, ResolveComplete, ResolveRefused,
     AdminSignal, MoveOn, ParkAt
<1>7. ~AdminActs
  BY <1>1, Zenon DEF AdminActs, ResolveAdminIntervention, ForceParkActivation, UpdateActivation
<1>8. ASSUME NEW x PROVE /\ ~Reports(x, ActivityFails) /\ ~Reports(x, ActivitySucceeds)
                         /\ ~Reports(x, EndSucceeds) /\ ~Retries(x) /\ ~Finishes(x)
                         /\ (\A pc : ~Goes(x, pc)) /\ (\A left : ~NextAttempt(left))
  BY <1>1, <1>3, <1>4, <1>5, Zenon DEF Reports, Retries, Finishes, Goes, NextAttempt
<1>9. ASSUME NEW x \in Attempts, StepRuns(x) \/ StepErrs(x) \/ AttemptTimesOut(x)
      PROVE  Awaited(x) /\ att[x] = "report" /\ kind[x[1]] \in TaskKinds
  <2>1. StepReports(x) /\ Reports(x, ActivitySuspends)
    BY <1>8, <1>9, Zenon DEF StepRuns, StepErrs, StepClaims, StepRenders, StepReports, AttemptTimesOut
  <2> QED BY <1>8, <2>1, Zenon DEF StepReports, Reports
<1>10. ASSUME NEW x \in Attempts
       PROVE  ~CompletionRuns(x) /\ ~CompletionReadFails(x) /\ ~CompletionErrs(x)
  BY <1>8, Zenon DEF CompletionRuns, CompletionReads, CompletionWrites, CompletionRechecks,
     CompletionWakes, CompletionReports, CompletionReadFails, CompletionErrs
<1>11. ASSUME NEW c \in Callers
       PROVE  ~SubmitReads(c) /\ ~SubmitEnds(c) /\ ~SubmitCompletes(c) /\ ~SubmitPersists(c)
  BY <1>1, <1>5, Zenon DEF SubmitReads, SubmitEnds, SubmitCompletes, SubmitPersists
<1>12. /\ ~SaveDraftReads /\ ~SaveDraftWrites /\ ~ParentForceParked /\ ~NoticeTimesOut
       /\ ~CancelTaskReads /\ ~CancelTaskTerminates /\ ~CancelTaskWrites /\ ~CancelTaskErrs
       /\ ~StartTaskInits /\ ~StartTaskAgain /\ ~UNCHANGED vars /\ (\A n : ~HoldsTask(n))
       /\ ~StartTaskStarts /\ ~WorkflowGoesOn
  BY <1>1, <1>3, <1>5, <1>6, Zenon DEF SaveDraftReads, SaveDraftWrites, ParentForceParked, NoticeTimesOut,
     CancelTaskReads, CancelTaskTerminates, CancelTaskWrites, CancelTaskErrs, StartTaskInits,
     StartTaskAgain, vars, HoldsTask, StartTaskStarts, WorkflowGoesOn
<1> QED BY <1>7, <1>9, <1>10, <1>11, <1>12, Zenon DEF FlowSteps

\* The workflow is started by StartTask, which has inserted the row before.
LEMMA StartStep ==
    ASSUME [FlowSteps]_vars
    PROVE  /\ wf = "NONE" /\ wf' # "NONE" => starting = "start"
           /\ starting' = "start" => starting = "start" \/ row' = InitTask(row)
<1>1. ASSUME wf = "NONE", wf' # "NONE" PROVE starting = "start"
  <2>1. ~UNCHANGED engineVars /\ ~UNCHANGED wf /\ (\A ph : ~Running(ph))
    BY <1>1, Zenon DEF engineVars, Running
  <2>2. /\ ~NoticeReturns /\ ~TerminateWorkflow /\ (\A a, c : ~CompleteActivation(a, c))
        /\ ~ResumeSuspended /\ ~RouteNode /\ ~Resolutions /\ (\A s : ~AdminSignal(s))
    BY <1>1, <2>1, Zenon DEF NoticeReturns, CompleteActivation, UpdateActivation, ResumeSuspended, RouteNode,
       Resolutions, ResolveAbort, ResolveRetry, ResolveComplete, ResolveRefused, Resolve, AdminSignal,
       TerminateWorkflow
  <2>3. ~AdminActs
    BY <2>1, Zenon DEF AdminActs, ResolveAdminIntervention, ForceParkActivation, UpdateActivation
  <2>4. ASSUME NEW x PROVE /\ ~Reports(x, ActivityFails) /\ ~Reports(x, ActivitySucceeds)
                           /\ ~Reports(x, ActivitySuspends) /\ ~Reports(x, EndSucceeds)
                           /\ ~Retries(x) /\ ~Finishes(x) /\ (\A pc : ~Goes(x, pc)) /\ ~Awaited(x)
    BY <2>1, Zenon DEF Reports, Retries, Finishes, Goes, Awaited
  <2>5. ASSUME NEW x \in Attempts
        PROVE  ~StepRuns(x) /\ ~StepErrs(x) /\ ~AttemptTimesOut(x)
    BY <2>4, Zenon DEF StepRuns, StepErrs, StepClaims, StepRenders, StepReports, AttemptTimesOut
  <2>6. ASSUME NEW x \in Attempts
        PROVE  ~CompletionRuns(x) /\ ~CompletionReadFails(x) /\ ~CompletionErrs(x)
    BY <2>4, Zenon DEF CompletionRuns, CompletionReads, CompletionWrites, CompletionRechecks,
       CompletionWakes, CompletionReports, CompletionReadFails, CompletionErrs
  <2>7. ASSUME NEW c \in Callers
        PROVE  ~SubmitReads(c) /\ ~SubmitEnds(c) /\ ~SubmitCompletes(c) /\ ~SubmitPersists(c)
    BY <2>1, <2>2, Zenon DEF SubmitReads, SubmitEnds, SubmitCompletes, SubmitPersists
  <2>8. /\ ~SaveDraftReads /\ ~SaveDraftWrites /\ ~ParentForceParked /\ ~NoticeTimesOut
        /\ ~CancelTaskReads /\ ~CancelTaskTerminates /\ ~CancelTaskWrites /\ ~CancelTaskErrs
        /\ ~StartTaskInits /\ ~StartTaskAgain /\ ~UNCHANGED vars /\ (\A n : ~HoldsTask(n))
        /\ ~WorkflowGoesOn
    BY <2>1, <2>2, Zenon DEF SaveDraftReads, SaveDraftWrites, ParentForceParked, NoticeTimesOut,
       CancelTaskReads, CancelTaskTerminates, CancelTaskWrites, CancelTaskErrs, StartTaskInits,
       StartTaskAgain, vars, HoldsTask, WorkflowGoesOn
  <2> QED BY <2>3, <2>5, <2>6, <2>7, <2>8, Zenon DEF FlowSteps, StartTaskStarts
<1>2. ASSUME starting' = "start", starting # "start" PROVE row' = InitTask(row)
  <2>0. ASSUME NEW x \in Attempts PROVE ~StepRuns(x)
    BY <1>2, Zenon DEF StepRuns, StepClaims, StepRenders, StepReports, callVars
  <2>1. ASSUME NEW x \in Attempts
        PROVE  ~StepErrs(x) /\ ~AttemptTimesOut(x) /\ ~CompletionReadFails(x) /\ ~CompletionErrs(x)
    BY <1>2, Zenon DEF StepErrs, AttemptTimesOut, CompletionReadFails, CompletionErrs, callVars
  <2>2. ASSUME NEW x \in Attempts PROVE ~CompletionRuns(x)
    BY <1>2, Zenon DEF CompletionRuns, CompletionReads, CompletionWrites, CompletionRechecks,
       CompletionWakes, CompletionReports, callVars
  <2>3. ASSUME NEW c \in Callers
        PROVE  ~SubmitReads(c) /\ ~SubmitEnds(c) /\ ~SubmitCompletes(c) /\ ~SubmitPersists(c)
    BY <1>2, Zenon DEF SubmitReads, SubmitEnds, SubmitCompletes, SubmitPersists
  <2>4. /\ ~SaveDraftReads /\ ~SaveDraftWrites /\ ~ParentForceParked /\ ~NoticeTimesOut
        /\ ~CancelTaskReads /\ ~CancelTaskTerminates /\ ~CancelTaskWrites /\ ~CancelTaskErrs
        /\ ~StartTaskAgain /\ ~StartTaskStarts /\ ~UNCHANGED vars /\ (\A n : ~HoldsTask(n))
        /\ ~WorkflowGoesOn /\ ~AdminActs
    BY <1>2, Zenon DEF SaveDraftReads, SaveDraftWrites, ParentForceParked, NoticeTimesOut,
       CancelTaskReads, CancelTaskTerminates, CancelTaskWrites, CancelTaskErrs, StartTaskStarts,
       StartTaskAgain, vars, flowVars, callVars, HoldsTask, WorkflowGoesOn, AdminActs
  <2> QED BY <2>0, <2>1, <2>2, <2>3, <2>4, Zenon DEF FlowSteps, StartTaskInits
<1> QED BY <1>1, <1>2, Zenon

\* The parent's step is left once, by its admin or by a completion that has come to it.
LEMMA ParentStep ==
    ASSUME [FlowSteps]_vars, parent' # parent
    PROVE  /\ parent = "pending" /\ parent' # "pending"
           /\ parent' = "woken" => \E x \in Attempts : att[x] = "wake"
<1>0. ASSUME NEW x \in Attempts PROVE ~StepRuns(x)
  BY Zenon DEF StepRuns, StepClaims, StepRenders, StepReports, callVars
<1>1. ASSUME NEW x \in Attempts
      PROVE  ~StepErrs(x) /\ ~AttemptTimesOut(x) /\ ~CompletionReadFails(x) /\ ~CompletionErrs(x)
  BY Zenon DEF StepErrs, AttemptTimesOut, CompletionReadFails, CompletionErrs, callVars
<1>2. ASSUME NEW x \in Attempts, CompletionRuns(x)
      PROVE  att[x] = "wake" /\ parent = "pending" /\ parent' = "woken"
  BY <1>2, Zenon DEF CompletionRuns, CompletionReads, CompletionWrites, CompletionRechecks,
     CompletionWakes, CompletionReports, callVars, WakeParent
<1>3. ASSUME NEW c \in Callers
      PROVE  ~SubmitReads(c) /\ ~SubmitEnds(c) /\ ~SubmitCompletes(c) /\ ~SubmitPersists(c)
  BY Zenon DEF SubmitReads, SubmitEnds, SubmitCompletes, SubmitPersists
<1>4. /\ ~SaveDraftReads /\ ~SaveDraftWrites /\ ~NoticeTimesOut
      /\ ~CancelTaskReads /\ ~CancelTaskTerminates /\ ~CancelTaskWrites /\ ~CancelTaskErrs
      /\ ~StartTaskInits /\ ~StartTaskAgain /\ ~StartTaskStarts /\ ~UNCHANGED vars
      /\ (\A n : ~HoldsTask(n)) /\ ~WorkflowGoesOn /\ ~AdminActs
  BY Zenon DEF SaveDraftReads, SaveDraftWrites, NoticeTimesOut,
     CancelTaskReads, CancelTaskTerminates, CancelTaskWrites, CancelTaskErrs, StartTaskInits,
     StartTaskStarts, StartTaskAgain, vars, flowVars, callVars, HoldsTask, WorkflowGoesOn, AdminActs
<1> QED BY <1>0, <1>1, <1>2, <1>3, <1>4, Zenon DEF FlowSteps, ParentForceParked

\* As long as no attempt outlives its timeout, the node does not go on before the attempt
\* that Temporal waits for is over.
NodeStays(y) ==
    y = <<seq, attempt>> /\ phase = "RUNNING" /\ att'[y] = att[y] => UNCHANGED <<seq, attempt, phase>>

\* An answer comes from that attempt itself.
LEMMA AnswerEnds ==
    ASSUME FlowTypeOK, NEW x \in Attempts, att[x] # "off", NEW y \in Attempts,
           \/ Reports(x, ActivityFails) \/ Reports(x, ActivitySuspends)
           \/ Reports(x, ActivitySucceeds) \/ Reports(x, EndSucceeds)
           \/ Retries(x) \/ Finishes(x) \/ (\E pc : Goes(x, pc))
    PROVE  NodeStays(y)
<1>0. att \in [Attempts -> AttemptSteps] /\ attempt \in Nat
  BY FlowAssumption DEF FlowTypeOK
<1>1. CASE \E pc : Goes(x, pc)
  BY <1>1, Zenon DEF Goes, NodeStays, engineVars
<1>2. ASSUME Awaited(x), Schedules(Ended(x)) PROVE NodeStays(y)
  <2>1. ASSUME y = x PROVE att'[y] = "off"
    <3>1. Ended(x) \in [Attempts -> AttemptSteps \cup {"off"}] /\ Ended(x)[x] = "off"
      BY <1>0, Zenon DEF Ended
    <3>2. CASE seq' # seq /\ phase' = "RUNNING" /\ kind'[seq'] \in ActivityKinds
      <4>1. <<seq', 1>> # x
        BY <1>2, <3>2, Zenon DEF Awaited
      <4> QED BY <1>2, <2>1, <3>1, <3>2, <4>1, Zenon DEF Schedules
    <3>3. CASE ~(seq' # seq /\ phase' = "RUNNING" /\ kind'[seq'] \in ActivityKinds)
      BY <1>2, <2>1, <3>1, <3>3, Zenon DEF Schedules
    <3> QED BY <3>2, <3>3, Zenon
  <2> QED BY <1>2, <2>1, Zenon DEF NodeStays, Awaited
<1>3. ASSUME Awaited(x), NextAttempt(Ended(x)) PROVE NodeStays(y)
  <2>1. CASE attempt < MaxAttempts
    <3>1. att' = [Ended(x) EXCEPT ![<<seq, attempt + 1>>] = FirstStep(kind[seq])]
      BY <1>3, <2>1, Zenon DEF NextAttempt
    <3>2. Ended(x) \in [Attempts -> AttemptSteps \cup {"off"}] /\ Ended(x)[x] = "off"
      BY <1>0, Zenon DEF Ended
    <3>3. x # <<seq, attempt + 1>>
      BY <1>0, <1>3 DEF Awaited
    <3>4. att'[x] = "off"
      BY <3>1, <3>2, <3>3, Zenon
    <3> QED BY <1>3, <3>4, Zenon DEF NodeStays, Awaited
  <2>2. CASE ~(attempt < MaxAttempts)
    BY <1>2, <1>3, <2>2, Zenon DEF NextAttempt
  <2> QED BY <2>1, <2>2, Zenon
<1> QED BY <1>1, <1>2, <1>3, Zenon DEF Reports, Retries, Finishes

\* So it is with every other step.
LEMMA NodeStaysStep ==
    ASSUME FlowTypeOK, ActivationInv, RunsFollow, [FlowSteps]_vars, "timeout" \notin Faults,
           NEW y \in Attempts, att[y] # "off"
    PROVE  NodeStays(y)
<1>1. CASE UNCHANGED <<seq, attempt, phase>>
  BY <1>1, Zenon DEF NodeStays
<1>2. ASSUME phase = "RUNNING", y = <<seq, attempt>> PROVE wf # "NONE" /\ kind[seq] \notin RoutingKinds
  <2>1. kind[seq] \in ActivityKinds
    BY <1>2, Zenon DEF RunsFollow
  <2> QED BY <1>2, <2>1, Zenon DEF ActivationInv, LaterUntouched, ActivityKinds, TaskKinds, RoutingKinds
<1>3. CASE StartTaskStarts
  BY <1>1, <1>2, <1>3, Zenon DEF StartTaskStarts, NodeStays, engineVars, runVars
<1>4. CASE WorkflowGoesOn
  <2> SUFFICES ASSUME phase = "RUNNING", y = <<seq, attempt>> PROVE UNCHANGED <<seq, attempt, phase>>
    BY Zenon DEF NodeStays
  <2>1. PICK s \in signals : AdminSignal(s)
    BY <1>2, <1>4, Zenon DEF WorkflowGoesOn, ResumeSuspended, RouteNode, Resolutions, ResolveAbort, ResolveRetry,
       ResolveComplete, ResolveRefused, Resolve, Running
  <2>2. ~Addresses(s)
    BY Zenon DEF Addresses, ActivationInv, OneOpenStep
  <2> QED BY <1>4, <2>1, <2>2, Zenon DEF AdminSignal, WorkflowGoesOn, Schedules
<1>5. CASE AdminActs
  BY <1>1, <1>5, Zenon DEF AdminActs, ResolveAdminIntervention, ForceParkActivation, UpdateActivation, flowVars
<1>6. ASSUME NEW x \in Attempts, StepRuns(x) \/ StepErrs(x) \/ AttemptTimesOut(x)
      PROVE  NodeStays(y)
  <2>1. att[x] # "off"
    BY <1>6, Zenon DEF StepRuns, StepErrs, StepClaims, StepRenders, StepReports, AttemptTimesOut
  <2>2. CASE StepRuns(x)
    BY <2>1, <2>2, AnswerEnds, Zenon DEF StepRuns, StepClaims, StepRenders, StepReports
  <2>3. CASE StepErrs(x) \/ AttemptTimesOut(x)
    BY <2>1, <2>3, AnswerEnds, Zenon DEF StepErrs, AttemptTimesOut
  <2> QED BY <1>6, <2>2, <2>3, Zenon
<1>7. ASSUME NEW x \in Attempts, CompletionRuns(x) \/ CompletionReadFails(x) \/ CompletionErrs(x)
      PROVE  NodeStays(y)
  BY <1>7, AnswerEnds, Zenon
  DEF CompletionRuns, CompletionReads, CompletionWrites, CompletionRechecks, CompletionWakes,
      CompletionReports, CompletionReadFails, CompletionErrs
<1>8. ASSUME NEW c \in Callers,
             SubmitReads(c) \/ SubmitEnds(c) \/ SubmitCompletes(c) \/ SubmitPersists(c)
      PROVE  UNCHANGED <<seq, attempt, phase>>
  BY <1>8, Zenon DEF SubmitReads, SubmitEnds, SubmitCompletes, SubmitPersists, CompleteActivation,
     UpdateActivation, engineVars, runVars
<1>9. CASE \/ SaveDraftReads \/ SaveDraftWrites \/ ParentForceParked \/ NoticeTimesOut
           \/ CancelTaskReads \/ CancelTaskTerminates \/ CancelTaskWrites \/ CancelTaskErrs
           \/ StartTaskInits \/ StartTaskAgain \/ UNCHANGED vars
  BY <1>1, <1>9, Zenon DEF SaveDraftReads, SaveDraftWrites, ParentForceParked, NoticeTimesOut, NoticeReturns,
     CancelTaskReads, CancelTaskTerminates, TerminateWorkflow, CancelTaskWrites, CancelTaskErrs,
     StartTaskInits, StartTaskAgain, vars, engineVars, flowVars, runVars
<1>10. ASSUME NEW n \in holds, HoldsTask(n) PROVE UNCHANGED <<seq, attempt, phase>>
  BY <1>10, Zenon DEF HoldsTask, NoticeReturns, engineVars
<1> QED BY <1>1, <1>3, <1>4, <1>5, <1>6, <1>7, <1>8, <1>9, <1>10, Zenon DEF FlowSteps

\* A workflow ends at its END by the report of the completion that ran there.
LEMMA EndReportStep ==
    ASSUME [FlowSteps]_vars, EndRuns, wf' = "COMPLETED"
    PROVE  \E x \in Attempts : att[x] = "report" /\ kind[x[1]] = "END"
<1>1. /\ ~UNCHANGED engineVars /\ ~UNCHANGED wf /\ wf = "RUNNING" /\ phase = "RUNNING"
      /\ kind[seq] = "END" /\ ~TaskRuns
  BY Zenon DEF engineVars, EndRuns, Running, TaskRuns, TaskKinds
<1>2. /\ ~NoticeReturns /\ (\A a, c : ~CompleteActivation(a, c)) /\ ~TerminateWorkflow
      /\ ~ResumeSuspended /\ ~RouteNode /\ ~Resolutions /\ (\A s : ~AdminSignal(s)) /\ ~StartWorkflow
  BY <1>1, Zenon DEF NoticeReturns, CompleteActivation, UpdateActivation, ResumeSuspended, RouteNode,
     Resolutions, ResolveAbort, ResolveRetry, ResolveComplete, ResolveRefused, Resolve, AdminSignal,
     TerminateWorkflow, StartWorkflow, Running
<1>3. ~AdminActs /\ ~EndFails /\ ~ActivityFails /\ ~ActivitySucceeds /\ ~ActivitySuspends
  BY <1>1, Zenon DEF AdminActs, ResolveAdminIntervention, ForceParkActivation, UpdateActivation, EndFails,
     ActivityFails, ActivitySucceeds, ActivitySuspends
<1>4. ASSUME NEW x PROVE /\ ~Reports(x, ActivityFails) /\ ~Reports(x, ActivitySucceeds)
                         /\ ~Reports(x, ActivitySuspends)
                         /\ ~Retries(x) /\ ~Finishes(x) /\ (\A pc : ~Goes(x, pc))
                         /\ (\A left : ~NextAttempt(left))
  BY <1>1, <1>3, Zenon DEF Reports, Retries, Finishes, Goes, NextAttempt
<1>5. ASSUME NEW x \in Attempts
      PROVE  ~StepRuns(x) /\ ~StepErrs(x) /\ ~AttemptTimesOut(x)
  <2>1. ~StepRuns(x)
    BY <1>4, Zenon DEF StepRuns, StepClaims, StepRenders, StepReports
  <2> QED BY <1>4, <2>1, Zenon DEF StepErrs, AttemptTimesOut
<1>6. ASSUME NEW x \in Attempts, CompletionRuns(x) \/ CompletionReadFails(x) \/ CompletionErrs(x)
      PROVE  att[x] = "report" /\ kind[x[1]] = "END"
  BY <1>4, <1>6, Zenon DEF CompletionRuns, CompletionReads, CompletionWrites, CompletionRechecks,
     CompletionWakes, CompletionReports, CompletionReadFails, CompletionErrs
<1>7. ASSUME NEW c \in Callers
      PROVE  ~SubmitReads(c) /\ ~SubmitEnds(c) /\ ~SubmitCompletes(c) /\ ~SubmitPersists(c)
  BY <1>1, <1>2, Zenon DEF SubmitReads, SubmitEnds, SubmitCompletes, SubmitPersists
<1>8. /\ ~SaveDraftReads /\ ~SaveDraftWrites /\ ~ParentForceParked /\ ~NoticeTimesOut
      /\ ~CancelTaskReads /\ ~CancelTaskTerminates /\ ~CancelTaskWrites /\ ~CancelTaskErrs
      /\ ~StartTaskInits /\ ~StartTaskAgain /\ ~StartTaskStarts /\ ~UNCHANGED vars
      /\ (\A n : ~HoldsTask(n)) /\ ~WorkflowGoesOn
  BY <1>1, <1>2, Zenon DEF SaveDraftReads, SaveDraftWrites, ParentForceParked, NoticeTimesOut,
     CancelTaskReads, CancelTaskTerminates, CancelTaskWrites, CancelTaskErrs, StartTaskInits,
     StartTaskStarts, StartTaskAgain, vars, HoldsTask, WorkflowGoesOn
<1> QED BY <1>3, <1>5, <1>6, <1>7, <1>8, Zenon DEF FlowSteps

=============================================================================
