------------------------------- MODULE TaskFlow -------------------------------
(***************************************************************************)
(* One task: its row, the handlers of taskflow/orchestrator that write it, *)
(* the workflow that runs its steps (Activation) and the parent's step     *)
(* that waits for it.                                                      *)
(*                                                                         *)
(* Every handler is split where another actor can come between: at each    *)
(* read and write of the row, each call of the workflow and each answer to *)
(* Temporal.  An Activity attempt that Temporal has given up on keeps      *)
(* running and its writes may still land; a crashed attempt is one that    *)
(* takes no further step.                                                  *)
(***************************************************************************)
EXTENDS Activation, TaskStore

CONSTANTS
    MaxAttempts,    \* attempts of one Activity (taskMaxAttempts)
    MaxCancels,     \* bound: CancelTask calls
    Faults,         \* the failures that may happen, of AllFaults
    Actors          \* who takes part besides the submitters, of AllActors

\* timeout: an attempt or a notification outlives its timeout; lost: a call is
\* carried out and its answer lost; read, write: the database fails a call;
\* plugin: a plugin or what it is loaded from fails; rerun: StartTask is run again so
\* late that the task's workflow has closed.
AllFaults == {"timeout", "lost", "read", "write", "plugin", "rerun"}

\* drafter: calls SaveDraft; parker: force-parks the task's step; resolver: answers
\* its parkings; parentParker: force-parks the parent's step.
AllActors == {"drafter", "parker", "resolver", "parentParker"}

\* Who writes the data column, besides the submitters.
Writers == {"nothing", "inputs", "plugin", "draft"}

ASSUME FlowAssumption ==
    /\ MaxAttempts \in Nat \ {0}
    /\ MaxCancels \in Nat
    /\ Faults \subseteq AllFaults
    /\ Actors \subseteq AllActors
    /\ Callers \cap Writers = {}

Attempts == Acts \X (1 .. MaxAttempts)
ActivityKinds == TaskKinds \cup {"END"}

VARIABLES
    row,        \* the task row
    att,        \* what each Activity attempt does next
    attempt,    \* the attempt that Temporal waits for
    holds,      \* park notifications whose HoldTask has not run
    starting,   \* where the current StartTask attempt is
    sub,        \* CompleteTaskStep, one call per caller
    draft,      \* SaveDraft, one call
    cancel,     \* where the CancelTask call is
    cancels,    \* how many CancelTask calls there have been
    parent,     \* the parent's step that waits for the task
    rerun       \* whether the workflow is past its first run

flowVars == <<row, att, attempt, holds, starting, sub, draft, cancel, cancels, parent,
              rerun>>
vars == <<engineVars, flowVars>>

\* What Temporal runs for the task, and the calls from outside.
runVars == <<att, attempt, holds>>
callVars == <<starting, sub, draft, cancel, cancels, parent, rerun>>

\* A handler's call: the step it is for and the seq that it read with the row.
Call == [pc : {"idle", "call", "write"}, step : Acts \cup {NoStep}, seq : Nat]
Idle == [pc |-> "idle", step |-> NoStep, seq |-> 0]
ReadCall(pc) == [pc |-> pc, step |-> row.active, seq |-> row.seq]

\* The next step of an Activity attempt, "off" before it starts and once it ended.
AttemptSteps == {"off", "claim", "render", "read", "complete", "recheck", "wake", "report"}

FlowTypeOK ==
    /\ TypeOK
    /\ row \in [state : RowStates, active : Acts \cup {NoStep}, seq : Nat,
                data : Callers \cup Writers]
    /\ att \in [Attempts -> AttemptSteps]
    /\ attempt \in 0 .. MaxAttempts
    /\ holds \subseteq Acts
    /\ starting \in {"init", "start", "idle"}
    /\ sub \in [Callers -> Call]
    /\ draft \in Call
    /\ cancel \in {"idle", "terminate", "write"}
    /\ cancels \in 0 .. MaxCancels
    /\ parent \in {"pending", "woken", "parked"}
    /\ rerun \in BOOLEAN

FlowInit ==
    /\ Init
    /\ row = NoRow
    /\ att = [x \in Attempts |-> "off"]
    /\ attempt = 0
    /\ holds = {}
    /\ starting = "init"
    /\ sub = [c \in Callers |-> Idle]
    /\ draft = Idle
    /\ cancel = "idle"
    /\ cancels = 0
    /\ parent = "pending"
    /\ rerun = FALSE

-----------------------------------------------------------------------------
(***************************************************************************)
(* What Temporal runs outside the workflow.  A step of the workflow is an  *)
(* action of Activation conjoined with Schedules: a new activation starts  *)
(* the first attempt of its Activity, and a parking its notification.      *)
(***************************************************************************)
FirstStep(k) == IF k = "END" THEN "read" ELSE "claim"

\* left is att without the attempt whose answer the step takes.
Schedules(left) ==
    /\ IF seq' # seq /\ phase' = "RUNNING" /\ kind'[seq'] \in ActivityKinds
         THEN /\ attempt' = 1
              /\ att' = [left EXCEPT ![<<seq', 1>>] = FirstStep(kind'[seq'])]
         ELSE att' = left /\ UNCHANGED attempt
    /\ holds' = IF parking' # parking THEN holds \cup {seq'} ELSE holds

Ended(x) == [att EXCEPT ![x] = "off"]
Goes(x, pc) ==
    att' = [att EXCEPT ![x] = pc] /\ UNCHANGED <<engineVars, attempt, holds>>

\* Temporal waits for attempt x, and ignores the answer of any other.
Awaited(x) == Running("RUNNING") /\ x = <<seq, attempt>>

\* Attempt x has nothing left to do but report.
Finishes(x) == Goes(x, IF Awaited(x) THEN "report" ELSE "off")

Reports(x, A) == IF Awaited(x) THEN A /\ Schedules(Ended(x)) ELSE Goes(x, "off")

\* The awaited attempt is over with an error that allows another one.
NextAttempt(left) ==
    IF attempt < MaxAttempts
      THEN /\ attempt' = attempt + 1
           /\ att' = [left EXCEPT ![<<seq, attempt + 1>>] = FirstStep(kind[seq])]
           /\ UNCHANGED <<engineVars, holds>>
      ELSE (ActivityFails \/ EndFails) /\ Schedules(left)

Retries(x) == IF Awaited(x) THEN NextAttempt(Ended(x)) ELSE Goes(x, "off")

\* Attempt x outlives its StartToCloseTimeout: Temporal turns to the next one,
\* while x goes on, unless it was about to report.
AttemptTimesOut(x) ==
    /\ "timeout" \in Faults
    /\ Awaited(x) /\ att[x] # "off"
    /\ NextAttempt(IF att[x] = "report" THEN Ended(x) ELSE att)
    /\ UNCHANGED <<row, callVars>>

\* The workflow goes on by itself, or an admin acts on it.
WorkflowGoesOn ==
    /\ ResumeSuspended \/ RouteNode \/ Resolutions \/ \E s \in signals : AdminSignal(s)
    /\ Schedules(att)
    /\ UNCHANGED <<row, callVars>>

AdminActs ==
    /\ \/ "resolver" \in Actors /\ \E act \in Actions : ResolveAdminIntervention(act)
       \/ "parker" \in Actors /\ \E a \in Acts : ForceParkActivation(a)
    /\ UNCHANGED flowVars

-----------------------------------------------------------------------------
(***************************************************************************)
(* StartTask, the Activity of the parent's step.                           *)
(***************************************************************************)
StartTaskInits ==
    /\ starting = "init"
    /\ row' = InitTask(row)
    /\ starting' = "start"
    /\ UNCHANGED <<engineVars, runVars, sub, draft, cancel, cancels, parent, rerun>>

\* A retry attaches to the workflow that it finds running.
StartTaskStarts ==
    /\ starting = "start"
    /\ wf \in {"NONE", "RUNNING"}
    /\ starting' = "idle"
    /\ IF wf = "NONE" THEN StartWorkflow /\ Schedules(att)
                      ELSE UNCHANGED <<engineVars, runVars>>
    /\ UNCHANGED <<row, sub, draft, cancel, cancels, parent, rerun>>

\* A retry that finds the workflow closed starts another run of it, as no policy keeps
\* the ID from being used again: the engine is as it was before the first run, and
\* StartTaskStarts follows.  Until then nobody can tell the difference, since every call
\* refuses a closed workflow and one that does not exist alike.  Bounds: it happens once,
\* and by then the attempts and the notifications of the closed run are over.
StartTaskFindsClosed ==
    /\ "rerun" \in Faults /\ ~rerun
    /\ starting = "start"
    /\ att = [x \in Attempts |-> "off"]
    /\ holds = {}
    /\ RunForgotten
    /\ rerun' = TRUE
    /\ UNCHANGED <<runVars, row, starting, sub, draft, cancel, cancels, parent>>

\* The attempt failed or timed out, before or after what it was about to do, and
\* the Activity is run again.
StartTaskAgain ==
    /\ "lost" \in Faults
    /\ starting # "init"
    /\ starting' = "init"
    /\ UNCHANGED <<engineVars, runVars, row, sub, draft, cancel, cancels, parent, rerun>>

-----------------------------------------------------------------------------
(***************************************************************************)
(* StartTaskStep, the Activity of a step of the task: attempt x of step    *)
(* x[1].                                                                   *)
(***************************************************************************)
StepClaims(x) ==
    /\ att[x] = "claim"
    /\ IF CanClaimStep(row, x[1])
         THEN row' = ClaimStep(row, x[1]) /\ Goes(x, "render")
         ELSE UNCHANGED row /\ Reports(x, ActivityFails)
    /\ UNCHANGED callVars

\* The states that a step may show: a plugin that ends the step at once need not
\* set one.
ShownStates(k) == IF k = "CALL" THEN {"SHOWING", "STARTING_STEP"} ELSE {"SHOWING"}

\* The plugin has run; what it shows is written if the step is still current.
StepRenders(x) ==
    /\ att[x] = "render"
    /\ IF CanWriteRenderState(row, x[1])
         THEN \E st \in ShownStates(kind[x[1]]) : row' = WriteRenderState(row, x[1], st)
         ELSE UNCHANGED row
    /\ Finishes(x)
    /\ UNCHANGED callVars

StepReports(x) ==
    /\ att[x] = "report"
    /\ kind[x[1]] \in TaskKinds
    /\ Reports(x, IF kind[x[1]] = "FORM" THEN ActivitySuspends ELSE ActivitySucceeds)
    /\ UNCHANGED <<row, callVars>>

\* A call of the database or the plugin failed: retryable, unless the plugin or
\* an artifact says that it is permanent.
StepErrs(x) ==
    /\ att[x] \in {"claim", "render"}
    /\ \/ Faults \cap {"read", "write", "plugin"} # {} /\ Retries(x)
       \/ "plugin" \in Faults /\ Reports(x, ActivityFails)
    /\ UNCHANGED <<row, callVars>>

-----------------------------------------------------------------------------
(***************************************************************************)
(* HandleTaskCompletion, the Activity of the END node.                     *)
(***************************************************************************)
CompletionReadsOpen(x) ==
    /\ att[x] = "read"
    /\ IF row.state \in ClosedStates THEN Finishes(x) ELSE Goes(x, "complete")
    /\ UNCHANGED <<row, callVars>>

CompletionReads(x) ==
    /\ att[x] = "read"
    /\ IF row.state = "CANCELLED" THEN Finishes(x) ELSE Goes(x, "complete")
    /\ UNCHANGED <<row, callVars>>

\* The store reports a database error as "no such task", which is taken for a
\* workflow that is not a task's.
CompletionReadFails(x) ==
    /\ "read" \in Faults
    /\ att[x] = "read"
    /\ Finishes(x)
    /\ UNCHANGED <<row, callVars>>

CompletionWrites(x) ==
    /\ att[x] = "complete"
    /\ IF CanCompleteTask(row, x[1])
         THEN row' = CompleteTask(row, x[1]) /\ Goes(x, "wake")
         ELSE UNCHANGED row /\ Goes(x, "recheck")
    /\ UNCHANGED callVars

CompletionRechecksNothing(x) ==
    /\ att[x] = "recheck"
    /\ Goes(x, "wake")
    /\ UNCHANGED <<row, callVars>>

CompletionRechecks(x) ==
    /\ att[x] = "recheck"
    /\ \/ IF row.state = "CANCELLED" THEN Finishes(x) ELSE Goes(x, "wake")
       \/ "read" \in Faults /\ Goes(x, "wake")
    /\ UNCHANGED <<row, callVars>>

WakeParent == parent' = IF parent = "pending" THEN "woken" ELSE parent

\* onTaskCompleted; a parent's step that is no longer pending is success too.
CompletionWakes(x) ==
    /\ att[x] = "wake"
    /\ WakeParent
    /\ \/ Finishes(x)
       \/ "lost" \in Faults /\ Retries(x)
    /\ UNCHANGED <<row, starting, sub, draft, cancel, cancels, rerun>>

CompletionErrs(x) ==
    /\ \/ "write" \in Faults /\ att[x] = "complete"
       \/ "lost" \in Faults /\ att[x] = "wake"
    /\ Retries(x)
    /\ UNCHANGED <<row, callVars>>

CompletionReports(x) ==
    /\ att[x] = "report"
    /\ kind[x[1]] = "END"
    /\ Reports(x, EndSucceeds)
    /\ UNCHANGED <<row, callVars>>

-----------------------------------------------------------------------------
(***************************************************************************)
(* CompleteTaskStep and SaveDraft, called from outside with the step that  *)
(* the caller saw.  A call for another step than the active one is refused *)
(* at once and is left out.                                                *)
(***************************************************************************)
SubmitReads(c) ==
    /\ sub[c].pc = "idle"
    /\ row.state \notin ClosedStates
    /\ row.active # NoStep
    /\ sub' = [sub EXCEPT ![c] = ReadCall("call")]
    /\ UNCHANGED <<engineVars, runVars, row, starting, draft, cancel, cancels,
                   parent, rerun>>

\* An extension refuses the call, or the workflow does, or its answer is lost.
SubmitEnds(c) ==
    /\ sub[c].pc = "call"
    /\ \/ UNCHANGED engineVars
       \/ "lost" \in Faults /\ CompleteActivation(sub[c].step, c)
    /\ sub' = [sub EXCEPT ![c] = Idle]
    /\ UNCHANGED <<runVars, row, starting, draft, cancel, cancels, parent, rerun>>

SubmitCompletesUnasked(c) ==
    /\ sub[c].pc = "call"
    /\ sub' = [sub EXCEPT ![c].pc = "write"]
    /\ UNCHANGED <<engineVars, runVars, row, starting, draft, cancel, cancels,
                   parent, rerun>>

SubmitCompletes(c) ==
    /\ sub[c].pc = "call"
    /\ CompleteActivation(sub[c].step, c)
    /\ sub' = [sub EXCEPT ![c].pc = "write"]
    /\ UNCHANGED <<runVars, row, starting, draft, cancel, cancels, parent, rerun>>

\* The submission is accepted whether or not the row could be written.
SubmitPersists(c) ==
    /\ sub[c].pc = "write"
    /\ \/ row' = IF CanPersistSubmission(row, sub[c].step, sub[c].seq)
                   THEN PersistSubmission(row, sub[c].seq, c)
                   ELSE row
       \/ "write" \in Faults /\ UNCHANGED row
    /\ sub' = [sub EXCEPT ![c] = Idle]
    /\ UNCHANGED <<engineVars, runVars, starting, draft, cancel, cancels, parent, rerun>>

SaveDraftReads ==
    /\ "drafter" \in Actors
    /\ draft.pc = "idle"
    /\ row.active # NoStep
    /\ row.state \notin NoDraftStates
    /\ draft' = ReadCall("write")
    /\ UNCHANGED <<engineVars, runVars, row, starting, sub, cancel, cancels,
                   parent, rerun>>

\* The draft is written, or found stale, or refused by an extension.
SaveDraftWrites ==
    /\ draft.pc = "write"
    /\ \/ CanWriteDraft(row, draft.step, draft.seq) /\ row' = WriteDraft(row)
       \/ UNCHANGED row
    /\ draft' = Idle
    /\ UNCHANGED <<engineVars, runVars, starting, sub, cancel, cancels, parent, rerun>>

-----------------------------------------------------------------------------
(***************************************************************************)
(* CancelTask, HoldTask, and the admin of the parent.                      *)
(***************************************************************************)
CancelTaskReads ==
    /\ cancel = "idle" /\ cancels < MaxCancels
    /\ Exists(row) /\ row.state # "COMPLETED"
    /\ cancel' = "terminate"
    /\ cancels' = cancels + 1
    /\ UNCHANGED <<engineVars, runVars, row, starting, sub, draft, parent, rerun>>

\* A workflow that has closed, or was never started, is accepted.
CancelTaskTerminates ==
    /\ cancel = "terminate"
    /\ cancel' = "write"
    /\ IF wf = "RUNNING" THEN TerminateWorkflow ELSE UNCHANGED engineVars
    /\ UNCHANGED <<runVars, row, starting, sub, draft, cancels, parent, rerun>>

CancelTaskWrites ==
    /\ cancel = "write"
    /\ cancel' = "idle"
    /\ row' = IF CanCancelTask(row) THEN CancelTask(row) ELSE row
    /\ UNCHANGED <<engineVars, runVars, starting, sub, draft, cancels, parent, rerun>>

\* The termination or the write failed; the call may be made again.
CancelTaskErrs ==
    /\ cancel # "idle"
    /\ cancel' = "idle"
    /\ UNCHANGED <<engineVars, runVars, row, starting, sub, draft, cancels, parent, rerun>>

\* The park notification of activation n runs HoldTask, in time or after
\* Temporal has given up on it.
HoldsTask(n) ==
    /\ n \in holds
    /\ holds' = holds \ {n}
    /\ \/ row' = IF CanHoldTask(row, n) THEN HoldTask(row, n) ELSE row
       \/ Faults \cap {"read", "write"} # {} /\ UNCHANGED row
    /\ IF n = seq /\ wf = "RUNNING" /\ notice = "sent"
         THEN NoticeReturns ELSE UNCHANGED engineVars
    /\ UNCHANGED <<att, attempt, callVars>>

NoticeTimesOut ==
    /\ "timeout" \in Faults
    /\ NoticeReturns
    /\ UNCHANGED flowVars

\* The parent's own admin parks the step that waits for the task.
ParentForceParked ==
    /\ "parentParker" \in Actors
    /\ parent = "pending"
    /\ parent' = "parked"
    /\ UNCHANGED <<engineVars, runVars, row, starting, sub, draft, cancel, cancels, rerun>>

-----------------------------------------------------------------------------
StepRuns(x) == StepClaims(x) \/ StepRenders(x) \/ StepReports(x)
CompletionRuns(x) ==
    \/ CompletionReads(x) \/ CompletionWrites(x) \/ CompletionRechecks(x)
    \/ CompletionWakes(x) \/ CompletionReports(x)

FlowSteps ==
    \/ StartTaskInits \/ StartTaskStarts \/ StartTaskAgain
    \/ WorkflowGoesOn \/ AdminActs
    \/ \E x \in Attempts : \/ StepRuns(x) \/ StepErrs(x) \/ AttemptTimesOut(x)
                           \/ CompletionRuns(x) \/ CompletionReadFails(x) \/ CompletionErrs(x)
    \/ \E c \in Callers : SubmitReads(c) \/ SubmitEnds(c) \/ SubmitCompletes(c) \/ SubmitPersists(c)
    \/ SaveDraftReads \/ SaveDraftWrites
    \/ CancelTaskReads \/ CancelTaskTerminates \/ CancelTaskWrites \/ CancelTaskErrs
    \/ \E n \in holds : HoldsTask(n)
    \/ NoticeTimesOut \/ ParentForceParked

FlowNext == FlowSteps \/ StartTaskFindsClosed

(***************************************************************************)
(* Fairness is Temporal's: the workflow goes on, the attempt that it       *)
(* waits for ends, by its answer or by its timeout, a parking's            *)
(* notification runs, and the parent's StartTask is run to its end.        *)
(* Callers, admins and attempts that were given up may stop anywhere.      *)
(***************************************************************************)
FlowFairness ==
    /\ WF_vars(StartTaskInits \/ StartTaskStarts)
    /\ WF_vars(WorkflowGoesOn)
    /\ WF_vars(\E x \in Attempts : Awaited(x) /\ (StepRuns(x) \/ CompletionRuns(x)))
    /\ WF_vars(\E n \in holds : HoldsTask(n))

FlowSpec == FlowInit /\ [][FlowNext]_vars
FlowFairSpec == FlowSpec /\ FlowFairness

-----------------------------------------------------------------------------
(***************************************************************************)
(* Properties.                                                             *)
(***************************************************************************)

\* The row never runs ahead of the workflow: it is at most one version past the
\* current activation, and then only by the submission of that very step.  The
\* next claim, hold or completion therefore always matches its guard.
RowFollowsWorkflow ==
    row.state # "CANCELLED" =>
        /\ row.active <= row.seq
        /\ row.seq <= seq + 1
        /\ row.seq = seq + 1 => row.active = seq /\ row.state \in {"ADVANCING", "ON_HOLD"}

\* The row's version is never behind its active step.
RowOrdered == row.active <= row.seq

\* A submission on the row is past its step, in a state that takes no draft, and
\* is the one that the workflow accepted.
SubmissionOnRow ==
    row.data \in Callers =>
        /\ row.active \in Acts /\ row.active < row.seq
        /\ row.state \in NoDraftStates
        /\ future[row.active] = row.data

\* A CompleteTaskStep call holds a step that was active and, once past the
\* workflow, is the one that answered it.
CallsAccepted ==
    \A c \in Callers :
        /\ sub[c].pc # "idle" => sub[c].step \in Acts /\ sub[c].step <= sub[c].seq
        /\ sub[c].pc = "write" => future[sub[c].step] = c

\* The inductive invariant of the task: what was submitted is what the workflow
\* accepted, however the writes of the row are ordered.
RowInv == FlowTypeOK /\ ActivationInv /\ RowOrdered /\ SubmissionOnRow /\ CallsAccepted

\* Nothing follows an END but its own retries.  The START node, which takes run 1, is none.
EndIsLast ==
    /\ kind[1] = "none"
    /\ \A a, b \in Acts : a <= b /\ b <= seq /\ kind[a] = "END" => kind[b] = "END"

\* An attempt or a park notification that is under way, however late, is of a node that
\* has run, and an attempt does what is done for that kind of node.
RunsFollow ==
    /\ \A x \in Attempts :
          /\ att[x] # "off" => x[1] <= seq /\ kind[x[1]] \in ActivityKinds
          /\ att[x] \in {"claim", "render"} => kind[x[1]] \in TaskKinds
          /\ att[x] \in {"read", "complete", "recheck", "wake"} => kind[x[1]] = "END"
    /\ \A n \in holds : n <= seq
    /\ seq \in holds => phase \in {"PARKED", "JOINING"}

\* The row names a step that has run; a row that is past its step names one that takes no
\* answer any more, and the version of a completed row is that of an END.
RowIsOfSteps ==
    /\ row.active # NoStep => row.active <= seq /\ kind[row.active] \in TaskKinds
    /\ row.state = "COMPLETED" => row.seq \in Acts /\ row.seq <= seq /\ kind[row.seq] = "END"
    /\ row.state = "CANCELLED" => row.active < row.seq
    /\ row.state # "CANCELLED" /\ row.active < row.seq => row.active \notin pending
    /\ starting = "start" \/ wf # "NONE" => Exists(row)

\* A call has read a version that the row has had, before any cancellation; only one that
\* read the row at the version of its step can be accepted.
CallsFollow ==
    \A c \in Callers : sub[c].pc # "idle" =>
        /\ sub[c].step <= seq /\ sub[c].seq <= row.seq
        /\ sub[c].step < sub[c].seq => sub[c].step \notin pending
        /\ row.state = "CANCELLED" => sub[c].seq < row.seq
        /\ sub[c].pc = "write" => sub[c].seq = sub[c].step

\* The row names the current step, where a submission finds it as long as there is none.
StepShown ==
    /\ row.active = seq
    /\ seq \in pending => row.seq = seq /\ row.state \in {"SHOWING", "STARTING_STEP"}

\* It does so from the moment that the attempt which Temporal waits for has claimed it.
ClaimedIsShown ==
    row.state # "CANCELLED" =>
        /\ Running("SUSPENDED") => StepShown
        /\ \A x \in Attempts :
              Awaited(x) /\ kind[seq] \in TaskKinds /\ att[x] \in {"render", "report"} => StepShown

\* The inductive invariant with the order of the row's and the workflow's counters: the
\* row, the attempts and the calls are all behind the workflow.
FlowInv ==
    RowInv /\ RowFollowsWorkflow /\ EndIsLast /\ RunsFollow /\ RowIsOfSteps /\ CallsFollow /\ ClaimedIsShown

\* How far a completion has come, as long as reads do not fail and attempts do not outlive
\* their timeout: there is one at a time, and what it found in the row is still so.
CompletionInv ==
    Faults \cap {"read", "timeout"} = {} =>
        \A x \in Attempts :
           /\ att[x] # "off" => x = <<seq, attempt>> /\ phase = "RUNNING"
           /\ att[x] = "recheck" => row.state = "CANCELLED"
           /\ att[x] = "wake" => row.state = "COMPLETED"

\* A cancelled row is past its active step and past what any call has read of it, so
\* that no write which names a step or a version matches it.
CancelledIsPast ==
    /\ row.state = "CANCELLED" => row.active < row.seq
    /\ \A c \in Callers : sub[c].pc # "idle" =>
          sub[c].seq <= row.seq /\ (row.state = "CANCELLED" => sub[c].seq < row.seq)

\* A completion that is about to report has woken the parent or found the task cancelled,
\* as long as reads do not fail.
ReportIsTrue ==
    "read" \notin Faults =>
        \A x \in Attempts :
           att[x] = "report" /\ kind[x[1]] = "END" => parent # "pending" \/ row.state = "CANCELLED"

\* The inductive invariant that a second run of the workflow keeps too.
EveryRunInv ==
    FlowTypeOK /\ ActivationInv /\ RowOrdered /\ RunsFollow /\ CancelledIsPast /\ ReportIsTrue

\* A task that was cancelled stays so: no claim, render write, submission or hold that
\* was under way opens it again, and no second run of its workflow that a retried
\* StartTask starts.  A completed one stays so for as long as its workflow has run once:
\* a step of a second run, retried until its number is past the row's, claims the row of
\* a completed task (the guards of the store's statements).
ClosedIsFinal ==
    [][/\ row.state = "CANCELLED" => row'.state = "CANCELLED"
       /\ row.state = "COMPLETED" /\ ~rerun => row'.state = "COMPLETED"]_vars

\* The row never goes back to an earlier version or to an earlier step, whichever
\* late attempt, notification, call or second run writes it (seq orders the writes).
RowNeverRewinds ==
    [][row'.seq >= row.seq /\ row'.active >= row.active]_vars

\* Once a submission is on the row nothing replaces it as long as its step is the
\* active one: no retried claim, late render write, draft or second submission, as
\* long as the workflow has run once (PersistSubmission moves seq past the step).
SubmissionKept ==
    [][~rerun /\ row.data \in Callers /\ row'.active = row.active => row'.data = row.data]_vars

\* The submission on the row is the one that the workflow accepted for that step, as
\* long as it has run once (CompleteActivation decides before CompleteTaskStep writes).
PersistedIsAccepted == ~rerun /\ row.data \in Callers => future[row.active] = row.data

\* As long as the workflow waits for the submission of a step, the row names that
\* step at its own version and is neither on hold nor closed, so CompleteTaskStep
\* can reach it; unless the task was cancelled, or the workflow runs a second time.
SuspendedIsAddressable ==
    ~rerun /\ Running("SUSPENDED") /\ seq \in pending /\ row.state # "CANCELLED" =>
        row.active = seq /\ row.seq = seq /\ row.state \in {"SHOWING", "STARTING_STEP"}

\* A cancelled task never wakes its parent, although the completion reads, writes
\* and reads again while CancelTask runs: "The parent's TASK node that started it
\* keeps waiting on it" (CancelTask).  It is said of a workflow that has run once, and
\* where neither "read" nor "timeout" is among the faults: a recheck that cannot read
\* the row wakes the parent, and an attempt that was given up may do so late.
CancelledNeverWakes ==
    [][~rerun /\ parent = "pending" /\ parent' = "woken" => row.state # "CANCELLED"]_vars

\* The task workflow does not end with its completion reported and its parent
\* still waiting, whichever attempts of HandleTaskCompletion failed or timed out on the
\* way, in its first run or a later one, unless the task was cancelled.  It is said where
\* "read" is not among the faults: a read that fails is taken for a workflow that is not
\* a task's, and reports.
EndReportedWakesParent ==
    [][EndRuns /\ wf' = "COMPLETED" => parent # "pending" \/ row.state = "CANCELLED"]_vars

\* A task whose workflow has come to its END wakes its parent, or parks where an
\* admin sees it, unless it is cancelled (the attempts of HandleTaskCompletion).
EndSettles ==
    EndRuns ~> (parent # "pending" \/ phase = "PARKED" \/ wf = "TERMINATED"
                  \/ row.state = "CANCELLED")

\* The RETRY of a parked step takes the task off hold as the new run of the step
\* claims the row, unless the run parks before it starts its Activity (HoldTask).
RetryReleasesHold ==
    Running("JOINING") /\ resolution = "RETRY" /\ kind[seq] \in TaskKinds
      ~> \/ row.state # "ON_HOLD"
         \/ Running("PARKED") /\ outcome[seq] = "none"
         \/ wf # "RUNNING"

-----------------------------------------------------------------------------
(***************************************************************************)
(* What the code's comments say and the code does not do.                  *)
(***************************************************************************)

\* A submission that the workflow accepted is what its step goes on with: "the
\* submission reached the workflow through the Activity result either way"
\* (CompleteTaskStep).
AcceptedReachesWorkflow ==
    \A a \in Acts : future[a] \in Callers => outcome[a] \in {"none", "submitted", "unmapped"}

\* A draft that was saved stays until it is submitted or saved over, as long as
\* its step is the active one: SaveDraft stores it "so the step shows it the next
\* time it is rendered".
DraftKept ==
    [][row.data = "draft" /\ row'.active = row.active => row'.data \in Callers \cup {"draft"}]_vars

\* A node that is parked, and whose park notification has run, shows as on hold:
\* a step that parks after its submission "is held too" (HoldTask of the store).
ParkedIsHeld ==
    Running("PARKED") /\ notice = "done" => row.state \in ClosedStates \cup {"ON_HOLD"}

\* A task that was marked completed wakes its parent: "a crash between them is
\* repaired by Temporal retrying the whole call" (HandleTaskCompletion).
CompletedWakesParent == (row.state = "COMPLETED") ~> (parent # "pending" \/ phase = "PARKED")

=============================================================================
