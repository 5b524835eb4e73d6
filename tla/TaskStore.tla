------------------------------ MODULE TaskStore ------------------------------
(***************************************************************************)
(* The conditional writes of taskflow/store/gorm on one task row.  Each is *)
(* one UPDATE whose WHERE clause is its guard: CanX(r, ...) says whether   *)
(* it changes a row, X(r, ...) is the row that it leaves.  A step is named *)
(* by the run counter of its activation, from which the engine derives the *)
(* step ID.                                                                *)
(***************************************************************************)
EXTENDS Integers

NoStep == 0     \* active_step_id is NULL

\* Plugins choose the state that a step shows; SHOWING stands for all of these.
RowStates == {"NONE", "STARTING", "STARTING_STEP", "SHOWING", "ADVANCING", "ON_HOLD",
              "COMPLETED", "CANCELLED"}
ClosedStates == {"COMPLETED", "CANCELLED"}

\* The row before it is inserted.  The data column is abstracted to who wrote it
\* last: the claim (inputs), the plugin, a draft or a submitter.
NoRow == [state |-> "NONE", active |-> NoStep, seq |-> 0, data |-> "nothing"]

Exists(r) == r.state # "NONE"

\* INSERT ... ON CONFLICT DO NOTHING.
InitTask(r) ==
    IF Exists(r) THEN r ELSE [r EXCEPT !.state = "STARTING", !.data = "inputs"]

CanClaimStepOfCancelled(r, n) == Exists(r) /\ r.seq <= n
CanClaimStepNotHeld(r, n) == Exists(r) /\ r.seq <= n /\ r.state \notin {"CANCELLED", "ON_HOLD"}
CanClaimStepAnySeq(r, n) == Exists(r) /\ r.state # "CANCELLED"
CanClaimStep(r, n) == Exists(r) /\ r.seq <= n /\ r.state # "CANCELLED"
ClaimStep(r, n) ==
    [state |-> "STARTING_STEP", active |-> n, seq |-> n, data |-> "inputs"]

CanWriteRenderState(r, n) == r.active = n /\ r.seq = n
WriteRenderState(r, n, st) == [r EXCEPT !.state = st, !.data = "plugin"]

\* s is the seq that the caller read with the row.
CanPersistSubmission(r, n, s) == r.active = n /\ r.seq = s
PersistSubmissionInPlace(r, s, c) == [r EXCEPT !.state = "ADVANCING", !.data = c]
PersistSubmission(r, s, c) == [r EXCEPT !.state = "ADVANCING", !.seq = s + 1, !.data = c]

\* The states of a step that is not showing.
NoDraftStates == {"STARTING_STEP", "ADVANCING", "COMPLETED", "CANCELLED", "ON_HOLD"}
CanWriteDraft(r, n, s) == r.active = n /\ r.seq = s /\ r.state \notin NoDraftStates
WriteDraft(r) == [r EXCEPT !.data = "draft"]

CanCancelTask(r) == Exists(r) /\ r.state # "COMPLETED"
CancelTask(r) == [r EXCEPT !.state = "CANCELLED", !.seq = r.seq + 1]

\* A step that parks after its submission finds the row ADVANCING one further.
CanHoldTaskLate(r, n) == Exists(r) /\ r.state \notin ClosedStates
CanHoldTask(r, n) ==
    /\ Exists(r)
    /\ r.seq <= n \/ (r.state = "ADVANCING" /\ r.seq = n + 1)
    /\ r.state \notin ClosedStates
HoldTaskAdvancing(r, n) == [r EXCEPT !.state = "ON_HOLD", !.seq = r.seq + 1]
HoldTask(r, n) == [r EXCEPT !.state = "ON_HOLD", !.seq = IF r.seq > n THEN r.seq ELSE n]

CanCompleteTask(r, n) == Exists(r) /\ r.seq <= n /\ r.state # "CANCELLED"
CompleteTask(r, n) == [r EXCEPT !.state = "COMPLETED", !.seq = n]

=============================================================================
