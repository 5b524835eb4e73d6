----------------------------- MODULE TaskClaim -----------------------------
(***************************************************************************)
(* Claims of tasks (orchestrator/claim.go and the two statements of the    *)
(* store).  ClaimTask and ReleaseTask are loops: a guarded write and, when *)
(* its guard did not match, a read that says why.  Between the two the row *)
(* may change again, by other holders or by the steps of the task.         *)
(***************************************************************************)
EXTENDS Integers, FiniteSets

CONSTANTS
    Callers,        \* concurrent calls
    Holders,        \* who may hold a claim
    Nobody,         \* no holder: claimed_by is NULL
    claimAttempts,  \* the code's 3
    MaxChanges      \* bound: changes of the row

ASSUME ClaimAssumption ==
    /\ Nobody \notin Holders
    /\ claimAttempts \in Nat \ {0}
    /\ MaxChanges \in Nat

VARIABLES
    task,       \* the row: its state and its claim; claimed_at is the number of the change
    call,       \* the calls of ClaimTask and ReleaseTask
    changes     \* changes of the row so far

claimVars == <<task, call, changes>>

Ended == {"COMPLETED", "CANCELLED"}
NewCall(op, h, seen) == [op |-> op, holder |-> h, pc |-> "write", tries |-> 0, seen |-> seen, answer |-> "none"]
Idle == NewCall("none", Nobody, 0)

\* The UPDATE statements: their guards and what they set.
CanClaimAnything(h) == task.state \notin Ended
CanClaimTask(h) == task.by \in {Nobody, h} /\ task.state \notin Ended
Claimed(h) == IF task.by = h THEN task ELSE [task EXCEPT !.by = h, !.at = changes + 1]
CanReleaseTask(h) == task.by = h
Released == [task EXCEPT !.by = Nobody, !.at = 0]

Answer(c, a) ==
    call' = [call EXCEPT ![c].answer = a, ![c].pc = "done"]

ClaimInit ==
    /\ task = [state |-> "OPEN", by |-> Nobody, at |-> 0]
    /\ call = [c \in Callers |-> Idle]
    /\ changes = 0

\* A caller begins a call.  The history field seen is the number of changes until then.
Begins(c, op, h) ==
    /\ call[c].pc = "done" \/ call[c].op = "none"
    /\ call' = [call EXCEPT ![c] = NewCall(op, h, changes)]
    /\ UNCHANGED <<task, changes>>

\* The guarded write.  When it matches no row the call goes on to the read.
Writes(c) ==
    LET h == call[c].holder
        matches == IF call[c].op = "claim" THEN CanClaimTask(h) ELSE CanReleaseTask(h)
        after == IF call[c].op = "claim" THEN Claimed(h) ELSE Released
    IN  /\ call[c].op # "none"
        /\ call[c].pc = "write"
        /\ IF matches
           THEN /\ after # task => changes < MaxChanges
                /\ changes' = IF after = task THEN changes ELSE changes + 1
                /\ task' = after
                /\ Answer(c, "ok")
           ELSE /\ call' = [call EXCEPT ![c].pc = "read"]
                /\ UNCHANGED <<task, changes>>

WriteErrs(c) ==
    /\ call[c].op # "none"
    /\ call[c].pc = "write"
    /\ Answer(c, "error")
    /\ UNCHANGED <<task, changes>>

\* The row can be claimed or released by now: the call tries again.
TriesAgain(c) ==
    IF call[c].tries + 1 = claimAttempts THEN Answer(c, "kept changing")
    ELSE call' = [call EXCEPT ![c].pc = "write", ![c].tries = @ + 1]

ExplainsClaimLate(c) ==
    IF task.state = "COMPLETED" THEN Answer(c, "completed") ELSE TriesAgain(c)
\* A holder that reads its own name has lost a race; anyone else's name is the answer.
ExplainsClaim(c) ==
    IF task.state = "COMPLETED" THEN Answer(c, "completed")
    ELSE IF task.by \notin {Nobody, call[c].holder} THEN Answer(c, "held")
    ELSE TriesAgain(c)

ExplainsRelease(c) ==
    IF task.by = Nobody THEN Answer(c, "ok")
    ELSE IF task.by # call[c].holder THEN Answer(c, "not holder")
    ELSE TriesAgain(c)

Reads(c) ==
    /\ call[c].pc = "read"
    /\ \/ IF call[c].op = "claim" THEN ExplainsClaim(c) ELSE ExplainsRelease(c)
       \/ Answer(c, "not found")        \* no row, or a database error
    /\ UNCHANGED <<task, changes>>

\* The task ends.  The claim columns stay as they are.
TaskEnds(state) ==
    /\ task.state = "OPEN"
    /\ changes < MaxChanges
    /\ task' = [task EXCEPT !.state = state]
    /\ changes' = changes + 1
    /\ UNCHANGED call

ClaimNext ==
    \/ \E c \in Callers, op \in {"claim", "release"}, h \in Holders : Begins(c, op, h)
    \/ \E c \in Callers : Writes(c) \/ WriteErrs(c) \/ Reads(c)
    \/ \E state \in Ended : TaskEnds(state)

ClaimSpec == ClaimInit /\ [][ClaimNext]_claimVars

-----------------------------------------------------------------------------
(***************************************************************************)
(* Properties.                                                             *)
(***************************************************************************)
Answers == {"none", "ok", "error", "kept changing", "completed", "held", "not holder", "not found"}

ClaimTypeOK ==
    /\ task \in [state : {"OPEN"} \cup Ended, by : Holders \cup {Nobody}, at : 0 .. MaxChanges]
    /\ call \in [Callers -> [op : {"none", "claim", "release"}, holder : Holders \cup {Nobody},
                             pc : {"write", "read", "done"}, tries : 0 .. claimAttempts - 1,
                             seen : 0 .. MaxChanges, answer : Answers]]
    /\ changes \in 0 .. MaxChanges

\* A claim changes hands only through its release, keeps the time at which it began, and
\* is not given out once the task has ended (store.ClaimTask, store.ReleaseTask).
ClaimPassesByRelease ==
    [][/\ task'.by # task.by => Nobody \in {task.by, task'.by}
       /\ (task.by # Nobody /\ task'.by = task.by) => task'.at = task.at
       /\ (task.state \in Ended /\ task'.by # task.by) => task'.by = Nobody]_claimVars

\* "Each retry needs another concurrent change to fail again": a call that gives up saw
\* the row change at least once for each of its attempts, or the task was cancelled, which
\* ClaimTask does not tell from a change (ClaimTask, ReleaseTask).
GivesUpAfterChanges ==
    \A c \in Callers :
        /\ call[c].pc = "write" =>
              changes - call[c].seen >= call[c].tries \/ (call[c].op = "claim" /\ task.state = "CANCELLED")
        /\ call[c].answer = "kept changing" =>
              changes - call[c].seen >= claimAttempts \/ (call[c].op = "claim" /\ task.state = "CANCELLED")

=============================================================================
