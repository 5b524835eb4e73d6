\* One task whose attempts outlive their timeout and whose database reads fail, with a
\* drafter and an admin who resolves parkings: every late write of the row.
SPECIFICATION FlowSpec
CONSTANTS
    c1 = c1
    c2 = c2
    MaxSeq = 4
    MaxParkings = 1
    MaxSignals = 1
    Kinds <- MCFormKinds
    Callers <- MCOneCaller
    MaxAttempts = 2
    MaxCancels = 0
    Faults <- MCLateReads
    Actors <- MCLateActors
INVARIANTS
    FlowInv
    SuspendedIsAddressable
PROPERTIES
    RowNeverRewinds
    SubmissionKept
\* A task whose workflow has ended, and on which nobody acts, takes no further step.
CHECK_DEADLOCK FALSE
