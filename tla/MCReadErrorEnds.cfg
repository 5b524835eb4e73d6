\* HandleTaskCompletion cannot read the row.
SPECIFICATION FlowSpec
CONSTANTS
    c1 = c1
    c2 = c2
    MaxSeq = 3
    MaxParkings = 1
    MaxSignals = 1
    Kinds <- MCFormKinds
    Callers <- MCOneCaller
    MaxAttempts = 2
    MaxCancels = 0
    Faults <- MCReadFaults
    Actors <- MCNobody
PROPERTIES
    EndReportedWakesParent
\* A task whose workflow has ended, and on which nobody acts, takes no further step.
CHECK_DEADLOCK FALSE
