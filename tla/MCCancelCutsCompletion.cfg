\* CancelTask terminates the workflow while its completion runs.
SPECIFICATION FlowFairSpec
CONSTANTS
    c1 = c1
    c2 = c2
    MaxSeq = 3
    MaxParkings = 1
    MaxSignals = 1
    Kinds <- MCFormKinds
    Callers <- MCOneCaller
    MaxAttempts = 2
    MaxCancels = 1
    Faults <- MCNoFaults
    Actors <- MCNobody
PROPERTIES
    CompletedWakesParent
\* A task whose workflow has ended, and on which nobody acts, takes no further step.
CHECK_DEADLOCK FALSE
