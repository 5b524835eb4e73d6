\* A submission is accepted while a second attempt of its step is still to fail.
SPECIFICATION FlowSpec
CONSTANTS
    c1 = c1
    c2 = c2
    MaxSeq = 4
    MaxParkings = 1
    MaxSignals = 1
    Kinds <- MCFormKinds
    Callers <- MCOneCaller
    MaxAttempts = 2
    MaxCancels = 0
    Faults <- MCLate
    Actors <- MCNobody
INVARIANTS
    AcceptedReachesWorkflow
\* A task whose workflow has ended, and on which nobody acts, takes no further step.
CHECK_DEADLOCK FALSE
