\* A step parks between the acceptance of its submission and the write of the row.
SPECIFICATION FlowSpec
CONSTANTS
    c1 = c1
    c2 = c2
    MaxSeq = 3
    MaxParkings = 1
    MaxSignals = 1
    Kinds <- MCFormKinds
    Callers <- MCOneCaller
    MaxAttempts = 1
    MaxCancels = 0
    Faults <- MCNoFaults
    Actors <- MCNobody
INVARIANTS
    ParkedIsHeld
\* A task whose workflow has ended, and on which nobody acts, takes no further step.
CHECK_DEADLOCK FALSE
