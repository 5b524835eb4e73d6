\* Two callers race over the steps of a workflow of three node runs after START, with two
\* admin signals on their way at a time.
SPECIFICATION Spec
CONSTANTS
    MaxSeq = 4
    MaxParkings = 3
    MaxSignals = 2
    c1 = c1
    c2 = c2
    Kinds <- MCKinds
    Callers <- MCCallers
SYMMETRY MCSymmetry
INVARIANTS
    ActivationInv
PROPERTIES
    ImplementsOnce
    ResolvedByOwnSignal
\* A workflow that has ended takes no further step.
CHECK_DEADLOCK FALSE
