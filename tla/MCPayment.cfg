\* Two checkouts for one step, with two webhook requests at a time, under every failure.
SPECIFICATION PayFairSpec
CONSTANTS
    k1 = k1
    k2 = k2
    r1 = r1
    r2 = r2
    h1 = h1
    h2 = h2
    Checkouts <- MCTwoCheckouts
    Refs <- MCTwoRefs
    Offered <- MCOffered
    Repeated <- MCOneRef
    Handlers <- MCHandlers
    MaxNotes = 1
    Faults <- MCAllFaults
INVARIANTS
    PayInv
    EarnedPerSettlement
    StepToldTheRow
PROPERTIES
    PaymentSettles
\* When everything has been reported there may be nothing left to do.
CHECK_DEADLOCK FALSE
