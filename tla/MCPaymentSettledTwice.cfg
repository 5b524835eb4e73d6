\* A webhook settles the transaction before the checkout saves its row again.
SPECIFICATION PaySpec
CONSTANTS
    k1 = k1
    k2 = k2
    r1 = r1
    r2 = r2
    h1 = h1
    h2 = h2
    Checkouts <- MCOneCheckout
    Refs <- MCOneRef
    Offered <- MCOfferedOne
    Repeated <- MCOneRef
    Handlers <- MCHandlers
    MaxNotes = 2
    Faults <- MCNoFaults
INVARIANTS
    AdvanceEarnedOnce
\* When everything has been reported there may be nothing left to do.
CHECK_DEADLOCK FALSE
