\* Two branches, so that each waits for one sibling; a first run and two more visits.
SPECIFICATION SplitSpec
CONSTANTS
    N = 2
    Modes <- MCModes
    MaxVisits = 3
INVARIANTS
    SplitInv
    CompletedIsWhole
    RendezvousHolds
PROPERTIES
    RendezvousOpens
\* The workflow has ended, or a child waits for someone outside that never answers.
CHECK_DEADLOCK FALSE
