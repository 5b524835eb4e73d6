\* Two submitters race with force-parks, resolutions and one cancellation, while calls
\* fail before or after they took effect and StartTask is run again, even after the
\* workflow has closed.
SPECIFICATION FlowSpec
CONSTANTS
    c1 = c1
    c2 = c2
    MaxSeq = 3
    MaxParkings = 1
    MaxSignals = 1
    Kinds <- MCKinds
    Callers <- MCCallers
    MaxAttempts = 2
    MaxCancels = 1
    Faults <- MCRaceFaults
    Actors <- MCRaceActors
SYMMETRY MCSymmetry
INVARIANTS
    PersistedIsAccepted
PROPERTIES
    ClosedIsFinal
    CancelledNeverWakes
    EndReportedWakesParent
\* A task whose workflow has ended, and on which nobody acts, takes no further step.
CHECK_DEADLOCK FALSE
