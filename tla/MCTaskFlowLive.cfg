\* One task under the fairness of Temporal's scheduling, with lost answers and admins who
\* park steps and resolve parkings.
SPECIFICATION FlowFairSpec
CONSTANTS
    c1 = c1
    c2 = c2
    MaxSeq = 4
    MaxParkings = 1
    MaxSignals = 1
    Kinds <- MCRouteKinds
    Callers <- MCOneCaller
    MaxAttempts = 2
    MaxCancels = 0
    Faults <- MCLost
    Actors <- MCAdmins
PROPERTIES
    AnsweredStepEnds
    ResolutionTakesEffect
    EndSettles
    RetryReleasesHold
\* A task whose workflow has ended, and on which nobody acts, takes no further step.
CHECK_DEADLOCK FALSE
