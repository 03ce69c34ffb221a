SPECIFICATION FairSpec
CONSTANTS
    MaxTimers = 3
    MaxTime = 3
    MaxDepth = 2
    Absolute = FALSE
    TimerFlags = {TRUE, FALSE}
INVARIANTS TypeOK PendingIffQueued NoneLostNoneTwice
PROPERTIES PassComplete TimersRun
