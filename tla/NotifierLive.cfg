SPECIFICATION FairSpec
CONSTANTS
    f = f
    t = t
    m = m
    NULL = NULL
    Events = {f, m}
    MaxPosts = 2
    MaxDepth = 2
    DeleteInService = FALSE
    FileEvents = {f}
    TimerEvents = {}
    FlagSets = {{}, {"TIMER", "DONT_WAIT"}}
    Posters = {"thread", "handler"}
    Places = {"TAIL"}
    Signals = TRUE
    Modes = {}
    Deletes = TRUE
    MaxCalls = 2
    MaxIdle = 1
CHECK_DEADLOCK FALSE
PROPERTIES WorkServed
