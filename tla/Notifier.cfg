SPECIFICATION Spec
CONSTANTS
    f = f
    t = t
    m = m
    NULL = NULL
    Events = {f, t, m}
    MaxPosts = 3
    MaxDepth = 2
    DeleteInService = FALSE
    FileEvents = {f}
    TimerEvents = {t}
    FlagSets = {{}, {"FILE"}, {"IDLE"}}
    Posters = {"thread", "program", "handler"}
    Places = {"TAIL"}
    Signals = TRUE
    Modes = {"NONE", "ALL"}
    Deletes = TRUE
    MaxCalls = 2
    MaxIdle = 1
CHECK_DEADLOCK FALSE
VIEW Visible
INVARIANTS TypeOK NoSleepOverEvents NoRecursiveService
PROPERTIES PollBetweenRounds
