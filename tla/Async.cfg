SPECIFICATION FairSpec
CONSTANTS
    MaxHandlers = 3
    MaxDepth = 2
INVARIANTS TypeOK SignalRemembered NoSleepOverMark
PROPERTIES MarksInvoked
