SPECIFICATION Spec
CONSTANTS
    MaxHandlers = 1
    MaxDepth = 1
INVARIANTS NoSleepOverSignal
