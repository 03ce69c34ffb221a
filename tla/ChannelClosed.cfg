SPECIFICATION Spec
CONSTANTS
    i1 = i1
    Interps = {i1}
    BufSize = 2
    MaxBytes = 4
    MaxDepth = 1
INVARIANTS ClosedOrScheduled
CHECK_DEADLOCK FALSE
