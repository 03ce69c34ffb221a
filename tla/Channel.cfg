SPECIFICATION FairSpec
CONSTANTS
    i1 = i1
    i2 = i2
    Interps = {i1, i2}
    BufSize = 2
    MaxBytes = 4
    MaxDepth = 2
INVARIANTS TypeOK InOrder LossReported
PROPERTIES FlushEnds
CHECK_DEADLOCK FALSE
