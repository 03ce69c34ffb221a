SPECIFICATION FairSpec
CONSTANTS
    Owners = {o1, o2}
    c1 = c1
    c2 = c2
    i1 = i1
    i2 = i2
    Chans = {c1, c2}
    Interps = {i1, i2}
    InterpOf <- TwoInterps
    NULL = NULL
    AbruptExit = FALSE
    MaxDepth = 2
    MaxPosts = 1
INVARIANTS TypeOK SafeAtHome NobodyForgotten
PROPERTIES OpsReturn
CHECK_DEADLOCK FALSE
