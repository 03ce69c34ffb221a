SPECIFICATION Spec
CONSTANTS
    Events = {e1, e2, e3}
    NULL = NULL
    MaxPosts = 4
    MaxDepth = 2
    DeleteInService = TRUE
SYMMETRY EventSymmetry
INVARIANTS TypeOK PointersOK ServicedOnce PriorityOrder RoundSplit
PROPERTIES ImplementsDispatch
