SPECIFICATION SelectFairSpec
CONSTANTS
    t1 = t1
    t2 = t2
    f1 = f1
    Threads = {t1, t2}
    Files = {f1}
    NULL = NULL
    MaxEvents = 2
INVARIANTS SelectTypeOK SelectsForTheList
PROPERTIES PollFinds Progress
