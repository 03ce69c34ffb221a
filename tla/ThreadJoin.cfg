SPECIFICATION FairSpec
CONSTANTS
    Threads = {t1, t2}
    Joiners = {j1, j2}
    Main = main
    NULL = NULL
CHECK_DEADLOCK FALSE
INVARIANTS TypeOK NoUseAfterFree JoinedOnceAfterExit
PROPERTIES JoinsReturn
