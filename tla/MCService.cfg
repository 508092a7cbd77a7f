SPECIFICATION FairSpec
CONSTANTS
    Calls = {c1, c2}
    Dirs <- MCDirs
    Env <- MCEnv
    Dsns <- MCDsns
    Ids = {"t1", "t3"}
    PoolMax = 1
INVARIANTS TypeOK ReadyIsComplete DownIsClean AcknowledgedQuestionsAreClosed
PROPERTIES EveryCallEnds ShutdownEnds
CHECK_DEADLOCK FALSE
