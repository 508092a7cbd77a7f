SPECIFICATION FairSpec
CONSTANTS
    Sessions <- MCSessions
    Owner <- MCOwner
    Biz <- MCBiz
    Reader = "u1"
    Filters <- MCFilters
    Limits = {1, 2}
    Lag = 1
    MaxTime = 3
INVARIANTS TypeOK MissesOnlyMoving
PROPERTIES ListedOnce ReadingEnds
CHECK_DEADLOCK FALSE
