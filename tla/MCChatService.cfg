SPECIFICATION Spec
CONSTANTS
    Requests = {r1, r2}
    Threads = {t1}
    Topics = {b1, b2}
    NoTopic = NoTopic
    PoolMax = 2
    AnswerLen = 1
    MaxAttempts = 2
    RetryableFlags = {TRUE, FALSE}
    MaxTurns = 1
    Routes = {metagc}
    DefaultRoute = default
    EngineResumes = {TRUE, FALSE}
    Faults = {"request", "plugin", "database", "cancel"}
SYMMETRY Symmetry
INVARIANTS TypeOK StreamShape StoredIsStreamed DoneIsStored RejectedGoesNoFurther
    NoConnectionWhileStreaming HistoryIsComplete
PROPERTY ImplementsStore
CHECK_DEADLOCK FALSE
