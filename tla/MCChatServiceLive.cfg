SPECIFICATION FairSpec
CONSTANTS
    Requests = {r1, r2}
    Threads = {t1}
    Topics = {b1}
    NoTopic = NoTopic
    PoolMax = 1
    AnswerLen = 0
    MaxAttempts = 2
    RetryableFlags = {TRUE, FALSE}
    MaxTurns = 1
    Routes = {metagc}
    DefaultRoute = default
    EngineResumes = {TRUE}
    Faults = {"database", "cancel"}
PROPERTY EveryStreamCloses
CHECK_DEADLOCK FALSE
