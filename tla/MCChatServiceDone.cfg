SPECIFICATION Spec
CONSTANTS
    Requests = {r1, r2}
    Threads = {t1}
    Topics = {b1}
    NoTopic = NoTopic
    PoolMax = 2
    AnswerLen = 1
    MaxAttempts = 1
    RetryableFlags = {TRUE, FALSE}
    MaxTurns = 1
    Routes = {metagc}
    DefaultRoute = metagc
    EngineResumes = {TRUE}
    Faults = {}
INVARIANT EveryStreamDone
CHECK_DEADLOCK FALSE
