SPECIFICATION Spec
CONSTANTS
    Requests = {r1}
    Threads = {t1}
    Topics = {b1}
    NoTopic = NoTopic
    PoolMax = 1
    AnswerLen = 1
    MaxAttempts = 2
    RetryableFlags = {TRUE, FALSE}
    MaxTurns = 1
    Routes = {metagc}
    DefaultRoute = metagc
    EngineResumes = {TRUE}
    Faults = {"cancel"}
INVARIANT CancelKeepsPartial
CHECK_DEADLOCK FALSE
