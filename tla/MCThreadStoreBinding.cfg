SPECIFICATION Spec
CONSTANTS
    Requests = {r1, r2}
    Threads = {t1}
    Topics = {b1, b2}
    NoTopic = NoTopic
    Bodies = {text}
    PoolMax = 2
INVARIANT QuestionsMatchTopic
CHECK_DEADLOCK FALSE
