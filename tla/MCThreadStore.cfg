SPECIFICATION Spec
CONSTANTS
    Requests = {r1, r2, r3}
    Threads = {t1, t2}
    Topics = {b1, b2}
    NoTopic = NoTopic
    Bodies = {text}
    PoolMax = 2
SYMMETRY Symmetry
INVARIANTS TypeOK SeqsContiguous PoolSound AcknowledgedStored QuestionBeforeAnswer IInv
PROPERTY RefinesThreadLog
CHECK_DEADLOCK FALSE
