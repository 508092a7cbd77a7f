SPECIFICATION Spec
CONSTANTS
    Asks = {a1, a2, a3, a4}
    Ids = {i1, i2, i3, i4}
    NoId = NoId
    MaxConcurrent = 2
SYMMETRY Symmetry
INVARIANTS TypeOK SlotsHeldByLiveTasks DistinctIdsWithinLimit DistinctIdsNoneLeft
CHECK_DEADLOCK FALSE
