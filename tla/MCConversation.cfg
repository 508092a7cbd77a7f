SPECIFICATION Spec
CONSTANTS
    Asks = 5
    TurnLimits = {1, 2}
INVARIANTS HistoryIsNewestTurns WindowSuffices MixedTurnsOverlap
CHECK_DEADLOCK FALSE
