SPECIFICATION Spec
CONSTANTS
    Requests = {r1}
    AnswerLen = 2
    MaxAttempts = 2
    Configs <- MCConfigs
    Env <- MCEnv
    Askers <- MCAskers
    Roles = {"REP"}
INVARIANT DeltasAreAnswer
CHECK_DEADLOCK FALSE
