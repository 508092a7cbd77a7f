SPECIFICATION FairSpec
CONSTANTS
    Requests = {r1}
    AnswerLen = 2
    MaxAttempts = 2
    Configs <- MCConfigs
    Env <- MCEnv
    Askers <- MCAskers
    Roles = {"REP"}
INVARIANTS TypeOK RightAgentAsked RoutableTopicsRun FailureToldOnce
PROPERTIES ImplementsNode OnlyUnreadableIsRepeated EndsUnlessHeld
CHECK_DEADLOCK FALSE
