CONSTANTS
    NULL = NULL
    MaxGeneration = 3
    MaxCalls = 2
    MaxSteps = 3
    CatchChoices = {TRUE, FALSE}
    Resolver = TRUE
    KeyReplay = FALSE
    Operator = TRUE
    OperatorsRace = TRUE
    Retention = FALSE
    WritesFail = TRUE
SPECIFICATION LostSpec
INVARIANT SignalNotLost
CHECK_DEADLOCK FALSE
