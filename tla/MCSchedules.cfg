CONSTANTS
    Workers = {"w1", "w2"}
    MisfirePolicy = "catch_up"
    OverlapPolicy = "allow"
    CatchUpLimit = 1
    MaxTime = 4
    MaxRuns = 3
    MaxFaults = 1
    MaxSwitches = 2
    ReadFails = FALSE
    Continues = FALSE
    Defers = FALSE
SPECIFICATION MCSpec
INVARIANTS OneRunPerInstant NoSilentSkip
PROPERTIES NextMovesForward  
CHECK_DEADLOCK FALSE
