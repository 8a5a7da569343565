CONSTANTS
    NULL = NULL
    MaxGeneration = 3
    MaxErrors = 1
    MaxReaps = 1
    Overtakes = FALSE
SPECIFICATION MCSpec
INVARIANTS HolderMayWork 
PROPERTIES  WorkersStop
CHECK_DEADLOCK FALSE
