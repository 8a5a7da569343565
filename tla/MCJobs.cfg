CONSTANTS
    NULL = NULL
    Jobs = {"j1", "j2"}
    Bare = {"j2"}
    Pollers = {"w1", "w2"}
    MaxFailures = 2
    MaxResets = 2
    LostStarts = TRUE
    Cancels = TRUE
    JobDefers = TRUE
    Redrives = FALSE
SPECIFICATION MCSpec
INVARIANTS OneRunPerJob OutcomeIsTheRuns
PROPERTIES JobsSettle 
CHECK_DEADLOCK FALSE
