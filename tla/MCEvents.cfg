CONSTANTS
    NULL = NULL
    Events = {"e1"}
    Workflows = {"w1", "w2"}
    EventKey <- OneKey
    WaitKey <- BothForIt
    Wants <- OneEach
    Poison = {}
    Hooks = {}
    Mssql = TRUE
    Rechecks = FALSE
    Expires = FALSE
    Deletes = FALSE
    Retries = FALSE
    FaultKinds = {}
    MaxFaults = 0
    MaxTakeovers = 1
SPECIFICATION MCSpec
INVARIANT EventsAreTakenOnce
  
CHECK_DEADLOCK FALSE
