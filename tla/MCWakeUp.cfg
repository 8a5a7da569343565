SPECIFICATION FairSpec
CONSTANTS
    NULL = NULL
    Plan <- Everything
    Timeout = 2
    DefaultSuspend = 2
    Backoff = 2
    ChildOutcomes = {"done", "failed"}
    MaxSignals = 2
    MaxUpdates = 1
    MaxResolves = 1
    MaxReleases = 1
    MaxCrashes = 1
INVARIANTS NoLostWake UpdateNotLeft NoSpin
 
CHECK_DEADLOCK FALSE
