CONSTANTS
    Requests = {"q1", "q2", "q3", "s1", "s2", "r1"}
    Req <- SmallRequests
    Old <- TwoBefore
    TTL = 3
    Retention = 3
    Span = 1
    MaxTime = 4
    MaxFaults = 1
SPECIFICATION MCSpec
INVARIANTS OncePerKey 
PROPERTIES KeepsPromise EveryRequestAnswered
CHECK_DEADLOCK FALSE
