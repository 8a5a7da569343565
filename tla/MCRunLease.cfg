CONSTANTS
    Runs = {r1}
    Workers = {w1, w2}
    NULL = NULL
    MaxGeneration = 5
SPECIFICATION MCSpec
INVARIANT FenceMeansOwner
PROPERTIES LostFenceStaysLost ImplementsLifecycle ChainImplementsLifecycle NothingHangs
CHECK_DEADLOCK FALSE
