CONSTANTS
    Runs = {"r1"}
    Workers = {"w1", "w2"}
    NULL = NULL
    MaxGeneration = 5
    MaxSteps = 3
    MaxBatch = 2
    BatchEnabled = FALSE
SPECIFICATION BatchSpec
PROPERTY BatchNeedsFence
CHECK_DEADLOCK FALSE
