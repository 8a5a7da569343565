CONSTANTS
    NULL = NULL
    NoKey = NoKey
    NoRun = NoRun
    NoWorker = NoWorker
SPECIFICATION Spec
 
PROPERTIES  WorkGoesOn
CHECK_DEADLOCK FALSE
