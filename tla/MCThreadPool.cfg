SPECIFICATION Spec
CONSTANTS
    N = 3
    NumJobs = 8
    Faulty <- FifthFaulty
INVARIANTS
    OutputInOrder
    OneAtOutput
    CloseIsComplete
    NoLostWakeup
PROPERTIES
    ImplementsWorkQueue
CHECK_DEADLOCK FALSE
