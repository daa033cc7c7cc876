SPECIFICATION Spec
CONSTANTS
    a = a
    b = b
    o = o
    w = w
    Client = {a, b, o}
    Owner = o
    Worker = w
    Quota <- Inputs
    Faulty <- OneFaulty
INVARIANTS
    NoLostWakeup
    NoTripleBuffering
    ExecutedInOrder
    CloseIsComplete
PROPERTIES
    WaitFinishesPending
    CallsReturn
    ImplementsWorkQueue
CHECK_DEADLOCK FALSE
