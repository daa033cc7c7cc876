SPECIFICATION Spec
CONSTANTS
    kEntriesPerPark = 4
    kCheckpoint1Interval = 5
    kCheckpoint2Interval = 2
    MaxPos = 11
    ParkSize = 5
    P7Size = 4
    C1Size = 2
    C3Size = 3
    L_final_begin = 7
    KeySpan = 5
    Workers = 2
    Inputs <- SomeInputs
INVARIANTS
    WritesAreDisjoint
    ProofsAreFound
    CheckpointsComplete
CHECK_DEADLOCK FALSE
