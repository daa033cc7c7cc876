SPECIFICATION Spec
CONSTANTS
    Entry <- SomeEntries
    key_size = 5
    log_num_buckets = 2
    Capacity = 1
    Adders = 2
    num_threads = 2
    num_threads_read = 2
    Work <- SomeWork
INVARIANTS
    FinishedIsComplete
    BlocksInPlace
    FilesBounded
PROPERTIES
    ImplementsSorter
CHECK_DEADLOCK FALSE
