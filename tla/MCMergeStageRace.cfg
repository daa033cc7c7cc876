SPECIFICATION Spec
CONSTANTS
    M = 2
    Streams <- LongStreams
INVARIANT NeverOutOfBounds
CHECK_DEADLOCK FALSE
