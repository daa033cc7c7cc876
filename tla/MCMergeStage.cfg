SPECIFICATION Spec
CONSTANTS
    M = 2
    Streams <- SmallStreams
INVARIANTS
    MergedIsExpected
    NothingPoppedTooEarly
    FailsOnlyAtTheEnd
PROPERTIES
    BothStreamsEnd
CHECK_DEADLOCK FALSE
