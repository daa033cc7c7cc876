SPECIFICATION MCSpec
CONSTANTS
    LastTable = 7
    BlockSize = 10
    Capacity = 3
    WordBits = 2
    kIndexBucket = 4
    Workers = 2
    Adders = 2
    ByteBits = 2
    LongBits = 16
    ChaChaWord = 8
    sigma <- Sigma
    tau <- Tau
    k = 5
    kExtraBits = 2
    kVectorLens <- Vectors
    LogBatch = 2
    Hash <- Mixed
    kB = 3
    kC = 5
    PMAX = 5
    Ids <- SomeIds
    M = 4
    BlockSpans = {32}
    Matchers = 2
INVARIANTS
    MatchesAreReal
    NoMatchLost
    EntriesEvaluate
    MarksAreExact
    PointersPreserved
    ProofsSurvive
    RecordsReadBack
    BitsAgree
CHECK_DEADLOCK FALSE
