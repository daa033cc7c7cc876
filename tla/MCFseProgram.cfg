SPECIFICATION MCSpec
CONSTANTS
    KB = 2
    DiskFails = TRUE
    Damages <- Lost
INVARIANTS
    DecodedIsOriginal
    RefusedTouchesNothing
PROPERTIES
    StreamedHashIsWhole
    DecodersAgree
