SPECIFICATION Spec
CONSTANTS
    Lengths <- ShortTexts
    Sizes <- SmallWindows
    Overlaps <- AnyOverlap
    ScanDivisor = 4
INVARIANTS
    NothingLost
    ChunksFit
    ChunksAdvance
PROPERTIES
    Progress
CHECK_DEADLOCK FALSE
