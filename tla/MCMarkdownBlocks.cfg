SPECIFICATION Spec
CHECK_DEADLOCK FALSE
CONSTANTS
    Line <- MCLine
    MaxLines = 5
    MaxPieces = 2
INVARIANTS
    EveryLineOnce
    BlocksAreWhole
    FiledWhereItStands
    ChunksFollowSections
