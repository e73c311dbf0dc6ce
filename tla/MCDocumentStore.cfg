SPECIFICATION FairSpec
CHECK_DEADLOCK FALSE
CONSTANTS
    Client = {c1, c2, c3}
    NoClient = NoClient
    Doc = {d1, d2}
    MaxChunks = 2
    MaxWrites = 4
INVARIANTS
    TypeOK
    ReadersSeeWholeDocuments
    OnlyDeletionIsFatal
PROPERTY
    EveryTransactionEnds
