SPECIFICATION Spec
CONSTANTS
    Job = {j1, j2, j3}
    Worker = {w1, w2}
    Handler = {h1}
    Doc = {d1, d2}
    Content = {c1, c2}
    NoJob = NoJob
    NoWorker = NoWorker
    NoDoc = NoDoc
    NoContent = NoContent
    Mortal = {w1}
    MaxRetries = 0
    MaxFaults = 0
    MaxDeletes = 1
SYMMETRY Perms
INVARIANTS
    TypeOK
    NoDuplicateDocument
    PayloadMatchesDocument
    CancelIsNoFailure
    ShutdownReleases
CHECK_DEADLOCK FALSE
