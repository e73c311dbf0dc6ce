SPECIFICATION Spec
CONSTANTS
    Job = {j1, j2}
    Worker = {w1, w2}
    Handler = {h1}
    Doc = {d1}
    Content = {c1}
    NoJob = NoJob
    NoWorker = NoWorker
    NoDoc = NoDoc
    NoContent = NoContent
    Mortal = {}
    MaxRetries = 0
    MaxFaults = 0
    MaxDeletes = 0
INVARIANT SourceFindsOriginal
CHECK_DEADLOCK FALSE
