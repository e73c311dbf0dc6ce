SPECIFICATION FairSpec
CONSTANTS
    Job = {j1}
    Worker = {w1, w2}
    Handler = {}
    Doc = {d1, d2}
    Content = {c1}
    NoJob = {j1}
    NoWorker = NoWorker
    NoDoc = NoDoc
    NoContent = NoContent
    Mortal = {w1}
    MaxRetries = 1
    MaxFaults = 1
    MaxDeletes = 1
PROPERTIES
    AcceptedJobsEnd
    ShutdownEnds
CHECK_DEADLOCK FALSE
