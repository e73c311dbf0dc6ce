SPECIFICATION Spec
CONSTANTS
    Job = {j1, j2}
    Worker = {w1, w2}
    NoJob = NoJob
    NoWorker = NoWorker
    LeaseDuration = 1
    RetryDelays <- Delays
    MaxTime = 4
    MaxAttempts = 2
SYMMETRY Perms
INVARIANTS
    TypeOK
    ClaimIsStable
    FencedByName
    OneRunPerAttempt
    RetryBudget
PROPERTIES
    LeaseProtects
    NoRerunNoEarlyRun
    ImplementsContract
