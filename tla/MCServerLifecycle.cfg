SPECIFICATION Spec
CHECK_DEADLOCK FALSE
CONSTANTS
    Request = {r1, r2, r3}
    r1 = r1
    r2 = r2
    r3 = r3
INVARIANTS
    ZeroMeansClean
    JobsAreReleased
PROPERTY
    StopEnds
