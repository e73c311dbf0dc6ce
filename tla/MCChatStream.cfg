SPECIFICATION Spec
CHECK_DEADLOCK FALSE
CONSTANTS
    MaxDeltas = 3
    Window = 3
INVARIANTS
    DoneIsComplete
    ClientLearns
PROPERTY
    DisconnectStopsModel
