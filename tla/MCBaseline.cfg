SPECIFICATION Spec
CONSTANTS
    Mode = {vector, lexical}
    vector = vector
    lexical = lexical
    Settings = {top5, top10}
    top5 = top5
    top10 = top10
    Cases = 1
    MaxScore = 2
    MaxLatency = 2
    Tolerance = 50
SYMMETRY ModeSymmetry
INVARIANTS
    KeepsBestScores
    GateIsExact
PROPERTY
    DamageIsReported
