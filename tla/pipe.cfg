SPECIFICATION Spec
CONSTANTS
    p1 = p1
    p2 = p2
    x = x
    y = y
    Procs <- TwoProcs
    First = p1
    Bytes <- TwoBytes
    PIPESIZE = 2
    W = 4
    MaxN = 3
    Kills = TRUE
SYMMETRY Symmetry
INVARIANTS
    PipeSound
    NoIdleSleeper
PROPERTIES
    IsFIFO
CHECK_DEADLOCK FALSE
