SPECIFICATION Spec
CONSTANTS
    p1 = p1
    p2 = p2
    p3 = p3
    b1 = b1
    b2 = b2
    b3 = b3
    v1 = v1
    v2 = v2
    b4 = b4
    Ops <- ThreeOps
    Blocks <- FourBlocks
    Vals <- TwoVals
    Blank = v1
    MAXOPBLOCKS = 2
    LOGSIZE = 4
    Size = 5
    MaxCrashes = 2
SYMMETRY Symmetry
INVARIANTS
    LogSound
    NeverTooBig
    SleepersHaveAWaker
PROPERTIES
    CrashAtomic
