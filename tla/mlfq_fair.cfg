SPECIFICATION FairSpec
CONSTANTS
    NPROC = 3
    MaxLevel = 3
    Params <- ThreeLevels
    Workload <- Computing
    Pages = 0
    BoundedMemory = FALSE
PROPERTIES
    NoStarvation
    BottomBoosted
CHECK_DEADLOCK FALSE
