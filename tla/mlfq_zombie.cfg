SPECIFICATION Spec
CONSTANTS
    NPROC = 3
    MaxLevel = 2
    Params <- TwoLevels
    Workload <- Exiting
    Pages = 0
    BoundedMemory = FALSE
PROPERTIES
    ZombieStays
CHECK_DEADLOCK FALSE
