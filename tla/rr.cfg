SPECIFICATION FairSpec
CONSTANTS
    NPROC = 3
    MaxLevel = 2
    Params <- NoStart
    Workload <- RoundRobin
    Pages = 0
    BoundedMemory = FALSE
PROPERTIES
    DeviceAnswers
    SleeperRunsAfterWakeup
    ZombieStays
