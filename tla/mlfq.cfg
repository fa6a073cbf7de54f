SPECIFICATION Spec
CONSTANTS
    NPROC = 3
    MaxLevel = 2
    Params <- TwiceStarted
    Workload <- Living
    Pages = 0
    BoundedMemory = FALSE
INVARIANTS
    TypeOK
    QueuesRight
    StayBound
    RunningIsCurrent
    QuantumBound
PROPERTIES
    DispatchesUsedSlot
    MovesByTheRules
CHECK_DEADLOCK FALSE
