SPECIFICATION Spec
CONSTANTS
    c1 = c1
    c2 = c2
    NPROC = 3
    CPUs <- TwoCPUs
    MaxPid = 5
    KillPids <- AnyPid
SYMMETRY Symmetry
INVARIANTS
    TableSound
    NoLostChildWakeup
    BornAlive
PROPERTIES
    Lifecycle
