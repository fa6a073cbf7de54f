SPECIFICATION FairSpec
CONSTANTS
    c1 = c1
    c2 = c2
    NPROC = 3
    CPUs <- TwoCPUs
    MaxPid = 3
    KillPids <- NoKills
PROPERTIES
    ExitCompletes
    OrphansReaped
