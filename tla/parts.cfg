SPECIFICATION Spec
CONSTANTS
    p1 = p1
    p2 = p2
    p3 = p3
    p4 = p4
    u1 = u1
    u2 = u2
    buf1 = buf1
    buf2 = buf2
    Procs = {p1, p2, p3}
    Bufs = {buf1, buf2}
    Blocks = {1, 2, 3}
    Vals = {v1, v2}
    Blank = v1
    None = None
    LOGSIZE = 1
    MaxHeld = 2
    Callers = {p1, p2, p3, p4}
    Nobody = None
    NUM = 8
    Users = {u1, u2}
    INPUT_BUF_SIZE = 2
    UART_TX_BUF_SIZE = 1
    W = 4
    MaxRead = 2
    MaxWrite = 2
    numReceiver = 5
    MAX_NUM_RECEIVERS = 6
    ReceiverIds = {0, 3, 5}
    All = All
    Garbage = {0}
    Top = 13
    More = 4
    Sizes = {2, 3, 5}
    Unset = Unset
SYMMETRY Symmetry
INVARIANTS
    CacheSound
    AnswersRight
    Completes
    DiskSound
    IOGoesOn
    HeapSound
PROPERTIES
    OneCopy
    IsLineEditor
