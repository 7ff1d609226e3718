SPECIFICATION Spec
CONSTANTS
    NPROC = 4
    QLEN = 2
    SLICE = 2
    KBDLEN = 2
    HasInit = FALSE
    MaxPid = 4
    MaxLines = 5
    w1 = w1
    w2 = w2
    Windows = {w1, w2}
    Calls = {"exit", "read"}
INVARIANTS NoSleepingReader
CHECK_DEADLOCK FALSE
