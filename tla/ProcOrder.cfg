SPECIFICATION Spec
CONSTANTS
    NPROC = 5
    QLEN = 3
    SLICE = 2
    KBDLEN = 1
    HasInit = FALSE
    MaxPid = 5
    MaxLines = 3
    w1 = w1
    w2 = w2
    Windows = {w1, w2}
    Calls = {"exit", "fork", "yield"}
PROPERTIES OldestFirst
CHECK_DEADLOCK FALSE
