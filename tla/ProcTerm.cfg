SPECIFICATION FairSpec
CONSTANTS
    NPROC = 4
    QLEN = 2
    SLICE = 2
    KBDLEN = 1
    HasInit = FALSE
    MaxPid = 4
    MaxLines = 3
    w1 = w1
    w2 = w2
    Windows = {w1, w2}
    Calls = {"exit", "read", "kill"}
PROPERTIES TermKills
CHECK_DEADLOCK FALSE
