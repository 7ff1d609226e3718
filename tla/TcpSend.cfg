SPECIFICATION LiveSpec
CONSTANTS
    W = 32
    ISS = 30
    IRS = 29
    RTXCAP = 2
    RXCAP = 1
    WINMAX = 1
    UNIT = 2
    NREORDER = 0
    MAXRTX = 1
    DUPS = 2
    SmallWin = 1
    OpenWin = 1
    ArpForgets = FALSE
    MaxIn = 1
    MaxSeg = 1
    MaxOut = 2
    MaxOpens = 1
INVARIANTS
    SentInPlace
    NothingForgotten
PROPERTIES
    CloseReleases
    SendResolves
CHECK_DEADLOCK FALSE
