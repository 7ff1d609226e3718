SPECIFICATION Spec
CONSTANTS
    W = 32
    ISS = 30
    IRS = 29
    RTXCAP = 2
    RXCAP = 2
    WINMAX = 1
    UNIT = 2
    NREORDER = 1
    MAXRTX = 1
    DUPS = 1
    SmallWin = 1
    OpenWin = 1
    ArpForgets = TRUE
    MaxIn = 3
    MaxSeg = 2
    MaxOut = 1
    MaxOpens = 1
CHECK_DEADLOCK FALSE
INVARIANTS
  StreamIntact
  FinInPlace
  WindowKept
  WindowReopens
