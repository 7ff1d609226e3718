SPECIFICATION Spec
CONSTANTS
    p1 = p1
    p2 = p2
    Procs = {p1, p2}
    Bytes = {0, 1}
    NFD = 2
    NOFD = 3
    NPIPE = 1
    BUF = 2
    MaxLen = 2
    MaxBirths = 3
SYMMETRY Symmetry
CHECK_DEADLOCK FALSE
INVARIANTS
  NoDanglingFd
  PipeEndsCounted
  PipeIsFifo
