SPECIFICATION Spec
CONSTANTS
    p1 = p1
    p2 = p2
    Procs = {p1, p2}
    Bytes = {0, 1}
    NFD = 2
    NOFD = 2
    NPIPE = 1
    BUF = 1
    MaxLen = 1
    MaxBirths = 2
SYMMETRY Symmetry
INVARIANTS DescriptionsReturn
CHECK_DEADLOCK FALSE
