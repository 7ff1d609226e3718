SPECIFICATION Spec
SYMMETRY NameSymmetry
CONSTANTS
  Names = {n1, n2, n3}
  NoFile = NoFile
  Unknown = Unknown
  NoEntry = NoEntry
  NSlots = 2
  D = 3
  MaxLen = 2
  UnusedApi = TRUE
  CrashInBoot = TRUE
  FsckFirst = FALSE
  MaxOps = 3
  MaxCrashes = 1
  MaxErrors = 1
INVARIANTS FsckCleans
