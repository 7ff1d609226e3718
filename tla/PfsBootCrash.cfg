SPECIFICATION Spec
SYMMETRY NameSymmetry
CONSTANTS
  Names = {n1, n2, n3}
  NoFile = NoFile
  Unknown = Unknown
  NoEntry = NoEntry
  NSlots = 3
  D = 4
  MaxLen = 2
  UnusedApi = FALSE
  CrashInBoot = TRUE
  FsckFirst = TRUE
  MaxOps = 5
  MaxCrashes = 1
  MaxErrors = 0
INVARIANTS Durable
