SPECIFICATION Spec
SYMMETRY NameSymmetry
CONSTANTS
  Names = {n1, n2, n3}
  NoFile = NoFile
  Unknown = Unknown
  NoEntry = NoEntry
  NSlots = 2
  D = 4
  MaxLen = 2
  UnusedApi = TRUE
  CrashInBoot = FALSE
  FsckFirst = TRUE
  MaxOps = 4
  MaxCrashes = 2
  MaxErrors = 1
INVARIANTS
  Durable
  NoForeignData
  DiskConsistent
