SPECIFICATION FairSpec
CHECK_DEADLOCK FALSE
CONSTANTS
  N = 4
  MaxCpus = 4
  Late = {}
INVARIANTS
  ApsApart
PROPERTIES
  BootEnds
