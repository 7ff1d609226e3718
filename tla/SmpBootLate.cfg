SPECIFICATION Spec
CHECK_DEADLOCK FALSE
CONSTANTS
  N = 2
  MaxCpus = 4
  Late = {1}
INVARIANTS PrivateStacks
