SPECIFICATION Spec
CHECK_DEADLOCK FALSE
CONSTANTS
  Boot = Boot
  AP = {a1, a2}
  NoCpu = NoCpu
  NoHandle = NoHandle
  NSLOT = 1
  NASYNC = 1
  GenMod = 8
  SeqMod = 3
  W = 8
  NMax = 3
  Loops <- HugeGrain
  Faulty = {}
  ApItemsPost = FALSE
  MaxCalls = 1
  MaxPosts = 0
INVARIANTS ItemsRunOnce
