SPECIFICATION Spec
SYMMETRY ApSymmetry
CHECK_DEADLOCK FALSE
CONSTANTS
  Boot = Boot
  AP = {a1, a2}
  NoCpu = NoCpu
  NoHandle = NoHandle
  NSLOT = 1
  NASYNC = 1
  GenMod = 3
  SeqMod = 3
  W = 16
  NMax = 3
  Loops <- LongOrDefault
  Faulty = {a1, a2}
  ApItemsPost = TRUE
  MaxCalls = 3
  MaxPosts = 2
INVARIANTS
  LoopIsLive
  NoTornJob
  PostRunsOnce
  DoneIsSound
  NoLostWakeup
  EngineInv
