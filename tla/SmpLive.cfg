SPECIFICATION FairSpec
CHECK_DEADLOCK FALSE
CONSTANTS
  Boot = Boot
  AP = {a1, a2}
  NoCpu = NoCpu
  NoHandle = NoHandle
  NSLOT = 1
  NASYNC = 1
  GenMod = 8
  SeqMod = 3
  W = 16
  NMax = 3
  Loops <- LongOrSingle
  Faulty = {}
  ApItemsPost = FALSE
  MaxCalls = 2
  MaxPosts = 1
PROPERTIES
  KeepsContract
  CallReturns
  PostsFinish
