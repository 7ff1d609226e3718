SPECIFICATION FairSpec
CONSTANTS
    a = a
    b = b
    c = c
    d = d
    e = e
    f = f
    Obj = {a, b, c, d, e, f}
    Worker = {w1, w2, w3}
    Graphs <- MCGraphs
    InitRoots = {a, b}
    InitEph <- MCEph
    InitCells <- MCCells
    CHUNK = 1
    SPARE = 1
    MaxFail = 1
INVARIANTS
  NothingMissed
  DoneIsQuiet
  NoLiveFreed
  WeakSound
PROPERTIES
  SweepExact
  CollectionEnds
