SPECIFICATION FairSpec
CONSTANTS
  Users = {u1, u2}
  NoUser = NoUser
  DMA_BUFFER_SIZE = 4
  Message <- Hi
  NUL = "NUL"
  MayFail <- AllMayFail
INVARIANTS TypeOK UnloadedClean NodeLeadsToDriver MappedBufferLives TeardownOnce AloneReversed
PROPERTY UserFinishes
CHECK_DEADLOCK FALSE
