SPECIFICATION FairSpec
CONSTANTS
  Threads = {t1}
  SndCap = 1
  HighWater = 2
  MsgLens = {1, 2}
  MaxSends = 2
  MaxIn = 1
  MaxOps = 2
PROPERTY FunctorCloseIsRemoved
CHECK_DEADLOCK FALSE
