\* A message that fits the send buffer and one that does not; one foreign thread
\* that makes up to two calls beside the callbacks on the loop thread.
SPECIFICATION FairSpec
CONSTANTS
  Threads = {t1}
  SndCap = 1
  HighWater = 2
  MsgLens = {1, 2}
  MaxSends = 2
  MaxIn = 1
  MaxOps = 2
INVARIANTS StreamIntegrity FinAfterData NotifiedOnce
PROPERTIES NoMessageAfterNotification OutputDrains ShutdownCompletes IoCloseIsRemoved
CHECK_DEADLOCK FALSE
