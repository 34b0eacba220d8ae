\* One connection, whose requests meet both limits, and a server that is
\* started again after it stopped or failed to start.
SPECIFICATION FairSpec
CONSTANTS
  Workers = {w1, w2}
  Conns = {c1}
  MaxPending = 2
  MaxQueue = 1
  MaxRequests = 3
  MaxStarts = 2
INVARIANTS PendingExact TableInStep AtMostOneAnswer WorkKeepsWorkerAwake StopDrainsQueue
PROPERTIES EnqueuedIsAnswered StopTerminates
CHECK_DEADLOCK FALSE
