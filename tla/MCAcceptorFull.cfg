\* Nobody else opens or closes descriptors, and the table may stay full.
SPECIFICATION AcceptorFairSpec
CONSTANTS
  FdLimit = 4
  MaxOthers = 0
  MaxArrivals = 4
PROPERTY AcceptLoopReturns
CHECK_DEADLOCK FALSE
