SPECIFICATION SubFairSpec
CONSTANTS
  Threads = {main, user}
  Owner = main
  MaxFunctors = 2
  MaxLoops = 1
PROPERTIES LateStopReturns PostedConnectionEstablished
CHECK_DEADLOCK FALSE
