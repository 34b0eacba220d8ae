\* Two request ids: the third call reuses the id of the first.
SPECIFICATION Spec
CONSTANTS
  Callers = {k1, k2}
  IdModulus = 3
  MaxCalls = 4
  MaxEpochs = 3
INVARIANT IdleConnectionClean
PROPERTY IsSerialCalls
SYMMETRY Symmetry
CHECK_DEADLOCK FALSE
