\* A buffer that starts with room for three bytes and overflow blocks of two.
SPECIFICATION Spec
CONSTANTS
  Prepend = 2
  InitialSize = 5
  ExtraSize = 2
  Lengths = {0, 1, 2, 3, 5}
  MaxBytes = 12
INVARIANT StorageBounded
PROPERTY IsByteQueue
CHECK_DEADLOCK FALSE
