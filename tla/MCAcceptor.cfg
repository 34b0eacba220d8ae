\* A table that fills up: one reserved descriptor, two of other threads, four
\* connections, and room for four.
SPECIFICATION AcceptorFairSpec
CONSTANTS
  FdLimit = 4
  MaxOthers = 2
  MaxArrivals = 4
INVARIANTS DescriptorsAccounted NoStrandedConnection
PROPERTY ReturnsWhenRoom
CHECK_DEADLOCK FALSE
