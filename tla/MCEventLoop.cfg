\* Two foreign threads, and a loop() that is left and entered again.
SPECIFICATION FairSpec
CONSTANTS
  Threads = {t1, t2}
  MaxFunctors = 3
  MaxLoops = 2
INVARIANTS FifoHandOver ForeignPostWakes QuitWakes
PROPERTIES QueuedFunctorRuns QuitReturns
CHECK_DEADLOCK FALSE
