\* Every stream of up to two frames, every way to cut it.
SPECIFICATION Spec
CONSTANTS
  Base = 4
  MaxVarint = 3
  HeaderSize = 2
  MaxMeta = 40
  MaxBody = 2
  MaxFrames = 2
  Frames <- AllFrames
INVARIANTS ChunkingIndependent RefusedAtOnce
CHECK_DEADLOCK FALSE
