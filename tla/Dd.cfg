SPECIFICATION MCSpec
CONSTANTS
  Size = 11
  OutSize = 12
  Unit = 4
  Depth = 2
  Skip = 1
  Seek = 1
  OutBlock = 2
  Modes <- MCModes
  Faults = {"start", "submit", "file", "bdev", "seek"}
  Stale = {3, 8}
INVARIANTS TypeOK BufferFits Counted ExitQuiet Disjoint WithinCount CopyExact NeverStuck
PROPERTIES ExitOnce CopyEnds
CHECK_DEADLOCK FALSE
