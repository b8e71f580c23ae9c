SPECIFICATION Spec
CONSTANTS
  NumClusters = 3
  BPC = 2
  Header = 1
  Cap = 6
  Value <- MCValue
  Source <- MCSource
  Stale = 0
  MaxCopies = 2
INVARIANTS
  TypeOK
  Restorable
  CutOffIsEmpty
  ReaderWhole
CHECK_DEADLOCK FALSE
