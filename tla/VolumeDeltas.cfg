SPECIFICATION Spec
CONSTANTS
  NumClusters = 2
  BPC = 1
  ImageBlocks = 2
  Zero = 0
  Value <- MCValue
  Image <- MCImage
  Base <- NoDelta
  MaxSnaps = 2
INVARIANTS
  DeltaChain
