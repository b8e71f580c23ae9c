SPECIFICATION Spec
CONSTANTS
  NumClusters = 2
  BPC = 2
  ImageBlocks = 3
  Zero = 0
  Value <- MCValue
  Image <- MCImage
  Base <- NoDelta
  MaxSnaps = 1
INVARIANTS
  ImageKept
