SPECIFICATION Spec
CONSTANTS
  NumClusters = 2
  BPC = 2
  ImageBlocks = 3
  Zero = 0
  Value <- MCValue
  Image <- MCImage
  Base <- DeltaOf0
  MaxSnaps = 1
INVARIANTS
  TypeOK
  ReadCurrent
PROPERTIES
  ImplementsDisk
