SPECIFICATION FdFairSpec
CONSTANTS
  BlkSz = 2
  Source <- MCSource
  ISize = {0, 1, 4, 5, 7, 9}
  Image <- MCImage
  Addr = {1, 4}
  BufSize = 3
  Word = 8
  ZERO = "zero"
  JUNKCELL = "junk"
  NULL_ADDR = NULL_ADDR
CHECK_DEADLOCK FALSE
INVARIANTS
  FdTypeOK
  CopyStaysInside
  CopiesInStep
  DoneMeansStored
PROPERTY
  CopyEnds
