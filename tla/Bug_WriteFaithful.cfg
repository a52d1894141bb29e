SPECIFICATION DevSpec
CONSTANTS
  BlkSz = 2
  Datum <- MCDatum
  ZERO = "zero"
  JUNKCELL = "junk"
  MaxBlk = 4
  FirstFile <- MCFirstFile
  Buffer <- MCBuffer
  ReadCap = 6
  Offset = {1, 4}
  Length = {0, 2, 5}
  Blocks = {1, 2}
CHECK_DEADLOCK FALSE
INVARIANT WriteFaithful
