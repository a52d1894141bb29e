SPECIFICATION MkfsFairSpec
PROPERTY HintsLoad
CONSTANTS
  Block = {b1}
  BufHead = {h1, h2}
  SbBb = b1
  SbBh = h1
  BlkSz = 8
  MaxBlk = 8
  StartBlk = 0
  SlotSize <- MCSlotSize
  ClientOp = {}
  Revoke = {}
  Size = {}
  Grow = {}
  Ext = {}
  MaxOff = 4
  MaxMeta = 1
  NULL_ADDR = NULL_ADDR
  BlkH = BlkH
  JUNK = JUNK
  NIL = NIL
  OldFile <- MCOldFile
  HintFile <- MCAnyHints
  Alg <- MCAlg
  PclusterMax = 2
  CfgSize = 1
  WordBlks = 4
  MaxRuns = 2
CHECK_DEADLOCK FALSE
