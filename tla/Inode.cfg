SPECIFICATION InodeSpec
CONSTANTS
  Block = {b1, b2}
  BufHead = {h1, h2, h3, h4}
  BlkSz = 4
  StartBlk = 0
  SlotSize <- MCSlotSize
  ClientOp = {}
  Revoke = {}
  Size = {0}
  Grow = {}
  Ext = {0}
  MaxOff = 8
  MaxMeta = 1
  NULL_ADDR = NULL_ADDR
  NIL = NIL
  BlkH = BlkH
  JUNK = JUNK
  a1 = a1
  Anchor = {a1}
  Ino = {i1, i2}
  File <- MCFile
  Made <- MCMade
  Setting <- MCSetting
  NBlocks = {0, 1}
  UserSize <- MCUserSize
  Narrow = 3
  Word = 64
CHECK_DEADLOCK FALSE
ACTION_CONSTRAINTS AllocatedInOrder OneSpoiled
INVARIANTS
  InodeTypeOK
  
  NumbersDiffer
  DataInsideImage
  HashRings
