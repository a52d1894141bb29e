SPECIFICATION FairSpec
CONSTANTS
  Block = {b1, b2}
  BufHead = {h1, h2, h3}
  BlkSz = 4
  StartBlk = 0
  SlotSize <- MCSlotSize
  ClientOp = {"skip", "busy", "drop"}
  Revoke = {FALSE}
  Size = {0, 3}
  Grow = {3}
  Ext = {0}
  MaxOff = 6
  MaxMeta = 1
  NULL_ADDR = NULL_ADDR
  NIL = NIL
  BlkH = BlkH
  JUNK = JUNK
ACTION_CONSTRAINT AllocatedInOrder
CHECK_DEADLOCK FALSE
INVARIANTS
  AttachedCellsPrivate
  RingInv
  HeadsLinked
  NoMapBug
PROPERTIES
  FlushLeaves
  CallsReturn
