SPECIFICATION Spec
CONSTANTS
  Block = {b1, b2}
  BufHead = {h1, h2, h3}
  BlkSz = 4
  StartBlk = 0
  SlotSize <- MCSlotSize
  ClientOp = {}
  Revoke = {TRUE, FALSE}
  Size = {0, 3}
  Grow = {}
  Ext = {0}
  MaxOff = 6
  MaxMeta = 2
  NULL_ADDR = NULL_ADDR
  NIL = NIL
  BlkH = BlkH
  JUNK = JUNK
CHECK_DEADLOCK FALSE
INVARIANT ExtentsDisjoint
