SPECIFICATION Spec
CONSTANTS
  Block = {b1, b2, b3}
  BufHead = {h1, h2}
  BlkSz = 4
  StartBlk = 0
  SlotSize <- MCSlotSize
  ClientOp = {}
  Revoke = {FALSE}
  Size = {0, 3, 4}
  Grow = {0, 3, 4}
  Ext = {0, 2}
  MaxOff = 6
  MaxMeta = 1
  NULL_ADDR = NULL_ADDR
  NIL = NIL
  BlkH = BlkH
  JUNK = JUNK
SYMMETRY Symmetry
CHECK_DEADLOCK FALSE
INVARIANTS
  TypeOK
  ExtentsDisjoint
  AddressesGrow
  BucketMatches
PROPERTY
  FillsOnlyPadding
  ImplementsLayout
