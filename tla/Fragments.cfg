SPECIFICATION FragFairSpec
CONSTANTS
  f1 = f1
  f2 = f2
  f3 = f3
  File = {f1, f2, f3}
  Bucket = {0, 1}
  HashLen = 1
  InMem = 2
  BufSize = 2
  Setting <- MCSetting
  MaxPacked = 4
  ZERO = ZERO
  NIL = NIL
CHECK_DEADLOCK FALSE
INVARIANTS
  FragTypeOK
  PackedAsPromised
  FragmentsApart
  ItemsTrue
  BucketRing
PROPERTY
  FragCallsEnd
