----------------------------- MODULE BlockMath -----------------------------
(***************************************************************************)
(* The arithmetic of pkg/types/utils.go that the buffer manager is built   *)
(* on.  Sizes are in cells: BlkSz cells make one file-system block, where  *)
(* the program has 512 .. 65536 bytes.  The program's masks (x & (blksiz-  *)
(* 1)) are remainders because its block size is a power of two.            *)
(***************************************************************************)
EXTENDS Integers

CONSTANT BlkSz

ASSUME BlkSzAssumption == BlkSz \in Nat \ {0}

\* (BUG_...: see BufMgr.)
BUG_RoundUpDown(x, y) == (x \div y) * y
RoundUp(x, y) == ((x + (y - 1)) \div y) * y
RoundDown(x, y) == x - (x % y)

\* BlkRoundUp: the number of blocks that x cells occupy.
BUG_NBlkOffByOne(x) == (x - 1) \div BlkSz
NBlk(x) == (x + (BlkSz - 1)) \div BlkSz

\* The cells used in the block that holds cell x-1: BlkSz, not 0, when x ends
\* exactly at a block boundary, and BlkSz when x = 0 (the code's uint64
\* subtraction wraps around).
UsedInLast(x) == ((x - 1) % BlkSz) + 1
=============================================================================
