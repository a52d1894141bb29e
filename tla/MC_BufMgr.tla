----------------------------- MODULE MC_BufMgr -----------------------------
(***************************************************************************)
(* Small instances of the buffer manager.                                  *)
(***************************************************************************)
EXTENDS BufMgr, TLC

\* Blocks of 4 cells; an inode takes 2, an xattr entry 1 and a device slot 2:
\* as in the program, each divides the block size.
MCSlotSize == [t \in {"INODE", "XATTR", "DEVT"} |-> IF t = "XATTR" THEN 1 ELSE 2]

\* One unused block, and one unused head, is as good as another: the allocator
\* returns them in one order.  Unlike Symmetry this is sound for liveness too.
NextBlock == CHOOSE b \in Block : blk[b].kind = "none"
NextFree  == CHOOSE h \in BufHead : head[h].st = "free"
AllocatedInOrder ==
  /\ \A b \in Block   : blk[b].kind = "none" /\ blk'[b].kind # "none" => b = NextBlock
  /\ \A h \in BufHead : head[h].st = "free" /\ head'[h].st # "free" => h = NextFree

\* Every action treats blocks alike and heads alike.
Symmetry == Permutations(Block) \cup Permutations(BufHead)
=============================================================================
