------------------------------ MODULE MC_Inode ------------------------------
(***************************************************************************)
(* A small instance of the inodes.                                         *)
(***************************************************************************)
EXTENDS Inode, TLC

\* Blocks of 4 cells, of which an inode takes 2.
MCSlotSize == [t \in {"INODE", "XATTR", "DEVT"} |-> IF t = "XATTR" THEN 1 ELSE 2]

\* Whole blocks of data, single cells of metadata.
MCUserSize == [t \in {"DATA", "META"} |-> IF t = "DATA" THEN {4} ELSE {1}]

CONSTANT a1
MCFile == [type : {"lnk"}, size : {5}, anchor : {a1}, wide : {FALSE}]
  \cup [type : {"reg", "other"}, size : {1}, anchor : {a1}, wide : {TRUE}]

\* The metadata begins where the third block is; a table nobody initialised.
MCSetting == {[force |-> "compact", meta |-> 2, table |-> TRUE],
              [force |-> "none", meta |-> 0, table |-> FALSE]}

\* As NewInode makes them, and counted by the caller.
MCMade == {[count |-> 0, linked |-> FALSE], [count |-> 1, linked |-> FALSE],
           [count |-> 1, linked |-> TRUE]}

\* At most one inode is made otherwise than ErofsNewInode means to, and made last: a
\* caller may make the others long before it uses them.
OneSpoiled ==
  \A i \in Ino : inode'[i].st # "none" /\ ~inode'[i].linked =>
    \A j \in Ino \ {i} : inode'[j].linked

\* Unused objects are alike: they are taken in one order.
NextBlock == CHOOSE b \in Block : blk[b].kind = "none"
NextFree == CHOOSE h \in BufHead : head[h].st = "free"
NextIno   == CHOOSE i \in Ino : inode[i].st = "none"
AllocatedInOrder ==
  /\ \A b \in Block   : blk[b].kind = "none" /\ blk'[b].kind # "none" => b = NextBlock
  /\ \A h \in BufHead : head[h].st = "free" /\ head'[h].st # "free" => h = NextFree
  /\ \A i \in Ino     : inode[i].st = "none" /\ inode'[i].st # "none" => i = NextIno
=============================================================================
