------------------------------- MODULE Inode -------------------------------
(***************************************************************************)
(* Inodes (pkg/types/inode1.go, inode.go) on top of the buffer manager: an *)
(* inode is filled from the file it describes and put into a hash table,   *)
(* gets blocks for its data, a place among the metadata and the number     *)
(* that stands for it, and is released again.                              *)
(*                                                                         *)
(* Every call on the manager is an action of BufMgr.  An inode operation   *)
(* that makes several of them takes one step for each, and todo says what  *)
(* is left of it.  Other users of the manager run in between operations.   *)
(***************************************************************************)
EXTENDS BufMgr

CONSTANTS
  Ino,            \* inodes the program may create (a pool)
  Anchor,         \* the list heads of inodeHashtable
  File,           \* what stat may say of a file, see below
  Made,           \* how callers make inodes: with a count, lists initialised or not
  NBlocks,        \* the numbers of whole data blocks
  Setting,        \* what is fixed for a run, see below
  UserSize,       \* what the other users ask Battach for
  Narrow,         \* sizes above it are wider than 32 bits
  Word            \* 2^64, in cells

\* A file: its type, size, the anchor its inode number and device hash to,
\* and whether its owner, group or time does not fit the compact form.
FileType == {"reg", "dir", "lnk", "chr", "sock", "other"}

\* What is fixed: GCfg.ForceInodeVersion, MetaBlkAddr, and whether somebody has
\* called ErofsInodeManagerInit (the program itself never does).
Settings == [force : {"none", "compact", "extended"}, meta : Nat, table : BOOLEAN]

ASSUME InodeAssumption ==
  /\ Ino \cap Anchor = {} /\ NIL \notin Ino \cup Anchor
  /\ File \subseteq [type : FileType, size : Nat, anchor : Anchor, wide : BOOLEAN]
  /\ Made \subseteq [count : Nat, linked : BOOLEAN]
  /\ Setting \subseteq Settings /\ NBlocks \subseteq Nat
  /\ UserSize \in [{"DATA", "META"} -> SUBSET Nat]
  \* MetaBlkAddr is a uint32 (superblkinfo.go:30): times the block size no uint64 is exceeded.
  /\ \A s \in Setting : Pos(s.meta) <= Word
  /\ Word \in Nat \ {0} /\ Word % SlotSize["INODE"] = 0

VARIABLES
  inode,    \* inode[i]: the fields of inode i
  ihash,    \* the pointers of inodeHashtable's rings and of the inodes' IHash
  opt,      \* what is fixed for this run
  todo      \* what is left of the operation in progress

ivars == <<inode, ihash, opt, todo>>
allvars == <<vars, ivars>>

Nothing == [at |-> "nothing"]
NoFile  == [type |-> "none"]
NoInode == [st |-> "none", count |-> 0, linked |-> FALSE, file |-> NoFile, size |-> 0,
            nid |-> 0, bh |-> NIL, bhData |-> NIL, addr |-> NULL_ADDR,
            n |-> 0]

\* The anchors point at themselves after ErofsInodeManagerInit, to nothing before.
InodeInit ==
  /\ Init
  /\ opt \in Setting
  /\ inode = [i \in Ino |-> NoInode]
  /\ ihash = [x \in Ino \cup Anchor |-> IF opt.table /\ x \in Anchor
                                        THEN [prev |-> x, next |-> x] ELSE Unlinked]
  /\ todo = Nothing

\* The process ends: so does everything in memory.
InodesDie ==
  /\ inode' = [i \in Ino |-> NoInode]
  /\ ihash' = [x \in Ino \cup Anchor |-> Unlinked]
  /\ todo' = Nothing /\ UNCHANGED opt

Idling == Ready /\ todo = Nothing

----------------------------------------------------------------------------
(***************************************************************************)
(* Creation, filling and the hash table.                                   *)
(***************************************************************************)

\* ErofsNewInode writes through a nil pointer.
ErofsNewInode == Idling /\ Die("panic") /\ InodesDie

\* NewInode leaves the count at zero and the lists without pointers.  Its fields
\* are exported: a caller may then set them to what ErofsNewInode means to.
NewInode(i, made) ==
  /\ Idling /\ inode[i].st = "none"
  /\ inode' = [inode EXCEPT ![i] = [NoInode EXCEPT !.st = "new", !.count = made.count,
                                                   !.linked = made.linked]]
  /\ ihash' = IF made.linked THEN InitListHead(ihash, i) ELSE ihash
  /\ Quiet
  /\ UNCHANGED <<blks, blk, head, heap, tail, metaCnt, last, call, status, opt, todo>>

\* The size after the switch on the file's type.  A Go case does not fall
\* through, so the empty one of S_IFREG leaves the size alone.
FilledSize(i, f) ==
  CASE f.type = "dir" -> 0
    [] f.type = "lnk" -> f.size
    [] OTHER          -> inode[i].size

\* erofsIsPackedInode, PackedNid being 0 (nothing in the program ever changes
\* it): an inode without a number counts as the packed one.
IsPacked(i) == inode[i].nid = 0

\* ErofsShouldUseInodeExtended
Extended(i, f) ==
  \/ opt.force = "extended"
  \/ FilledSize(i, f) > Narrow
  \/ ~IsPacked(i) /\ f.wide

\* ErofsInsertIhash goes through the anchor's pointers, which are nil as long as
\* nobody has called ErofsInodeManagerInit.
BUG_InsertIhash(i, a) == [ihash EXCEPT ![i] = [prev |-> a, next |-> ihash[a].next],
                                       ![a].next = i]
InsertIhash(i, a) == ListAdd(ihash, i, a)
InsertPanics(a)   == ihash[a].next = NIL

\* ErofsFillInode: EINVAL for a type it does not know and for a form it may not
\* use; else the inode is in the hash table.
FillInode(i, f) ==
  /\ Idling /\ inode[i].st = "new"
  /\ LET refused == f.type = "other" \/ (Extended(i, f) /\ opt.force = "compact")
     IN  \/ /\ ~refused /\ InsertPanics(f.anchor)
            /\ Die("panic") /\ InodesDie
         \/ /\ refused \/ ~InsertPanics(f.anchor)
            /\ inode' = [inode EXCEPT
                 ![i].size = IF f.type = "other" THEN @ ELSE FilledSize(i, f),
                 ![i].st   = IF refused THEN "new" ELSE "filled",
                 ![i].file = IF refused THEN @ ELSE f]
            /\ ihash' = IF refused THEN ihash ELSE InsertIhash(i, f.anchor)
            /\ Quiet
            /\ UNCHANGED <<blks, blk, head, heap, tail, metaCnt, last, call, status, opt, todo>>

\* ErofsIput: the count comes back as an unsigned number, so a negative one is
\* as good as a large one.  At zero the inode leaves its hash ring, or the ring that
\* its IHash alone makes when it was never filled.
PutReleases(i) == inode[i].count = 1
ErofsIput(i) ==
  /\ Idling /\ inode[i].st # "none" /\ inode[i].count > -1
  /\ \/ /\ PutReleases(i)
        /\ ~inode[i].linked \/ ListDelPanics(ihash, i)
        /\ Die("panic") /\ InodesDie
     \/ /\ ~PutReleases(i) \/ (inode[i].linked /\ ~ListDelPanics(ihash, i))
        /\ inode' = [inode EXCEPT ![i].count = @ - 1,
                                  ![i].st = IF PutReleases(i) THEN "released" ELSE @]
        /\ ihash' = IF PutReleases(i) THEN ListDel(ihash, i) ELSE ihash
        /\ Quiet
        /\ UNCHANGED <<blks, blk, head, heap, tail, metaCnt, last, call, status, opt, todo>>
----------------------------------------------------------------------------
(***************************************************************************)
(* ErofsAllocateInodeBhData: Balloc, the head's flush operation, MapBh.    *)
(***************************************************************************)

\* No block, no address.
AllocNothing(i) ==
  /\ Idling /\ inode[i].st = "filled"
  /\ inode' = [inode EXCEPT ![i].st = "stored", ![i].addr = NULL_ADDR]
  /\ Quiet
  /\ UNCHANGED <<blks, blk, head, heap, tail, metaCnt, last, call, status, ihash, opt, todo>>

\* The type is always DATA: a 16-bit mode never has Go's directory bit.  Balloc
\* ends with a head, or with an error.
AllocBalloc(i, n, b, h) ==
  /\ Idling /\ inode[i].st = "filled"
  /\ BallocNew(b, h, "DATA", n * BlkSz, 0, 0)
  /\ IF status' # "run"
     THEN InodesDie
     ELSE /\ todo' = IF head'[h].st = "live" THEN [at |-> "op", i |-> i, h |-> h, n |-> n]
                     ELSE Nothing
          /\ UNCHANGED <<inode, ihash, opt>>

\* bh.Op becomes &SkipWriteBhops, which is not the SkipWriteOps that ErofsBflush
\* passes over: to a flush the head is busy from now on (EBUSY), and it ends there.
AllocBusy ==
  /\ todo.at = "op"
  /\ SetOp(todo.h, "busy")
  /\ inode' = [inode EXCEPT ![todo.i].bhData = todo.h]
  /\ todo' = [todo EXCEPT !.at = "map"]
  /\ UNCHANGED <<ihash, opt>>

AllocMap ==
  /\ todo.at = "map"
  /\ MapBh(head[todo.h].blk)
  /\ todo' = [todo EXCEPT !.at = "take"]
  /\ UNCHANGED <<inode, ihash, opt>>

AllocTake ==
  /\ todo.at = "take" /\ Ready
  /\ inode' = [inode EXCEPT ![todo.i].st = "stored", ![todo.i].n = todo.n,
                            ![todo.i].addr = blk[head[todo.h].blk].addr]
  /\ todo' = Nothing
  /\ Quiet
  /\ UNCHANGED <<blks, blk, head, heap, tail, metaCnt, last, call, status, ihash, opt>>
----------------------------------------------------------------------------
(***************************************************************************)
(* ErofsLookupNid, on the head that the inode got among the metadata.      *)
(***************************************************************************)

\* What the callers need before it and the repository lacks: the inode gets a
\* head behind the one bh (ErofsPrepareInodeBuffer is called, not written).
PrepareInodeBuffer(i, bh, new) ==
  /\ Idling /\ inode[i].st = "stored" /\ inode[i].bh = NIL
  /\ Battach(bh, new, "INODE", SlotSize["INODE"])
  /\ inode' = [inode EXCEPT ![i].bh = IF head'[new].st = "live" THEN new ELSE NIL]
  /\ UNCHANGED <<ihash, opt, todo>>

LookupMap(i) ==
  /\ Idling /\ inode[i].st = "stored" /\ inode[i].bh # NIL /\ inode[i].nid = 0
  /\ MapBh(head[inode[i].bh].blk)
  /\ todo' = [at |-> "number", i |-> i]
  /\ UNCHANGED <<inode, ihash, opt>>

\* The number: 64-bit arithmetic, in units of inode slots.
BUG_NidAt(off) == ((off - opt.meta) % Word) \div SlotSize["INODE"]
BUG_NidSigned(off) == (off - Pos(opt.meta)) \div SlotSize["INODE"]
NidAt(off) == ((off - Pos(opt.meta)) % Word) \div SlotSize["INODE"]

\* The assertion lets no inode through that lies where the metadata is.
LookupNumber ==
  /\ todo.at = "number" /\ Ready
  /\ LET off == BhTell(inode[todo.i].bh) IN
     IF off < Pos(opt.meta)
     THEN /\ inode' = [inode EXCEPT ![todo.i].nid = NidAt(off)]
          /\ todo' = Nothing
          /\ Quiet
          /\ UNCHANGED <<blks, blk, head, heap, tail, metaCnt, last, call, status, ihash, opt>>
     ELSE Die("panic") /\ InodesDie                   \* panic("Bug: off < metaOffset")

\* erofsIloc, the inverse.
Iloc(i) == (Pos(opt.meta) + inode[i].nid * SlotSize["INODE"]) % Word
----------------------------------------------------------------------------
(***************************************************************************)
(* The whole.                                                              *)
(***************************************************************************)

\* What the other users of the manager do: they reserve an empty block, attach to
\* it and flush, which maps and frees.
User ==
  \/ \E b \in Block, h \in BufHead, t \in {"DATA", "META"} :
       BallocNew(b, h, t, 0, 0, 0)
  \/ \E bh, new \in BufHead, t \in {"DATA", "META"} :
       \E size \in UserSize[t] : Battach(bh, new, t, size)
  \/ ErofsBflush(NIL)

UserStep ==
  /\ todo = Nothing /\ User
  /\ IF status' = "run" THEN UNCHANGED ivars ELSE InodesDie

\* The turns of the manager's loops.
Turn ==
  /\ MapStep \/ Flush
  /\ IF status' = "run" THEN UNCHANGED ivars ELSE InodesDie

GoOn == AllocBusy \/ AllocMap \/ AllocTake \/ LookupNumber

Caller ==
  \/ ErofsNewInode
  \/ \E i \in Ino :
       \/ \E made \in Made : NewInode(i, made)
       \/ \E f \in File : FillInode(i, f)
       \/ ErofsIput(i)
       \/ 0 \in NBlocks /\ AllocNothing(i)
       \/ \E n \in NBlocks, b \in Block, h \in BufHead : 
            n > 0 /\ AllocBalloc(i, n, b, h)
       \/ \E bh, new \in BufHead : PrepareInodeBuffer(i, bh, new)
       \/ LookupMap(i)

InodeNext == Caller \/ GoOn \/ Turn \/ UserStep

InodeSpec == InodeInit /\ [][InodeNext]_allvars
----------------------------------------------------------------------------
(***************************************************************************)
(* Properties.                                                             *)
(***************************************************************************)

Todo ==
  {Nothing}
  \cup [at : {"op", "map", "take"}, i : Ino, h : BufHead, n : NBlocks]
  \cup [at : {"number"}, i : Ino]

\* Every field holds a value of its Go type.
InodeTypeOK ==
  /\ inode \in [Ino -> [st : {"none", "new", "filled", "stored", "released"}, count : Int,
                        linked : BOOLEAN, file : File \cup {NoFile}, size : Nat,
                        nid : 0..(Word - 1), bh : BufHead \cup {NIL}, bhData : BufHead \cup {NIL},
                        addr : Address, n : Nat]]
  /\ ihash \in Heaps(Ino \cup Anchor)
  /\ todo \in Todo
  /\ inode # [i \in Ino |-> NoInode] => status = "run"

\* An inode's number says where its head begins, whatever the manager does to the
\* block afterwards: erofsIloc undoes ErofsLookupNid, modulo 2^64.
NumberLocates ==
  \A i \in Ino : inode[i].nid # 0 =>
    /\ Mapped(head[inode[i].bh].blk)
    /\ Iloc(i) = BhTell(inode[i].bh) % Word

\* Two inodes never have the same number.
NumbersDiffer ==
  \A i, j \in Ino : i # j /\ inode[i].nid # 0 => inode[i].nid # inode[j].nid

\* The blocks an inode was given for its data stay inside the room of one buffer
\* block, and before the tail (erofsAllocateInodeBhData believes MapBh).
DataInsideImage ==
  \A i \in Ino : inode[i].n > 0 =>
    LET b == head[inode[i].bhData].blk IN
    /\ RoomOf(b).at = inode[i].addr
    /\ inode[i].n <= RoomOf(b).n
    /\ inode[i].addr + inode[i].n <= tail

\* Every bucket's ring is well linked and holds the filled inodes that hash to it
\* and were not released, no matter in which order they came and went.
Bucketed(a) == {i \in Ino : inode[i].st \in {"filled", "stored"} /\ inode[i].file.anchor = a}
HashRings ==
  \A a \in Anchor : ihash[a].next # NIL => Linked(ihash, {a} \cup Bucketed(a))
=============================================================================
