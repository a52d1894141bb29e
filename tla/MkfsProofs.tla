----------------------------- MODULE MkfsProofs -----------------------------
(***************************************************************************)
(* The command: what main asks of the buffer manager and of the device     *)
(* keeps the superblock at the start of the image, and what it leaves on   *)
(* disk never claims a checksum that is not there; for every block size,   *)
(* old image and hint file, and wherever the process is killed.            *)
(***************************************************************************)
EXTENDS Mkfs, BufMgrProofs
----------------------------------------------------------------------------
(***************************************************************************)
(* The inductive invariant.  The buffer manager's part: main's calls take  *)
(* its state along one path, and at every point of main only one state of  *)
(* the superblock's block and head is possible.                            *)
(***************************************************************************)

\* The one block of the image, and the one head in it.
OneBlock ==
  /\ status = "run" /\ metaCnt = 0
  /\ blks = <<SbBb>> /\ blk[SbBb].kind = "META"
  /\ head[SbBh].st = "live" /\ head[SbBh].blk = SbBb /\ head[SbBh].off = 0

Unplaced == blk[SbBb].addr = NULL_ADDR /\ last = BlkH /\ tail = 0
Placed   == blk[SbBb].addr = 0 /\ last = SbBb /\ tail = 1

\* As Balloc leaves them, and after BhBalloon, which links the head behind itself.
Fresh == /\ blk[SbBb].off = 0 /\ head[SbBh].len = 0
         /\ heap[SbBb].next = SbBh /\ heap[SbBb].prev = SbBh
         /\ heap[SbBh].next = SbBb /\ heap[SbBh].prev = SbBb
Grown == /\ blk[SbBb].off = SuperEnd /\ head[SbBh].len = SuperEnd /\ head[SbBh].op = "skip"
         /\ heap[SbBb].next = SbBh /\ heap[SbBb].prev = SbBh
         /\ heap[SbBh].next = SbBh /\ heap[SbBh].prev = SbBh

\* The superblock's place is known, and it is held there.
Held == {"tell", "hints", "compress", "cfgs", "flush", "flushing", "map all", "mapping all",
         "write", "writing"}

\* The flush visits the one head and skips the block because of it.
FlushOfOne ==
  /\ call.fn = "flush" /\ call.p = SbBb /\ call.n = NIL /\ call.stop = NIL
  /\ call.at \in {"block", "heads", "end"}
  /\ call.at = "heads" => call.bh = SbBh
  /\ call.at = "end" => call.skip

\* The head is gone, and its block is left behind.
Dropped == status = "run" /\ blks = <<SbBb>> /\ blk[SbBb].addr = 0 /\ blk[SbBb].off = SuperEnd

ManagerAt ==
  /\ pc \notin {"unpinned", "attached"}
  /\ pc = "balloc" => Init
  /\ pc \in {"setop", "balloon"} => OneBlock /\ Unplaced /\ Fresh
  /\ pc = "setop" => head[SbBh].op = "nil"
  /\ pc = "balloon" => head[SbBh].op = "skip"
  /\ pc \in {"map", "mapping"} => OneBlock /\ Unplaced /\ Grown
  /\ pc \in Held => OneBlock /\ Placed /\ Grown
  /\ pc \in {"setop", "balloon", "map"} \cup (Held \ {"flushing", "mapping all"}) => call = Idle
  /\ pc = "mapping" => call = [fn |-> "map", t |-> BlkH, want |-> SbBb]
  /\ pc = "mapping all" => call = [fn |-> "map", t |-> SbBb, want |-> NIL]
  /\ pc = "flushing" => FlushOfOne
  /\ pc \in {"resize", "read", "reading", "rewriting", "done"} => Dropped
  /\ pc \in {"write", "writing", "resize", "read", "reading", "rewriting", "done"} => nblocks = 1

ManagerInv == RingIInv /\ ManagerAt
----------------------------------------------------------------------------
(***************************************************************************)
(* The device's part: what the file and the call in progress hold, as long *)
(* as the kernel has written all it was offered in this run.               *)
(***************************************************************************)

IsSeq(s) == s \in Seq(Range(s))
Whole    == run \notin shorts

\* The superblock of this run is in the file, without a checksum.
Plain  == /\ Len(file) >= SuperEnd
          /\ file[2] = SbHead(<<>>) /\ file[3] = SbBody(FALSE, feat, run)
\* s holds this run's superblock with its checksum.
Signed(s) == s[2].tag = "magic" /\ s[3] = SbBody(TRUE, feat, run) /\ Verified(s)

\* The locals of a transfer of want cells at the start of the file.
Locals(fn, len, from, old, buf, pos, want, done, intr) ==
  [fn |-> fn, off |-> 0, len |-> len, from |-> from, old |-> old, buf |-> buf,
   pos |-> pos, want |-> want, done |-> done, rest |-> 0, intr |-> intr]
AtStart(fn, buf, want, done) ==
  Locals(fn, io.len, io.from, io.old, buf, done, want, done, io.intr)

\* A write of the first want cells of a buffer of total ones.
Writing(want, total) ==
  /\ io.fn = "write" /\ io = AtStart("write", io.buf, want, io.done)
  /\ io.done \in 0..want
  /\ IsSeq(io.buf) /\ Len(io.buf) + io.done = total
  /\ io.done \notin {0, want} => run \in shorts

\* What the buffer of a read holds when done cells have come from the file: the rest is
\* still uninitialised.
JunkCell == CellOf("junk", <<>>, FALSE, {}, 0)
HoldsFile(buf, done) ==
  /\ IsSeq(buf) /\ Len(buf) = MaxBlk
  /\ \A k \in 1..MaxBlk :
       IF k <= done THEN k <= Len(file) /\ buf[k] = file[k] ELSE buf[k] = JunkCell

\* The read of the first block, and its end.
ReadingBlock ==
  /\ io.fn = "read" /\ io = AtStart("read", io.buf, BlkSz, io.done) /\ io.done \in 0..MaxBlk
  /\ HoldsFile(io.buf, io.done)
BlockRead ==
  /\ io = Dev!Resting /\ IsSeq(res.out) /\ Len(res.out) = MaxBlk
  /\ Whole /\ res.ret = 0 /\ res.out[2].tag = "magic" => \A k \in 1..BlkSz : res.out[k] = file[k]

AtWriting ==
  \/ /\ Writing(SuperEnd, BlkSz)
     /\ Whole => IF io.done = 0 THEN io.buf = SuperBlock ELSE Plain
  \/ /\ io = Dev!Resting
     /\ Whole /\ res.ret = 0 => Plain
AtRewriting ==
  \/ /\ Writing(BlkSz, MaxBlk)
     /\ Whole => /\ Len(file) = BlkSz
                 /\ IF io.done = 0 THEN Signed(io.buf) ELSE Signed(file)
  \/ /\ io = Dev!Resting
     /\ Whole /\ res.ret = 0 => Len(file) = BlkSz /\ Signed(file)

DeviceAt ==
  /\ IsSeq(file)
  /\ pc \notin {"writing", "reading", "rewriting"} => io = Dev!Resting
  /\ pc # "dead" => alive
  /\ pc = "writing" => AtWriting
  /\ pc = "reading" => ReadingBlock \/ BlockRead
  /\ pc = "rewriting" => AtRewriting
  /\ pc \in {"resize", "read", "reading"} /\ Whole => Plain
  /\ pc \in {"read", "reading"} /\ Whole => Len(file) = BlkSz
  /\ pc = "done" /\ Whole => Len(file) = BlkSz /\ Signed(file)

DeviceInv == DeviceAt /\ FlagMeansChecksum

MkfsInv == MkfsTypeOK /\ ManagerInv /\ DeviceInv
----------------------------------------------------------------------------
(***************************************************************************)
(* The buffer manager's part: one lemma per call.                          *)
(***************************************************************************)

\* The superblock takes one block and ends inside it.
LEMMA SuperBlocks ==
  /\ BlkSz \in Nat /\ BlkSz >= 6 /\ SuperEnd = 3 /\ SuperOffset = 1
  /\ NBlk(SuperEnd) = 1 /\ StartBlk = 0
  /\ SbBb \in Block /\ SbBh \in BufHead /\ SbBb # SbBh
  /\ SbBb # BlkH /\ SbBb # NIL /\ SbBh # NIL /\ BlkH # JUNK /\ SbBb # JUNK /\ SbBh # SbBb
<1>1. BlkSz \in Nat /\ BlkSz >= 6
  BY MkfsAssumption, BlkSzAssumption DEF SuperEnd
<1>2. NBlk(3) = 1
  <2>1. 3 + (BlkSz - 1) \in Int /\ 3 + (BlkSz - 1) = BlkSz * 1 + 2 /\ 2 \in 0..(BlkSz - 1)
    BY <1>1
  <2>. DEFINE z == 3 + (BlkSz - 1)
  <2>2. z \in Int /\ z = BlkSz * 1 + 2 /\ BlkSz \in Nat \ {0} /\ 2 \in 0..(BlkSz - 1)
    BY <1>1, <2>1
  <2>. HIDE DEF z
  <2>3. z \div BlkSz = 1
    BY <2>2, DivUnique
  <2>. QED
    BY <2>3 DEF NBlk, z
<1>. QED
  BY <1>1, <1>2, MkfsAssumption, PoolAssumption DEF SuperEnd, SuperOffset

\* Where main starts, the manager is empty.
LEMMA InitManager == MkfsInit => ManagerInv
<1>. SUFFICES ASSUME MkfsInit PROVE ManagerInv
  OBVIOUS
<1>1. Init /\ pc = "balloc"
  BY DEF MkfsInit
<1>. QED
  BY <1>1, InitRing DEF ManagerInv, ManagerAt, Held

LEMMA RerunKeepsManager ==
  ASSUME Rerun
  PROVE  ManagerInv'
<1>1. Die("run") /\ pc' = "balloc"
  BY DEF Rerun
<1>2. RingIInv'
  BY <1>1, DieKeepsRing
<1>3. Init'
  BY <1>1 DEF Die, Quiet, Init, NoBlocks, NoBlock, NoHeads, NoHead, NoLinks, Unlinked, Idle, NoFill
<1>. QED
  BY <1>1, <1>2, <1>3 DEF ManagerInv, ManagerAt, Held

\* Balloc: a new block, and the head in it.
LEMMA ReserveBallocKeeps ==
  ASSUME ManagerInv, ReserveBalloc
  PROVE  ManagerInv'
<1>. DEFINE ring    == Inserted(SbBb, "META")
            blk1    == [blk EXCEPT ![SbBb] = NewBlock(KindOf("META"))]
            fits(x) == blk1[x].kind = KindOf("META") /\ blk1[x].off >= 0 + (0 + 0) * AlignOf("META")
            bb      == IF \E x \in Range(ring) : fits(x)
                       THEN ring[CHOOSE i \in 1..Len(ring) :
                                   fits(ring[i]) /\ \A j \in 1..(i - 1) : ~fits(ring[j])]
                       ELSE SbBb
            heap1   == InitListHead(heap, SbBb)
<1>0. pc = "balloc" /\ pc' = "setop" /\ RingIInv /\ Init
  BY DEF ReserveBalloc, Calling, ManagerInv, ManagerAt
<1>1. BallocNew(SbBb, SbBh, "META", 0, 0, 0) /\ KindOf("META") = "META"
  BY DEF ReserveBalloc, KindOf
<1>2. RingIInv'
  BY <1>0, <1>1, SuperBlocks, BallocNewKeepsRing DEF BufType
<1>3. /\ blks' = ring /\ blk' = blk1
      /\ IF 0 > blk1[bb].off THEN heap' = heap1 /\ UNCHANGED head
         ELSE /\ heap' = ListAddTail(heap1, SbBh, bb)
              /\ head' = [head EXCEPT ![SbBh] =
                            [st |-> "live", blk |-> bb, off |-> 0,
                             op |-> "nil", by |-> "balloc", len |-> 0]]
      /\ UNCHANGED <<tail, metaCnt, last, call, status>>
  <2>1. ~(KindOf("META") = "DATA" /\ last = JUNK)
    BY <1>1
  <2>. QED
    BY <1>1, <2>1, Zenon DEF BallocNew
<1>4. ring = <<SbBb>>
  BY <1>0, <1>1 DEF Init, Inserted
<1>5. bb = SbBb
  <2>1. CASE \E x \in Range(ring) : fits(x)
    <3>1. Range(ring) = {SbBb} /\ Len(ring) = 1 /\ ring[1] = SbBb
      BY <1>4 DEF Range
    <3>. HIDE DEF ring, fits
    <3>2. \A i \in 1..Len(ring) : ring[i] = SbBb
      BY <3>1
    <3>3. \E i \in 1..Len(ring) : fits(ring[i]) /\ \A j \in 1..(i - 1) : ~fits(ring[j])
      BY <2>1, <3>1
    <3>. QED
      BY <2>1, <3>2, <3>3
  <2>. QED
    BY <2>1
<1>6. blk1[SbBb] = NewBlock("META")
  BY <1>0, <1>1, SuperBlocks DEF RingIInv, TypeOK
<1>7. /\ heap' = ListAddTail(heap1, SbBh, SbBb)
      /\ head' = [head EXCEPT ![SbBh] =
                    [st |-> "live", blk |-> SbBb, off |-> 0,
                     op |-> "nil", by |-> "balloc", len |-> 0]]
      /\ blk'[SbBb] = NewBlock("META")
  <2>. HIDE DEF bb, blk1, heap1
  <2>. QED
    BY <1>3, <1>5, <1>6 DEF NewBlock
<1>8. /\ heap'[SbBb].next = SbBh /\ heap'[SbBb].prev = SbBh
      /\ heap'[SbBh].next = SbBb /\ heap'[SbBh].prev = SbBb
  <2>1. heap = NoLinks
    BY <1>0 DEF Init
  <2>. QED
    BY <1>7, <2>1, SuperBlocks DEF NoLinks, Unlinked, InitListHead, ListAddTail, ListInsert
<1>9. /\ head'[SbBh].st = "live" /\ head'[SbBh].blk = SbBb /\ head'[SbBh].off = 0
      /\ head'[SbBh].op = "nil" /\ head'[SbBh].len = 0
  BY <1>0, <1>7, SuperBlocks DEF RingIInv, TypeOK
<1>10. OneBlock' /\ Unplaced' /\ Fresh' /\ call' = Idle
  <2>1. blk'[SbBb].kind = "META" /\ blk'[SbBb].off = 0 /\ blk'[SbBb].addr = NULL_ADDR
    BY <1>7 DEF NewBlock
  <2>2. /\ blks' = <<SbBb>> /\ status' = "run" /\ metaCnt' = 0 /\ last' = BlkH /\ tail' = 0
        /\ call' = Idle
    BY <1>0, <1>3, <1>4, SuperBlocks DEF Init
  <2>. QED
    BY <1>8, <1>9, <2>1, <2>2 DEF OneBlock, Unplaced, Fresh
<1>. QED
  BY <1>0, <1>2, <1>9, <1>10 DEF ManagerInv, ManagerAt, Held

\* The points at which main holds the superblock's place and no call is in progress,
\* those after it let go of it, and those it never leaves.
Calm  == {"tell", "hints", "compress", "cfgs", "flush", "map all"}
After == {"resize", "read", "reading", "rewriting", "done"}
Over  == {"exit", "no cfgs", "dead"}

\* A step that calls nothing keeps the manager's part.
LEMMA StayKeepsManager ==
  ASSUME ManagerInv, UNCHANGED vars,
         \/ pc' = pc /\ nblocks' = nblocks
         \/ pc \in Calm /\ pc' \in Calm
         \/ pc = "write" /\ pc' = "writing" /\ nblocks' = nblocks
         \/ pc \in After /\ pc' \in After /\ nblocks' = nblocks
         \/ pc' \in Over
  PROVE  ManagerInv'
<1>1. RingIInv'
  BY NextKeepsRing DEF ManagerInv
<1>2. /\ Init' <=> Init
      /\ OneBlock' <=> OneBlock
      /\ Unplaced' <=> Unplaced
      /\ Placed' <=> Placed
      /\ Fresh' <=> Fresh
      /\ Grown' <=> Grown
      /\ FlushOfOne' <=> FlushOfOne
      /\ Dropped' <=> Dropped
      /\ call' = call /\ head' = head
  BY DEF vars, Init, OneBlock, Unplaced, Placed, Fresh, Grown, FlushOfOne, Dropped
<1>3. ManagerAt
  BY DEF ManagerInv
<1>4. CASE pc' = pc /\ nblocks' = nblocks
  <2>1. ManagerAt'
    <3>1. pc \notin {"unpinned", "attached"} /\ (pc = "balloc" => Init)
      BY <1>3 DEF ManagerAt
    <3>2. head'[SbBh].op = head[SbBh].op
      BY <1>2
    <3>. QED
      BY <1>2, <1>3, <1>4, <3>1, <3>2, ZenonT(60) DEF ManagerAt
  <2>. QED
    BY <1>1, <2>1 DEF ManagerInv
<1>5. CASE pc \in Calm /\ pc' \in Calm
  BY <1>1, <1>2, <1>3, <1>5 DEF ManagerInv, ManagerAt, Calm, Held
<1>6. CASE pc = "write" /\ pc' = "writing" /\ nblocks' = nblocks
  BY <1>1, <1>2, <1>3, <1>6 DEF ManagerInv, ManagerAt, Held
<1>7. CASE pc \in After /\ pc' \in After /\ nblocks' = nblocks
  BY <1>1, <1>2, <1>3, <1>7 DEF ManagerInv, ManagerAt, After, Held
<1>8. CASE pc' \in Over
  BY <1>1, <1>8 DEF ManagerInv, ManagerAt, Over, Held
<1>. QED
  BY <1>1, <1>4, <1>5, <1>6, <1>7, <1>8 DEF ManagerInv

\* main sets the head's operations: it is not to be flushed.
LEMMA ReserveSetOpKeeps ==
  ASSUME ManagerInv, ReserveSetOp
  PROVE  ManagerInv'
<1>0. /\ pc = "setop" /\ pc' = "balloon" /\ RingIInv /\ SetOp(SbBh, "skip")
      /\ OneBlock /\ Unplaced /\ Fresh
  BY DEF ReserveSetOp, Calling, ManagerInv, ManagerAt
<1>1. RingIInv'
  BY <1>0, SuperBlocks, SetOpKeepsRing DEF Op
<1>2. /\ head' = [head EXCEPT ![SbBh].op = "skip"] /\ call = Idle
      /\ UNCHANGED <<blks, blk, heap, tail, metaCnt, last, call, status>>
  BY <1>0 DEF SetOp, Ready
<1>3. /\ head'[SbBh].st = head[SbBh].st /\ head'[SbBh].blk = head[SbBh].blk
      /\ head'[SbBh].off = head[SbBh].off /\ head'[SbBh].len = head[SbBh].len
      /\ head'[SbBh].op = "skip"
  BY <1>0, <1>2, SuperBlocks DEF RingIInv, TypeOK
<1>4. OneBlock' /\ Unplaced' /\ Fresh' /\ call' = Idle
  BY <1>0, <1>2, <1>3 DEF OneBlock, Unplaced, Fresh
<1>. QED
  BY <1>0, <1>1, <1>3, <1>4 DEF ManagerInv, ManagerAt, Held

\* The list of one block.
LEMMA OneInList ==
  ASSUME RingIInv, blks = <<SbBb>>
  PROVE  NextBlk(SbBb) = BlkH /\ NextBlk(BlkH) = SbBb
<1>1. blks \in Seq(Block) /\ Len(blks) = 1 /\ blks[1] = SbBb
  BY DEF RingIInv, TypeOK
<1>2. Distinct /\ 1 \in 1..Len(blks)
  BY <1>1 DEF Distinct
<1>. QED
  BY <1>1, <1>2, NextOf, FirstOf

\* The superblock fits into its block, whose head is the last one: BhBalloon gives it its
\* cells, and links the head behind itself.
LEMMA ReserveBalloonKeeps ==
  ASSUME ManagerInv, ReserveBalloon
  PROVE  ManagerInv'
<1>0. /\ pc = "balloon" /\ RingIInv /\ BhBalloon(SbBh, SuperEnd)
      /\ OneBlock /\ Unplaced /\ Fresh /\ head[SbBh].op = "skip" /\ call = Idle
      /\ pc' = (IF blk' = blk THEN "unpinned" ELSE "map")
  BY DEF ReserveBalloon, Calling, ManagerInv, ManagerAt
<1>1. RingIInv'
  BY <1>0, SuperBlocks, BhBalloonKeepsRing
<1>2. ~AttachFails(SbBb, SuperEnd, 1)
  <2>1. blk[SbBb].off = 0
    BY <1>0 DEF Fresh
  <2>2. RoundUp(UsedInLast(0), 1) + 3 <= BlkSz \/ ~Mapped(SbBb)
    BY <1>0 DEF Unplaced, Mapped
  <2>3. NextBlk(SbBb) = BlkH
    BY <1>0, OneInList DEF OneBlock
  <2>. QED
    BY <1>0, <2>3 DEF AttachFails, Unplaced, Mapped
<1>3. Attach(SbBb, SbBh, SuperEnd, 1, "skip", "balloon")
  <2>1. IsTail(SbBh) /\ head[SbBh].blk = SbBb
    BY <1>0 DEF IsTail, Fresh, OneBlock
  <2>. QED
    BY <1>0, <1>2, <2>1 DEF BhBalloon
<1>4. RoundUp(0, 1) = 0 /\ RoundUp(0, 1) + SuperEnd = 3
  BY SuperBlocks DEF RoundUp
<1>5. /\ head' = [head EXCEPT ![SbBh] = [st |-> "live", blk |-> SbBb, off |-> 0,
                                      op |-> "skip", by |-> "balloon", len |-> SuperEnd]]
      /\ heap' = ListAddTail(heap, SbBh, SbBb)
      /\ blk'[SbBb].off = 3 /\ blk'[SbBb].kind = blk[SbBb].kind /\ blk'[SbBb].addr = blk[SbBb].addr
      /\ tail' = tail
      /\ UNCHANGED <<blks, metaCnt, last, call, status>>
  <2>1. blk[SbBb].off = 0 /\ ~Mapped(SbBb)
    BY <1>0 DEF Fresh, Unplaced, Mapped
  <2>2. /\ head' = [head EXCEPT ![SbBh] = [st |-> "live", blk |-> SbBb, off |-> RoundUp(0, 1),
                                      op |-> "skip", by |-> "balloon", len |-> SuperEnd]]
        /\ heap' = ListAddTail(heap, SbBh, SbBb)
        /\ blk' = [blk EXCEPT ![SbBb].off = RoundUp(0, 1) + SuperEnd, ![SbBb].bkt = @]
        /\ tail' = tail
        /\ UNCHANGED <<blks, metaCnt, last, call, status>>
    BY <1>3, <2>1 DEF Attach, TailUpdate
  <2>3. blk'[SbBb].off = 3 /\ blk'[SbBb].kind = blk[SbBb].kind /\ blk'[SbBb].addr = blk[SbBb].addr
    BY <1>0, <1>4, <2>2, SuperBlocks DEF RingIInv, TypeOK
  <2>. QED
    BY <1>4, <2>2, <2>3
<1>6. pc' = "map"
  BY <1>0, <1>5 DEF Fresh
<1>7. /\ heap'[SbBb].next = SbBh /\ heap'[SbBb].prev = SbBh
      /\ heap'[SbBh].next = SbBh /\ heap'[SbBh].prev = SbBh
  <2>1. heap \in Heaps(Node) /\ SbBb \in Node /\ SbBh \in Node
    BY <1>0, SuperBlocks DEF RingIInv, TypeOK, Node
  <2>2. heap[SbBb].prev = SbBh
    BY <1>0 DEF Fresh
  <2>3. heap' = ListInsert(heap, SbBh, SbBh, SbBb)
    BY <1>5, <2>2 DEF ListAddTail
  <2>. QED
    BY <1>0, <2>1, <2>2, <2>3, SuperBlocks DEF ListInsert, Heaps, Fresh
<1>8. /\ head'[SbBh].st = "live" /\ head'[SbBh].blk = SbBb /\ head'[SbBh].off = 0
      /\ head'[SbBh].op = "skip" /\ head'[SbBh].len = SuperEnd
  BY <1>0, <1>5, SuperBlocks DEF RingIInv, TypeOK
<1>9. OneBlock' /\ Unplaced' /\ Grown' /\ call' = Idle
  BY <1>0, <1>5, <1>7, <1>8, SuperBlocks DEF OneBlock, Unplaced, Grown
<1>. QED
  BY <1>1, <1>6, <1>9 DEF ManagerInv, ManagerAt, Held

\* Mapping the block for the first time gives it block 0; mapping it again changes nothing.
LEMMA MapOne ==
  ASSUME RingIInv, OneBlock, Unplaced \/ Placed, Grown, MapBhInternal(SbBb)
  PROVE  /\ blk'[SbBb].addr = 0 /\ last' = SbBb /\ tail' = 1
         /\ blk'[SbBb].off = blk[SbBb].off /\ blk'[SbBb].kind = blk[SbBb].kind
<1>. DEFINE a == IF Mapped(SbBb) THEN blk[SbBb].addr ELSE tail
<1>1. NBlk(blk[SbBb].off) = 1
  BY SuperBlocks DEF Grown
<1>2. a = 0
  BY SizeAssumption DEF Unplaced, Placed, Mapped
<1>3. blk[SbBb] \in BlkRec /\ blk \in [Block -> BlkRec] /\ SbBb \in Block
  BY SuperBlocks DEF RingIInv, TypeOK, BlkRec
<1>4. /\ blk' = [blk EXCEPT ![SbBb].addr = a,
                        ![SbBb].bkt = IF Mapped(SbBb) THEN @ ELSE Bucket(blk[SbBb].off)]
      /\ last' = IF Mapped(SbBb) THEN last ELSE SbBb
      /\ tail' = IF a + NBlk(blk[SbBb].off) > tail THEN a + NBlk(blk[SbBb].off) ELSE tail
  BY DEF MapBhInternal
<1>5. tail' = 1 /\ last' = SbBb
  <2>1. 0 \notin {NULL_ADDR}
    BY SizeAssumption
  <2>. HIDE DEF a
  <2>. QED
    BY <1>1, <1>2, <1>4, <2>1 DEF Unplaced, Placed, Mapped
<1>6. blk'[SbBb].addr = a /\ blk'[SbBb].off = blk[SbBb].off /\ blk'[SbBb].kind = blk[SbBb].kind
  <2>. HIDE DEF a
  <2>. QED
    BY <1>3, <1>4 DEF BlkRec
<1>. QED
  BY <1>2, <1>5, <1>6

\* MapBh finds the block unmapped, and starts before the first one.
LEMMA ReserveMapKeeps ==
  ASSUME ManagerInv, ReserveMap
  PROVE  ManagerInv'
<1>0. /\ pc = "map" /\ RingIInv /\ MapBh(head[SbBh].blk)
      /\ OneBlock /\ Unplaced /\ Grown
      /\ pc' = (IF call' = Idle THEN "tell" ELSE "mapping")
  BY DEF ReserveMap, Calling, ManagerInv, ManagerAt
<1>1. head[SbBh].blk = SbBb /\ SbBb \in Block \cup {NIL} /\ SbBb # NIL
  BY <1>0, SuperBlocks DEF OneBlock
<1>2. RingIInv'
  BY <1>0, <1>1, MapBhKeepsRing
<1>3. /\ call' = [fn |-> "map", t |-> BlkH, want |-> SbBb]
      /\ UNCHANGED <<blks, blk, head, heap, tail, metaCnt, last, status>>
  BY <1>0, <1>1 DEF MapBh, Unplaced, Mapped
<1>4. pc' = "mapping"
  BY <1>0, <1>3 DEF Idle
<1>5. OneBlock' /\ Unplaced' /\ Grown'
  BY <1>0, <1>3 DEF OneBlock, Unplaced, Grown
<1>. QED
  BY <1>2, <1>3, <1>4, <1>5 DEF ManagerInv, ManagerAt, Held

\* It maps the one block, the first of the image, and is done.
LEMMA ReserveMappingKeeps ==
  ASSUME ManagerInv, ReserveMapping
  PROVE  ManagerInv'
<1>0. /\ pc = "mapping" /\ RingIInv /\ MapStep
      /\ OneBlock /\ Unplaced /\ Grown /\ call = [fn |-> "map", t |-> BlkH, want |-> SbBb]
      /\ pc' = (IF call' = Idle THEN "tell" ELSE "mapping")
  BY DEF ReserveMapping, Calling, ManagerInv, ManagerAt
<1>1. RingIInv'
  BY <1>0, MapStepKeepsRing
<1>2. NextBlk(call.t) = SbBb /\ ~Mapped(SbBb) /\ call.t # JUNK /\ call.want = SbBb
  BY <1>0, OneInList, SuperBlocks DEF OneBlock, Unplaced, Mapped
<1>3. /\ MapBhInternal(SbBb) /\ call' = Idle
      /\ UNCHANGED <<blks, head, heap, metaCnt, status>>
  BY <1>0, <1>2, SuperBlocks DEF MapStep
<1>4. OneBlock' /\ Placed' /\ Grown'
  BY <1>0, <1>3, MapOne DEF OneBlock, Placed, Grown
<1>5. pc' = "tell"
  BY <1>0, <1>3
<1>. QED
  BY <1>1, <1>3, <1>4, <1>5 DEF ManagerInv, ManagerAt, Held

\* The superblock's head lies at the start of the image.
LEMMA ToldAtZero ==
  ASSUME OneBlock, Placed
  PROVE  BhTell(SbBh) = 0
<1>1. head[SbBh].blk = SbBb /\ head[SbBh].off = 0 /\ blk[SbBb].addr = 0 /\ 0 # NULL_ADDR
  BY SizeAssumption DEF OneBlock, Placed
<1>. QED
  BY <1>1, SuperBlocks DEF BhTell, Mapped, Pos

LEMMA ReserveTellKeeps ==
  ASSUME ManagerInv, ReserveTell
  PROVE  ManagerInv'
<1>1. pc = "tell" /\ UNCHANGED vars /\ OneBlock /\ Placed
      /\ pc' = (IF BhTell(SbBh) = 0 THEN "hints" ELSE "unpinned")
  BY DEF ReserveTell, ManagerInv, ManagerAt, Held
<1>2. pc' = "hints"
  BY <1>1, ToldAtZero
<1>. QED
  BY <1>1, <1>2, StayKeepsManager DEF Calm

\* The head is not the last of its block any more, as far as Battach can see.
LEMMA BuildComprCfgsKeeps ==
  ASSUME ManagerInv, BuildComprCfgs
  PROVE  ManagerInv' /\ status' = status
<1>1. /\ pc = "cfgs" /\ OneBlock /\ Placed /\ Grown /\ nblocks' = nblocks
      /\ pc' = (IF head' = head THEN "no cfgs" ELSE "attached")
  BY DEF BuildComprCfgs, Calling, ManagerInv, ManagerAt, Held
<1>2. PICK new \in BufHead : Battach(SbBh, new, "META", CfgSize)
  BY DEF BuildComprCfgs
<1>3. ~IsTail(SbBh)
  BY <1>1, SuperBlocks DEF IsTail, OneBlock, Grown
<1>4. Refuse
  BY <1>2, <1>3 DEF Battach
<1>5. head' = head /\ status' = status /\ RingIInv'
  BY <1>4, RefuseKeepsRing DEF Refuse, ManagerInv
<1>. QED
  BY <1>1, <1>5 DEF ManagerInv, ManagerAt, Held

LEMMA FlushAllKeeps ==
  ASSUME ManagerInv, FlushAll
  PROVE  ManagerInv'
<1>0. /\ pc = "flush" /\ RingIInv /\ ErofsBflush(NIL) /\ OneBlock /\ Placed /\ Grown
      /\ pc' = (IF call' = Idle THEN "map all" ELSE "flushing")
  BY DEF FlushAll, Calling, ManagerInv, ManagerAt, Held
<1>1. RingIInv'
  BY <1>0, BflushKeepsRing
<1>2. /\ call' = [fn |-> "flush", at |-> "block", stop |-> NIL, p |-> SbBb,
                  n |-> NIL, bh |-> NIL, skip |-> FALSE]
      /\ UNCHANGED <<blks, blk, head, heap, tail, metaCnt, last, status>>
  <2>1. blks # <<>> /\ blks[1] = SbBb
    BY <1>0 DEF OneBlock
  <2>. QED
    BY <1>0, <2>1 DEF ErofsBflush
<1>3. pc' = "flushing" /\ FlushOfOne'
  BY <1>0, <1>2 DEF Idle, FlushOfOne
<1>4. OneBlock' /\ Placed' /\ Grown'
  BY <1>0, <1>2 DEF OneBlock, Placed, Grown
<1>. QED
  BY <1>1, <1>3, <1>4 DEF ManagerInv, ManagerAt, Held

\* The flush maps the block again, sees the one head, which asks to be skipped, and
\* leaves the block alone.
LEMMA FlushGoesOnKeeps ==
  ASSUME ManagerInv, FlushGoesOn
  PROVE  ManagerInv' /\ pc' \in {"flushing", "map all"}
<1>. DEFINE next == IF call' # Idle THEN "flushing"
                    ELSE IF ret' = "0" THEN "map all"
                    ELSE IF status' = "run" THEN "exit" ELSE "dead"
<1>0. /\ pc = "flushing" /\ RingIInv /\ Flush /\ OneBlock /\ Placed /\ Grown /\ FlushOfOne
      /\ pc' = next /\ call \in FlushCalls
  <2>1. /\ pc = "flushing" /\ RingIInv /\ Flush /\ OneBlock /\ Placed /\ Grown /\ FlushOfOne
        /\ pc' = next
    BY DEF FlushGoesOn, Calling, ManagerInv, ManagerAt, Held
  <2>. QED
    BY <2>1, FlushCallTyped DEF FlushOfOne, RingIInv
<1>. HIDE DEF next
<1>1. NextBlk(SbBb) = BlkH /\ ~EmptyBlk(SbBb) /\ heap[SbBb].next = SbBh
  BY <1>0, OneInList, SuperBlocks DEF EmptyBlk, IsListEmpty, Grown, OneBlock
<1>2. ASSUME FlushBlock
      PROVE  /\ RingIInv' /\ OneBlock' /\ Placed' /\ Grown' /\ FlushOfOne' /\ call' # Idle
  <2>1. call.p # call.stop
    BY <1>0, SuperBlocks DEF FlushOfOne
  <2>2. /\ MapBhInternal(SbBb)
        /\ call' = [call EXCEPT !.n = NIL, !.skip = FALSE, !.bh = SbBh, !.at = "heads"]
        /\ UNCHANGED <<blks, head, heap, metaCnt, status>>
    BY <1>0, <1>1, <1>2, <2>1 DEF FlushBlock, FlushOfOne
  <2>3. FlushOfOne' /\ call'.fn = "flush"
    BY <1>0, <2>2 DEF FlushOfOne, FlushCalls
  <2>4. OneBlock' /\ Placed' /\ Grown'
    BY <1>0, <2>2, MapOne DEF OneBlock, Placed, Grown
  <2>. QED
    BY <1>0, <1>2, <2>3, <2>4, FlushBlockKeepsRing DEF Idle
<1>3. ASSUME NEW bh \in BufHead, FlushHead(bh)
      PROVE  /\ RingIInv' /\ OneBlock' /\ Placed' /\ Grown' /\ FlushOfOne' /\ call' # Idle
  <2>1. bh = SbBh /\ call.at = "heads" /\ head[bh].op = "skip" /\ NextHead(bh) = NIL
    BY <1>0, <1>3 DEF FlushHead, Flushing, FlushOfOne, Grown, NextHead
  <2>2. /\ call' = [call EXCEPT !.bh = NIL, !.at = "end", !.skip = @ \/ head[bh].op = "skip"]
        /\ UNCHANGED <<blks, blk, head, heap, tail, metaCnt, last, status>>
    BY <1>3, <2>1 DEF FlushHead
  <2>3. FlushOfOne' /\ call'.fn = "flush"
    BY <1>0, <2>1, <2>2 DEF FlushOfOne, FlushCalls
  <2>4. OneBlock' /\ Placed' /\ Grown'
    BY <1>0, <2>2 DEF OneBlock, Placed, Grown
  <2>. QED
    BY <1>0, <1>3, <2>3, <2>4, FlushHeadKeepsRing DEF Idle
<1>4. ASSUME FlushEnd
      PROVE  RingIInv' /\ OneBlock' /\ Placed' /\ Grown' /\ call' = Idle /\ ret' = "0"
  <2>1. call.skip /\ call.n = NIL
    BY <1>0, <1>4 DEF FlushEnd, Flushing, FlushOfOne
  <2>2. /\ call' = Idle /\ ret' = "0"
        /\ UNCHANGED <<blks, blk, head, heap, tail, metaCnt, last, status>>
    BY <1>4, <2>1 DEF FlushEnd
  <2>. QED
    BY <1>0, <1>4, <2>2, FlushEndKeepsRing DEF OneBlock, Placed, Grown
<1>5. CASE FlushBlock \/ \E bh \in BufHead : FlushHead(bh)
  <2>1. RingIInv' /\ OneBlock' /\ Placed' /\ Grown' /\ FlushOfOne' /\ call' # Idle
    BY <1>2, <1>3, <1>5
  <2>2. pc' = "flushing"
    BY <1>0, <2>1 DEF next
  <2>. QED
    BY <2>1, <2>2 DEF ManagerInv, ManagerAt, Held
<1>6. CASE FlushEnd
  <2>1. pc' = "map all"
    BY <1>0, <1>4, <1>6 DEF next
  <2>. QED
    BY <1>4, <1>6, <2>1 DEF ManagerInv, ManagerAt, Held
<1>. QED
  BY <1>0, <1>5, <1>6 DEF Flush

LEMMA MapAllKeeps ==
  ASSUME ManagerInv, MapAll
  PROVE  ManagerInv'
<1>0. /\ pc = "map all" /\ RingIInv /\ MapBh(NIL) /\ OneBlock /\ Placed /\ Grown
      /\ pc' = "mapping all"
  BY DEF MapAll, Calling, ManagerInv, ManagerAt, Held
<1>1. RingIInv'
  BY <1>0, MapBhKeepsRing
<1>2. /\ call' = [fn |-> "map", t |-> SbBb, want |-> NIL]
      /\ UNCHANGED <<blks, blk, head, heap, tail, metaCnt, last, status>>
  BY <1>0 DEF MapBh, Placed
<1>3. OneBlock' /\ Placed' /\ Grown'
  BY <1>0, <1>2 DEF OneBlock, Placed, Grown
<1>. QED
  BY <1>0, <1>1, <1>2, <1>3 DEF ManagerInv, ManagerAt, Held

\* Nothing is left to map: the image has one block.
LEMMA MappingAllKeeps ==
  ASSUME ManagerInv, MappingAll
  PROVE  ManagerInv'
<1>0. /\ pc = "mapping all" /\ RingIInv /\ MapStep /\ OneBlock /\ Placed /\ Grown
      /\ call = [fn |-> "map", t |-> SbBb, want |-> NIL]
      /\ pc' = (IF call' = Idle THEN "write" ELSE "mapping all")
      /\ nblocks' = (IF call' = Idle THEN tail' ELSE nblocks)
  BY DEF MappingAll, Calling, ManagerInv, ManagerAt, Held
<1>1. RingIInv'
  BY <1>0, MapStepKeepsRing
<1>2. NextBlk(call.t) = BlkH /\ call.t # JUNK
  BY <1>0, OneInList, SuperBlocks DEF OneBlock
<1>3. call' = Idle /\ UNCHANGED <<blks, blk, head, heap, tail, metaCnt, last, status>>
  BY <1>0, <1>2 DEF MapStep
<1>4. OneBlock' /\ Placed' /\ Grown'
  BY <1>0, <1>3 DEF OneBlock, Placed, Grown
<1>5. pc' = "write" /\ nblocks' = 1
  BY <1>0, <1>3 DEF Placed
<1>. QED
  BY <1>1, <1>3, <1>4, <1>5 DEF ManagerInv, ManagerAt, Held

\* The head's neighbour is the head itself, so BDrop leaves the block in the list.
LEMMA DropSbKeeps ==
  ASSUME ManagerInv, DropSb
  PROVE  ManagerInv' /\ status' = "run"
<1>. DEFINE hp == ListDel(heap, SbBh)
<1>0. /\ pc = "writing" /\ RingIInv /\ BDrop(SbBh, FALSE) /\ OneBlock /\ Placed /\ Grown
      /\ nblocks' = nblocks /\ nblocks = 1 /\ pc' \in {"resize", "exit"}
  BY DEF DropSb, Calling, AfterWrite, ManagerInv, ManagerAt, Held
<1>1. RingIInv'
  BY <1>0, SuperBlocks, BDropKeepsRing
<1>2. ~ListDelPanics(heap, SbBh) /\ ~IsListEmpty(hp, SbBb)
  <2>1. heap \in Heaps(Node) /\ SbBb \in Node /\ SbBh \in Node
    BY <1>0, SuperBlocks DEF RingIInv, TypeOK, Node
  <2>2. hp[SbBb] = heap[SbBb]
    BY <1>0, <2>1, SuperBlocks DEF ListDel, Heaps, Grown
  <2>. HIDE DEF hp
  <2>. QED
    BY <1>0, <2>2, SuperBlocks DEF ListDelPanics, IsListEmpty, Grown
<1>3. head[SbBh].blk = SbBb
  BY <1>0 DEF OneBlock
<1>4. UNCHANGED <<blks, blk, status>>
  BY <1>0, <1>2, <1>3 DEF BDrop
<1>5. Dropped'
  BY <1>0, <1>4 DEF Dropped, OneBlock, Placed, Grown
<1>6. status' = "run"
  BY <1>5 DEF Dropped
<1>. QED
  BY <1>0, <1>1, <1>5, <1>6 DEF ManagerInv, ManagerAt, Held

\* The steps that call nothing on the manager.
LEMMA OthersKeepManager ==
  ASSUME ManagerInv,
         \/ HintLine \/ HintsEnd \/ CompressInit \/ WriteSb \/ Transfer
         \/ Resize \/ ReadSb \/ CheckSb \/ Rewritten
  PROVE  ManagerInv'
<1>1. CASE HintLine
  <2>1. CASE UNCHANGED vars
    <3>1. (pc' = pc /\ nblocks' = nblocks) \/ pc' \in Over
      BY <1>1, <2>1 DEF HintLine, Own, Over
    <3>. QED
      BY <2>1, <3>1, StayKeepsManager
  <2>2. CASE Die("panic") /\ pc' = "dead"
    BY <2>2, DieKeepsRing DEF ManagerInv, ManagerAt, Held
  <2>. QED
    BY <1>1, <2>1, <2>2 DEF HintLine
<1>2. CASE HintsEnd
  BY <1>2, StayKeepsManager DEF HintsEnd, Calm
<1>3. CASE CompressInit
  <2>1. UNCHANGED vars /\ pc = "compress" /\ pc' \in {"flush", "exit", "cfgs"}
    BY <1>3 DEF CompressInit
  <2>. QED
    BY <2>1, StayKeepsManager DEF Calm, Over
<1>4. CASE WriteSb
  BY <1>4, StayKeepsManager DEF WriteSb, Own
<1>5. CASE Transfer
  <2>1. UNCHANGED vars /\ nblocks' = nblocks /\ pc' \in {pc, "dead"}
    BY <1>5 DEF Transfer
  <2>. QED
    BY <2>1, StayKeepsManager DEF Over
<1>6. CASE Resize
  <2>1. UNCHANGED vars /\ nblocks' = nblocks /\ pc = "resize" /\ pc' \in {"read", "exit"}
    BY <1>6 DEF Resize, Own
  <2>. QED
    BY <2>1, StayKeepsManager DEF After, Over
<1>7. CASE ReadSb
  BY <1>7, StayKeepsManager DEF ReadSb, Own, After
<1>8. CASE CheckSb
  <2>1. UNCHANGED vars /\ nblocks' = nblocks /\ pc = "reading" /\ pc' \in {"rewriting", "exit"}
    BY <1>8 DEF CheckSb, Own
  <2>. QED
    BY <2>1, StayKeepsManager DEF After, Over
<1>9. CASE Rewritten
  <2>1. UNCHANGED vars /\ nblocks' = nblocks /\ pc = "rewriting" /\ pc' \in {"done", "exit"}
    BY <1>9 DEF Rewritten, Own
  <2>. QED
    BY <2>1, StayKeepsManager DEF After, Over
<1>. QED
  BY <1>1, <1>2, <1>3, <1>4, <1>5, <1>6, <1>7, <1>8, <1>9

\* Every step of the command keeps the manager's part.
LEMMA NextKeepsManager ==
  ASSUME ManagerInv, [MkfsNext]_mvars
  PROVE  ManagerInv'
<1>1. CASE UNCHANGED mvars
  BY <1>1, StayKeepsManager DEF mvars
<1>2. CASE ReserveSuperblock
  BY <1>2, ReserveBallocKeeps, ReserveSetOpKeeps, ReserveBalloonKeeps, ReserveMapKeeps,
     ReserveMappingKeeps, ReserveTellKeeps DEF ReserveSuperblock
<1>3. CASE Main /\ ~ReserveSuperblock
  BY <1>3, OthersKeepManager, BuildComprCfgsKeeps, FlushAllKeeps, FlushGoesOnKeeps, MapAllKeeps,
     MappingAllKeeps, DropSbKeeps DEF Main
<1>4. CASE Rerun
  BY <1>4, RerunKeepsManager
<1>. QED
  BY <1>1, <1>2, <1>3, <1>4 DEF MkfsNext
----------------------------------------------------------------------------
(***************************************************************************)
(* main's own state.                                                       *)
(***************************************************************************)

\* Where main can stand, and the two places ManagerInv rules out.
Points == {"balloc", "setop", "balloon", "map", "mapping", "tell", "hints", "compress",
           "cfgs", "flush", "flushing", "map all", "mapping all", "write", "writing",
           "resize", "read", "reading", "rewriting", "done", "exit", "no cfgs", "dead"}
Nowhere == {"unpinned", "attached"}

Settings ==
  /\ alg \in Alg /\ hints \in Seq(HintRec) /\ maxp \in Nat /\ pmax \in Nat \ {0}
  /\ feat \subseteq {"0padding", "compr_cfgs"}

LEMMA OwnTyped ==
  ASSUME MkfsTypeOK, ManagerInv', [MkfsNext]_mvars
  PROVE  MkfsTypeOK'
<1>. USE MkfsAssumption
<1>0. /\ pc \in Points /\ Settings /\ nblocks \in Nat /\ run \in 1..MaxRuns /\ shorts \subseteq 1..run
      /\ pc' \notin Nowhere /\ tail' \in Nat
  BY DEF MkfsTypeOK, Points, Settings, Nowhere, ManagerInv, ManagerAt, RingIInv, TypeOK
<1>1. SUFFICES /\ pc' \in Points \cup Nowhere /\ Settings' /\ nblocks' \in Nat
               /\ run' \in 1..MaxRuns /\ shorts' \subseteq 1..run'
  BY <1>0 DEF MkfsTypeOK, Points, Settings, Nowhere
<1>2. CASE UNCHANGED mvars
  BY <1>0, <1>2 DEF mvars, conf, Settings
<1>3. CASE HintLine
  <2>1. /\ pc' \in {pc, "exit", "dead"} /\ hints' = Tail(hints) /\ hints # <<>>
        /\ maxp' \in {maxp, Head(hints).blks}
        /\ UNCHANGED <<alg, pmax, feat, nblocks, run, shorts>>
    BY <1>3 DEF HintLine, Own
  <2>2. Tail(hints) \in Seq(HintRec) /\ Head(hints).blks \in Nat
    <3>1. Tail(hints) \in Seq(HintRec) /\ Head(hints) \in HintRec
      BY <1>0, <2>1, HeadTailProperties DEF Settings
    <3>. QED
      BY <3>1 DEF HintRec
  <2>. QED
    BY <1>0, <2>1, <2>2 DEF Settings, Points
<1>4. CASE HintsEnd
  <2>1. maxp % WordBlks \in Nat /\ PmaxAfter \in Nat \ {0}
    BY <1>0 DEF PmaxAfter, Settings
  <2>. QED
    BY <1>0, <1>4, <2>1 DEF HintsEnd, Own, Settings, Points
<1>5. CASE CompressInit
  <2>1. /\ pc' \in {"flush", "exit", "cfgs"}
        /\ feat' \in {feat, feat \ {"0padding"}, feat \cup {"compr_cfgs"}}
        /\ UNCHANGED <<hints, alg, maxp, pmax, nblocks, run, shorts>>
    BY <1>5 DEF CompressInit, Own, ClearLz40Padding, SetBigPcluster
  <2>. QED
    BY <1>0, <2>1 DEF Settings, Points
<1>6. CASE Transfer
  <2>1. /\ pc' \in {pc, "dead"} /\ shorts' \in {shorts, shorts \cup {run}}
        /\ UNCHANGED <<conf, nblocks, run>>
    BY <1>6 DEF Transfer
  <2>2. Settings' /\ pc' \in Points \cup Nowhere
    BY <1>0, <2>1 DEF conf, Settings, Points
  <2>3. shorts' \subseteq 1..run'
    BY <1>0, <2>1
  <2>. QED
    BY <1>0, <2>1, <2>2, <2>3
<1>7. CASE Rerun
  <2>1. 1 \in Nat \ {0} /\ {"0padding"} \subseteq {"0padding", "compr_cfgs"}
    OBVIOUS
  <2>. QED
    <3>1. /\ pc' = "balloc" /\ hints' \in HintFile /\ alg' \in Alg /\ maxp' = 0 /\ nblocks' = 0
          /\ pmax' = 1 /\ feat' = {"0padding"} /\ shorts' = shorts
          /\ run < MaxRuns /\ run' = run + 1
      BY <1>7 DEF Rerun, DefaultPmax, DefaultFeat
    <3>2. run' \in 1..MaxRuns /\ shorts' \subseteq 1..run'
      BY <1>0, <3>1
    <3>3. hints' \in Seq(HintRec)
      BY <3>1
    <3>. QED
      BY <2>1, <3>1, <3>2, <3>3 DEF Settings, Points
<1>8. CASE MappingAll
  BY <1>0, <1>8 DEF MappingAll, Calling, conf, Settings, Points
<1>9. CASE \/ ReserveSuperblock \/ BuildComprCfgs \/ FlushAll \/ FlushGoesOn \/ MapAll
           \/ DropSb \/ WriteSb \/ Resize \/ ReadSb \/ CheckSb \/ Rewritten
  <2>1. /\ pc' \in Points \cup Nowhere
        /\ UNCHANGED <<conf, nblocks, run, shorts>>
    BY <1>9
    DEF ReserveSuperblock, ReserveBalloc, ReserveSetOp, ReserveBalloon, ReserveMap, ReserveMapping,
        ReserveTell, BuildComprCfgs, FlushAll, FlushGoesOn, MapAll, DropSb, WriteSb, Resize, ReadSb,
        CheckSb, Rewritten, AfterWrite, Calling, Own, Points, Nowhere
  <2>. QED
    BY <1>0, <2>1 DEF conf, Settings
<1>. QED
  BY <1>2, <1>3, <1>4, <1>5, <1>6, <1>7, <1>8, <1>9 DEF MkfsNext, Main

LEMMA MkfsStarts == MkfsInit => MkfsTypeOK /\ ManagerInv
<1>. SUFFICES ASSUME MkfsInit PROVE MkfsTypeOK
  BY InitManager
<1>1. hints \in Seq(HintRec) /\ 1 \in 1..MaxRuns
  BY MkfsAssumption DEF MkfsInit
<1>. QED
  BY <1>1 DEF MkfsInit, MkfsTypeOK, DefaultPmax, DefaultFeat

LEMMA ManagerHolds == MkfsSpec => [](MkfsTypeOK /\ ManagerInv)
<1>1. ASSUME MkfsTypeOK, ManagerInv, [MkfsNext]_mvars PROVE MkfsTypeOK' /\ ManagerInv'
  BY <1>1, NextKeepsManager, OwnTyped
<1>. QED
  BY <1>1, MkfsStarts, PTL DEF MkfsSpec

\* main's own state has its types, and main gets neither to the error exits of
\* ReserveSuperblock nor behind an attachment to the superblock (buffer.go:93-114,
\* compress.go:430).
THEOREM MkfsIsTyped == MkfsSpec => []MkfsTypeOK
  BY ManagerHolds, PTL

\* From ReserveSuperblock to WriteSuperBlock the superblock's head stays at the start of
\* the image, inside its block (buffer.go:93-188).
THEOREM SuperblockIsPinned == MkfsSpec => []SbPinned
<1>1. ManagerInv => SbPinned
  <2>1. SUFFICES ASSUME OneBlock, Placed, Grown
                 PROVE  /\ Usable(SbBh) /\ BhTell(SbBh) = 0
                        /\ head[SbBh].len <= blk[head[SbBh].blk].off
    BY DEF ManagerInv, ManagerAt, Held, SbPinned
  <2>2. blks = <<SbBb>> /\ head[SbBh].st = "live" /\ head[SbBh].blk = SbBb
    BY <2>1 DEF OneBlock
  <2>3. InRing(SbBb)
    BY <2>2 DEF InRing, Range
  <2>. QED
    BY <2>1, <2>2, <2>3, ToldAtZero, SuperBlocks DEF Usable, Grown
<1>. QED
  BY <1>1, ManagerHolds, PTL
----------------------------------------------------------------------------
(***************************************************************************)
(* Cells.  A cell's checksum is made of cells, so there is no set of all   *)
(* cells: what is said of sequences is said of those over their own range. *)
(***************************************************************************)

LEMMA SeqFacts ==
  ASSUME NEW s, IsSeq(s)
  PROVE  Len(s) \in Nat /\ DOMAIN s = 1..Len(s) /\ s = [i \in 1..Len(s) |-> s[i]]
  BY DEF IsSeq

LEMMA FcnIsSeq ==
  ASSUME NEW n \in Nat, NEW s, s = [i \in 1..n |-> s[i]]
  PROVE  IsSeq(s) /\ Len(s) = n
<1>1. s \in [1..n -> Range(s)]
  BY DEF Range
<1>. QED
  BY <1>1, SeqOfFcn DEF IsSeq

LEMMA SeqIsSeq ==
  ASSUME NEW S, NEW s \in Seq(S)
  PROVE  IsSeq(s)
<1>1. Len(s) \in Nat /\ s = [i \in 1..Len(s) |-> s[i]]
  OBVIOUS
<1>. QED
  BY <1>1, FcnIsSeq

LEMMA SeqOver ==
  ASSUME NEW s, NEW S, IsSeq(s), Range(s) \subseteq S
  PROVE  s \in Seq(S)
<1>1. Len(s) \in Nat /\ s \in [1..Len(s) -> S]
  BY SeqFacts DEF Range
<1>. QED
  BY <1>1, SeqOfFcn

LEMMA SameSeq ==
  ASSUME NEW s, NEW t, IsSeq(s), IsSeq(t), Len(s) = Len(t), \A i \in 1..Len(s) : s[i] = t[i]
  PROVE  s = t
  BY SeqFacts

LEMMA SliceCells ==
  ASSUME NEW s, IsSeq(s), NEW a \in Nat, NEW b \in Nat, a <= b, b <= Len(s)
  PROVE  /\ IsSeq(Dev!Slice(s, a, b)) /\ Len(Dev!Slice(s, a, b)) = b - a
         /\ \A k \in 1..(b - a) : Dev!Slice(s, a, b)[k] = s[a + k]
<1>1. IsCut(Range(s), s, a, b)
  BY CutCells DEF IsSeq
<1>2. Cells(s, a, b) = Dev!Slice(s, a, b)
  BY DEF Cells, Dev!Slice
<1>. DEFINE c == Dev!Slice(s, a, b)
<1>3. /\ c \in Seq(Range(s)) /\ Len(c) = (IF a <= b THEN b - a ELSE 0)
      /\ \A k \in 1..(b - a) : c[k] = s[a + k]
  BY <1>1, <1>2, Zenon DEF IsCut
<1>. HIDE DEF c
<1>4. IsSeq(c) /\ Len(c) = b - a /\ \A k \in 1..(b - a) : c[k] = s[a + k]
  BY <1>3, SeqIsSeq
<1>. QED
  BY <1>4 DEF c

\* What pwrite leaves in the file.
LEMMA PutCells ==
  ASSUME NEW f, IsSeq(f), NEW pos \in Nat, NEW d, IsSeq(d)
  PROVE  LET g == Dev!Put(f, pos, d) IN
         /\ IsSeq(g)
         /\ Len(g) = (IF Len(f) >= pos + Len(d) THEN Len(f) ELSE pos + Len(d))
         /\ \A i \in 1..Len(g) :
              /\ i \in (pos + 1)..(pos + Len(d)) => g[i] = d[i - pos]
              /\ i \notin (pos + 1)..(pos + Len(d)) /\ i <= Len(f) => g[i] = f[i]
<1>. DEFINE n == IF Len(f) >= pos + Len(d) THEN Len(f) ELSE pos + Len(d)
            e(i) == IF i \in (pos + 1)..(pos + Len(d)) THEN d[i - pos]
                    ELSE IF i <= Len(f) THEN f[i] ELSE Zero
            g == Dev!Put(f, pos, d)
<1>1. g = [i \in 1..n |-> e(i)]
  BY DEF Dev!Put
<1>2. n \in Nat /\ Len(f) \in Nat /\ Len(d) \in Nat
  BY SeqFacts
<1>. HIDE DEF n, e, g
<1>3. \A i \in 1..n : g[i] = e(i)
  BY <1>1
<1>4. g = [i \in 1..n |-> g[i]]
  BY <1>1
<1>5. IsSeq(g) /\ Len(g) = n
  BY <1>2, <1>4, FcnIsSeq
<1>6. \A i \in 1..Len(g) :
        /\ i \in (pos + 1)..(pos + Len(d)) => g[i] = d[i - pos]
        /\ i \notin (pos + 1)..(pos + Len(d)) /\ i <= Len(f) => g[i] = f[i]
  BY <1>3, <1>5 DEF e
<1>. QED
  BY <1>5, <1>6 DEF g, n

LEMMA ResizedCells ==
  ASSUME NEW f, IsSeq(f), NEW n \in Nat
  PROVE  LET g == Dev!Resized(f, n) IN
         IsSeq(g) /\ Len(g) = n /\ \A i \in 1..n : i <= Len(f) => g[i] = f[i]
<1>. DEFINE e(i) == IF 0 + i <= Len(f) THEN f[0 + i] ELSE Zero
            g == Dev!Resized(f, n)
<1>1. g = [i \in 1..n |-> e(i)]
  BY DEF Dev!Resized, Dev!Contents
<1>. HIDE DEF g
<1>2. g = [i \in 1..n |-> g[i]] /\ \A i \in 1..n : i <= Len(f) => g[i] = f[i]
  <2>1. \A i \in 1..n : g[i] = e(i)
    BY <1>1
  <2>2. \A i \in 1..n : 0 + i = i
    OBVIOUS
  <2>. QED
    BY <1>1, <2>1, <2>2
<1>3. IsSeq(g) /\ Len(g) = n
  BY <1>2, FcnIsSeq
<1>. QED
  BY <1>2, <1>3 DEF g

\* What a read leaves in the buffer.
LEMMA OverlayCells ==
  ASSUME NEW buf, IsSeq(buf), NEW i \in Nat, NEW d, IsSeq(d), i + Len(d) <= Len(buf)
  PROVE  LET o == Dev!Overlay(buf, i, d) IN
         /\ IsSeq(o) /\ Len(o) = Len(buf)
         /\ \A k \in 1..Len(buf) :
              o[k] = IF k \in (i + 1)..(i + Len(d)) THEN d[k - i] ELSE buf[k]
<1>. DEFINE S == Range(buf) \cup Range(d)
            o == Dev!Overlay(buf, i, d)
<1>1. buf \in Seq(S) /\ d \in Seq(S)
  BY SeqOver
<1>. HIDE DEF S
<1>2. IsPatch(S, buf, i, d)
  BY <1>1, PatchCells
<1>3. Patch(buf, i, d) = o
  BY DEF Patch, Dev!Overlay, Cells, Dev!Slice
<1>. HIDE DEF o
<1>4. /\ o \in Seq(S) /\ Len(o) = Len(buf)
      /\ \A k \in 1..Len(buf) :
           o[k] = IF k \in (i + 1)..(i + Len(d)) THEN d[k - i] ELSE buf[k]
  BY <1>2, <1>3, Zenon DEF IsPatch
<1>5. IsSeq(o)
  BY <1>4, SeqIsSeq
<1>. QED
  BY <1>4, <1>5 DEF o

\* The superblock as WriteSuperBlock builds it.
LEMMA SuperBlockCells ==
  /\ IsSeq(SuperBlock) /\ Len(SuperBlock) = BlkSz
  /\ SuperBlock[2] = SbHead(<<>>) /\ SuperBlock[3] = SbBody(FALSE, feat, run)
<1>. DEFINE a == SbHead(<<>>)
            b == SbBody(FALSE, feat, run)
            S == {Zero, a, b}
            s == <<Zero, a, b>>
            z == [i \in 1..(BlkSz - 3) |-> Zero]
<1>1. BlkSz - 3 \in Nat /\ BlkSz \in Nat
  BY SuperBlocks
<1>2. z \in Seq(S) /\ Len(z) = BlkSz - 3
  <2>. HIDE DEF a, b
  <2>1. z \in [1..(BlkSz - 3) -> S]
    OBVIOUS
  <2>. HIDE DEF z, S
  <2>. QED
    BY <1>1, <2>1, SeqOfFcn
<1>3. s \in Seq(S) /\ Len(s) = 3 /\ s[2] = a /\ s[3] = b
  <2>. HIDE DEF a, b
  <2>. QED
    OBVIOUS
<1>4. SuperBlock = s \o z
  BY DEF SuperBlock
<1>. HIDE DEF S, s, z, a, b
<1>5. /\ s \o z \in Seq(S) /\ Len(s \o z) = Len(s) + Len(z)
      /\ \A k \in 1..(Len(s) + Len(z)) : (s \o z)[k] = IF k <= Len(s) THEN s[k] ELSE z[k - Len(s)]
  BY <1>2, <1>3, ConcatProperties
<1>6. SuperBlock \in Seq(S) /\ Len(SuperBlock) = BlkSz /\ SuperBlock[2] = a /\ SuperBlock[3] = b
  BY <1>1, <1>2, <1>3, <1>4, <1>5
<1>. QED
  BY <1>6, SeqIsSeq DEF a, b

\* One cell of a sequence changed, and one field of a cell: an EXCEPT under a name,
\* for the provers.
SetAt(s, i, e) == [s EXCEPT ![i] = e]
SetChk(e, chk) == [e EXCEPT !.chk = chk]
SetSum(e, sum) == [e EXCEPT !.sum = sum]
IsHead(e, sum, chk)     == e = CellOf("magic", sum, chk, {}, 0)
IsBody(e, chk, inc, by) == e = SbBody(chk, inc, by)

LEMMA CellSet ==
  ASSUME NEW s, IsSeq(s), NEW i \in 1..Len(s), NEW e
  PROVE  /\ IsSeq(SetAt(s, i, e)) /\ Len(SetAt(s, i, e)) = Len(s)
         /\ \A k \in 1..Len(s) : SetAt(s, i, e)[k] = IF k = i THEN e ELSE s[k]
<1>. DEFINE n == Len(s)
            t == SetAt(s, i, e)
<1>1. n \in Nat /\ DOMAIN s = 1..n /\ s = [k \in 1..n |-> s[k]]
  BY SeqFacts
<1>. HIDE DEF n
<1>2. t = [k \in 1..n |-> t[k]] /\ \A k \in 1..n : t[k] = IF k = i THEN e ELSE s[k]
  BY <1>1 DEF SetAt
<1>. HIDE DEF t
<1>3. IsSeq(t) /\ Len(t) = n
  BY <1>1, <1>2, FcnIsSeq
<1>. QED
  BY <1>2, <1>3 DEF n, t

LEMMA ChkChanges ==
  ASSUME NEW e, NEW chk, NEW inc, NEW by, NEW v, IsBody(e, chk, inc, by)
  PROVE  IsBody(SetChk(e, v), v, inc, by) /\ e.chk = chk /\ e.tag = "body"
  BY DEF CellOf, SetChk, IsBody, SbBody

LEMMA SumChanges ==
  ASSUME NEW e, NEW sum, NEW chk, NEW v, IsHead(e, sum, chk)
  PROVE  IsHead(SetSum(e, v), v, chk) /\ e.sum = sum /\ e.tag = "magic"
  BY DEF CellOf, SetSum, IsHead

LEMMA BodyFlagged ==
  ASSUME NEW e, NEW inc, NEW by, e = SbBody(FALSE, inc, by)
  PROVE  SetChk(e, TRUE) = SbBody(TRUE, inc, by) /\ ~e.chk /\ e.tag = "body"
<1>1. IsBody(e, FALSE, inc, by)
  BY Zenon DEF IsBody
<1>2. IsBody(SetChk(e, TRUE), TRUE, inc, by) /\ e.chk = FALSE /\ e.tag = "body"
  BY <1>1, ChkChanges, Zenon
<1>. QED
  BY <1>2, Zenon DEF IsBody

LEMMA HeadSummed ==
  ASSUME NEW e, NEW sum, e = SbHead(<<>>)
  PROVE  /\ SetSum(e, sum).sum = sum /\ SetSum(e, sum).tag = "magic" /\ e.tag = "magic"
         /\ SetSum(SetSum(e, sum), <<>>) = e
<1>1. IsHead(e, <<>>, FALSE)
  BY Zenon DEF IsHead, SbHead
<1>2. IsHead(SetSum(e, sum), sum, FALSE)
  BY <1>1, SumChanges, Zenon
<1>3. IsHead(SetSum(SetSum(e, sum), <<>>), <<>>, FALSE)
  BY <1>2, SumChanges, Zenon
<1>. QED
  BY <1>1, <1>2, <1>3, SumChanges, Zenon DEF IsHead

\* What the checksum is taken of.
NoSum(s)  == SetAt(s, 2, SetSum(s[2], <<>>))
Summed(s) == SubSeq(NoSum(s), 1 + 1, BlkSz)

LEMMA VerifiedIs ==
  ASSUME NEW s
  PROVE  Verified(s) <=> s[2].sum = Summed(s)
<1>1. SuperOffset + 1 = 2 /\ SuperOffset + 1 = 1 + 1
  BY SuperBlocks
<1>2. [s EXCEPT ![2].sum = <<>>] = NoSum(s)
  BY Zenon DEF NoSum, SetAt, SetSum
<1>. QED
  BY <1>1, <1>2, Zenon DEF Verified, Summed

LEMMA SummedCells ==
  ASSUME NEW s, IsSeq(s), Len(s) >= BlkSz
  PROVE  /\ IsSeq(NoSum(s)) /\ Len(NoSum(s)) = Len(s)
         /\ \A k \in 1..BlkSz : NoSum(s)[k] = IF k = 2 THEN SetSum(s[2], <<>>) ELSE s[k]
         /\ IsSeq(Summed(s)) /\ Len(Summed(s)) = BlkSz - 1
         /\ \A k \in 1..(BlkSz - 1) : Summed(s)[k] = NoSum(s)[1 + k]
<1>1. BlkSz \in Nat /\ BlkSz >= 6 /\ Len(s) \in Nat /\ 2 \in 1..Len(s)
  BY SuperBlocks, SeqFacts
<1>2. /\ IsSeq(NoSum(s)) /\ Len(NoSum(s)) = Len(s)
      /\ \A k \in 1..Len(s) : NoSum(s)[k] = IF k = 2 THEN SetSum(s[2], <<>>) ELSE s[k]
  BY <1>1, CellSet DEF NoSum
<1>3. \A k \in 1..BlkSz : k \in 1..Len(s)
  BY <1>1
<1>. DEFINE x == NoSum(s)
            y == Dev!Slice(x, 1, BlkSz)
<1>4. Summed(s) = y
  BY DEF Dev!Slice, Summed
<1>5. IsSeq(x) /\ 1 \in Nat /\ BlkSz \in Nat /\ 1 <= BlkSz /\ BlkSz <= Len(x)
  BY <1>1, <1>2
<1>. HIDE DEF x
<1>6. IsSeq(y) /\ Len(y) = BlkSz - 1 /\ \A k \in 1..(BlkSz - 1) : y[k] = x[1 + k]
  BY <1>5, SliceCells
<1>. HIDE DEF y
<1>7. IsSeq(Summed(s)) /\ Len(Summed(s)) = BlkSz - 1 /\ \A k \in 1..(BlkSz - 1) : Summed(s)[k] = x[1 + k]
  BY <1>4, <1>6
<1>8. \A k \in 1..BlkSz : NoSum(s)[k] = IF k = 2 THEN SetSum(s[2], <<>>) ELSE s[k]
  BY <1>2, <1>3
<1>. QED
  BY <1>2, <1>7, <1>8 DEF x

\* The checksum depends on the first block alone.
LEMMA VerifiedAlike ==
  ASSUME NEW f, NEW g, IsSeq(f), IsSeq(g), Len(f) >= BlkSz, Len(g) >= BlkSz,
         \A k \in 1..BlkSz : f[k] = g[k]
  PROVE  Verified(f) <=> Verified(g)
<1>1. BlkSz \in Nat /\ BlkSz >= 6
  BY SuperBlocks
<1>2. f[2] = g[2] /\ 2 \in 1..BlkSz /\ \A k \in 1..(BlkSz - 1) : 1 + k \in 1..BlkSz
  BY <1>1
<1>3. /\ \A k \in 1..BlkSz : NoSum(f)[k] = IF k = 2 THEN SetSum(f[2], <<>>) ELSE f[k]
      /\ IsSeq(Summed(f)) /\ Len(Summed(f)) = BlkSz - 1
      /\ \A k \in 1..(BlkSz - 1) : Summed(f)[k] = NoSum(f)[1 + k]
  BY SummedCells
<1>4. /\ \A k \in 1..BlkSz : NoSum(g)[k] = IF k = 2 THEN SetSum(g[2], <<>>) ELSE g[k]
      /\ IsSeq(Summed(g)) /\ Len(Summed(g)) = BlkSz - 1
      /\ \A k \in 1..(BlkSz - 1) : Summed(g)[k] = NoSum(g)[1 + k]
  BY SummedCells
<1>5. \A k \in 1..BlkSz : NoSum(f)[k] = NoSum(g)[k]
  <2>. TAKE k \in 1..BlkSz
  <2>1. CASE k = 2
    BY <1>2, <1>3, <1>4, <2>1
  <2>2. CASE k # 2
    BY <1>3, <1>4, <2>2
  <2>. QED
    BY <2>1, <2>2
<1>6. \A k \in 1..(BlkSz - 1) : Summed(f)[k] = Summed(g)[k]
  BY <1>2, <1>3, <1>4, <1>5
<1>7. Summed(f) = Summed(g)
  <2>. DEFINE x == Summed(f)
              y == Summed(g)
              n == BlkSz - 1
  <2>1. IsSeq(x) /\ IsSeq(y) /\ Len(x) = n /\ Len(y) = n /\ \A k \in 1..n : x[k] = y[k]
    BY <1>3, <1>4, <1>6
  <2>. HIDE DEF x, y, n
  <2>2. x = y
    BY <2>1, SameSeq
  <2>. QED
    BY <2>2 DEF x, y
<1>. QED
  BY <1>2, <1>7, VerifiedIs

\* What ErofsEnableSbChksum makes of the block it has read.
Flag(b) == SetAt(b, 3, SetChk(b[3], TRUE))

LEMMA WithSumIs ==
  ASSUME NEW b
  PROVE  WithSum(b) = SetAt(Flag(b), 2, SetSum(Flag(b)[2], SubSeq(Flag(b), 1 + 1, BlkSz)))
<1>. DEFINE g == Flag(b)
            sum == SubSeq(g, 1 + 1, BlkSz)
<1>1. SuperOffset + 1 = 2 /\ SuperOffset + 2 = 3 /\ SuperOffset + 1 = 1 + 1
  BY SuperBlocks
<1>2. [b EXCEPT ![3].chk = TRUE] = g
  BY Zenon DEF Flag, SetAt, SetChk
<1>3. [g EXCEPT ![2].sum = sum] = SetAt(g, 2, SetSum(g[2], sum))
  BY Zenon DEF SetAt, SetSum
<1>. QED
  BY <1>1, <1>2, <1>3, Zenon DEF WithSum, SumOf

LEMMA WithSumIsSeq ==
  ASSUME NEW b, IsSeq(b), Len(b) >= BlkSz
  PROVE  IsSeq(WithSum(b)) /\ Len(WithSum(b)) = Len(b)
<1>. DEFINE e == SetChk(b[3], TRUE)
            g == SetAt(b, 3, e)
            h == SetSum(g[2], SubSeq(g, 1 + 1, BlkSz))
<1>1. WithSum(b) = SetAt(g, 2, h)
  BY WithSumIs, Zenon DEF Flag
<1>2. 2 \in 1..Len(b) /\ 3 \in 1..Len(b)
  BY SeqFacts, SuperBlocks
<1>. HIDE DEF e
<1>3. IsSeq(g) /\ Len(g) = Len(b)
  BY <1>2, CellSet
<1>. HIDE DEF g, h
<1>4. IsSeq(SetAt(g, 2, h)) /\ Len(SetAt(g, 2, h)) = Len(g)
  BY <1>2, <1>3, CellSet
<1>. QED
  BY <1>1, <1>3, <1>4

LEMMA SumCells ==
  ASSUME NEW b, IsSeq(b), Len(b) >= BlkSz, b[2] = SbHead(<<>>), b[3] = SbBody(FALSE, feat, run)
  PROVE  Signed(WithSum(b))
<1>. DEFINE g == SetAt(b, 3, SetChk(b[3], TRUE))
            sum == SubSeq(g, 1 + 1, BlkSz)
            h == SetSum(g[2], sum)
            w == SetAt(g, 2, h)
<1>1. Len(b) \in Nat /\ 2 \in 1..Len(b) /\ 3 \in 1..Len(b) /\ 2 # 3
  BY SeqFacts, SuperBlocks
<1>2. WithSum(b) = w
  BY WithSumIs, Zenon DEF Flag
<1>3. /\ IsSeq(g) /\ Len(g) = Len(b)
      /\ \A k \in 1..Len(b) : g[k] = IF k = 3 THEN SetChk(b[3], TRUE) ELSE b[k]
      /\ g[2] = b[2] /\ g[3] = SetChk(b[3], TRUE)
  <2>. DEFINE e == SetChk(b[3], TRUE)
              u == SetAt(b, 3, e)
  <2>. HIDE DEF e
  <2>1. IsSeq(u) /\ Len(u) = Len(b) /\ \A k \in 1..Len(b) : u[k] = IF k = 3 THEN e ELSE b[k]
    BY <1>1, CellSet
  <2>. HIDE DEF u
  <2>2. u[2] = b[2] /\ u[3] = e
    BY <1>1, <2>1
  <2>. QED
    BY <2>1, <2>2 DEF u, e
<1>. HIDE DEF g, sum, h
<1>4. /\ IsSeq(w) /\ Len(w) = Len(b) /\ w[2] = h /\ w[3] = g[3]
      /\ \A k \in 1..Len(g) : w[k] = IF k = 2 THEN h ELSE g[k]
  <2>1. 2 \in 1..Len(g) /\ 3 \in 1..Len(g)
    BY <1>1, <1>3
  <2>2. IsSeq(w) /\ Len(w) = Len(g) /\ \A k \in 1..Len(g) : w[k] = IF k = 2 THEN h ELSE g[k]
    BY <1>3, <2>1, CellSet
  <2>. HIDE DEF w
  <2>. QED
    BY <1>1, <1>3, <2>1, <2>2
<1>5. h.sum = sum /\ h.tag = "magic" /\ SetSum(h, <<>>) = g[2]
  BY <1>3, HeadSummed, Zenon DEF h
<1>6. g[3] = SbBody(TRUE, feat, run)
  <2>1. SetChk(b[3], TRUE) = SbBody(TRUE, feat, run)
    BY BodyFlagged, Zenon
  <2>2. g[3] = SetChk(b[3], TRUE)
    BY <1>3, Zenon
  <2>. QED
    BY <2>1, <2>2, Zenon
<1>7. NoSum(w) = g
  <2>1. NoSum(w) = SetAt(w, 2, g[2])
    BY <1>4, <1>5, Zenon DEF NoSum
  <2>2. /\ IsSeq(SetAt(w, 2, g[2])) /\ Len(SetAt(w, 2, g[2])) = Len(w)
        /\ \A k \in 1..Len(w) : SetAt(w, 2, g[2])[k] = IF k = 2 THEN g[2] ELSE w[k]
    BY <1>1, <1>4, CellSet
  <2>. DEFINE v == SetAt(w, 2, g[2])
  <2>3. IsSeq(v) /\ Len(v) = Len(g) /\ \A k \in 1..Len(v) : v[k] = g[k]
    BY <1>3, <1>4, <2>2
  <2>. HIDE DEF v
  <2>4. v = g
    BY <1>3, <2>3, SameSeq
  <2>. QED
    BY <2>1, <2>4 DEF v
<1>8. Verified(w)
  BY <1>4, <1>5, <1>7, VerifiedIs, Zenon DEF Summed, sum
<1>. QED
  BY <1>2, <1>4, <1>5, <1>6, <1>8, Zenon DEF Signed
----------------------------------------------------------------------------
(***************************************************************************)
(* The device's part: one lemma per step.                                  *)
(***************************************************************************)

LEMMA InitDevice == MkfsInit => DeviceInv
<1>. SUFFICES ASSUME MkfsInit PROVE DeviceInv
  OBVIOUS
<1>1. file \in OldFile /\ io = Dev!Resting /\ alive /\ pc = "balloc"
  BY DEF MkfsInit, Dev!DevInit
<1>2. IsSeq(file) /\ ChecksumRight(file)
  BY <1>1, OldFileAssumption DEF IsSeq
<1>. QED
  BY <1>1, <1>2 DEF DeviceInv, DeviceAt, FlagMeansChecksum

\* Where the device rests and nothing is claimed of the file.
Busy == {"writing", "resize", "read", "reading", "rewriting", "done"}

LEMMA RestKeepsDevice ==
  ASSUME DeviceInv, file' = file, shorts' = shorts, io' = Dev!Resting, pc' \notin Busy,
         pc' # "dead" => alive'
  PROVE  DeviceInv'
<1>1. IsSeq(file') /\ FlagMeansChecksum'
  BY DEF DeviceInv, DeviceAt, FlagMeansChecksum
<1>. QED
  BY <1>1 DEF DeviceInv, DeviceAt, Busy

LEMMA StutterKeepsDevice ==
  ASSUME DeviceInv, UNCHANGED mvars
  PROVE  DeviceInv'
<1>1. /\ file' = file /\ io' = io /\ res' = res /\ alive' = alive /\ pc' = pc /\ run' = run
      /\ shorts' = shorts /\ feat' = feat
  BY DEF mvars, dev, conf
<1>2. /\ SuperBlock' = SuperBlock /\ Plain' = Plain /\ Whole' = Whole
      /\ Signed(file)' = Signed(file) /\ Signed(io.buf)' = Signed(io.buf)
      /\ Writing(SuperEnd, BlkSz)' = Writing(SuperEnd, BlkSz)
      /\ Writing(BlkSz, MaxBlk)' = Writing(BlkSz, MaxBlk)
      /\ ReadingBlock' = ReadingBlock /\ BlockRead' = BlockRead
  BY <1>1 DEF SuperBlock, Plain, Whole, Signed, Writing, AtStart, Locals, ReadingBlock, HoldsFile, BlockRead
<1>3. AtWriting' <=> AtWriting
  BY <1>1, <1>2 DEF AtWriting
<1>4. AtRewriting' <=> AtRewriting
  BY <1>1, <1>2 DEF AtRewriting
<1>5. DeviceAt' <=> DeviceAt
  BY <1>1, <1>2, <1>3, <1>4 DEF DeviceAt
<1>6. FlagMeansChecksum' <=> FlagMeansChecksum
  BY <1>1 DEF FlagMeansChecksum
<1>. QED
  BY <1>5, <1>6 DEF DeviceInv

\* One field of the locals changed.
SetBuf(e, v)  == [e EXCEPT !.buf = v]
SetDone(e, v) == [e EXCEPT !.done = v]
SetPos(e, v)  == [e EXCEPT !.pos = v]

LEMMA LocalsSet ==
  ASSUME NEW fn, NEW len, NEW from, NEW old, NEW buf, NEW pos, NEW want, NEW done, NEW intr,
         NEW b, NEW p, NEW d
  PROVE  SetPos(SetDone(SetBuf(Locals(fn, len, from, old, buf, pos, want, done, intr), b), d), p)
           = Locals(fn, len, from, old, b, p, want, d, intr)
<1>. DEFINE x == Locals(fn, len, from, old, buf, pos, want, done, intr)
            y == Locals(fn, len, from, old, b, pos, want, done, intr)
            z == Locals(fn, len, from, old, b, pos, want, d, intr)
<1>1. SetBuf(x, b) = y
  BY DEF SetBuf, Locals
<1>2. SetDone(y, d) = z
  BY DEF SetDone, Locals
<1>3. SetPos(z, p) = Locals(fn, len, from, old, b, p, want, d, intr)
  BY DEF SetPos, Locals
<1>. HIDE DEF x, y, z
<1>4. SetPos(SetDone(SetBuf(x, b), d), p) = Locals(fn, len, from, old, b, p, want, d, intr)
  BY <1>1, <1>2, <1>3
<1>. QED
  BY <1>4 DEF x

\* The call in progress after n more cells.
LEMMA LocalsMove ==
  ASSUME NEW fn, NEW buf, NEW want, NEW done, NEW v, NEW d, io = AtStart(fn, buf, want, done)
  PROVE  LET r == SetPos(SetDone(SetBuf(io, v), d), d) IN
         /\ r = AtStart(fn, v, want, d)
         /\ r.len = io.len /\ r.from = io.from /\ r.old = io.old /\ r.intr = io.intr
         /\ r.fn = fn /\ r.buf = v /\ r.want = want /\ r.done = d
<1>. DEFINE len == io.len  from == io.from  old == io.old  intr == io.intr
            r == SetPos(SetDone(SetBuf(io, v), d), d)
<1>1. io = Locals(fn, len, from, old, buf, done, want, done, intr)
  BY DEF AtStart
<1>. HIDE DEF len, from, old, intr
<1>2. r = Locals(fn, len, from, old, v, d, want, d, intr)
  BY <1>1, LocalsSet
<1>. HIDE DEF r
<1>3. /\ r.len = len /\ r.from = from /\ r.old = old /\ r.intr = intr
      /\ r.fn = fn /\ r.buf = v /\ r.want = want /\ r.done = d
  BY <1>2 DEF Locals
<1>. QED
  BY <1>2, <1>3 DEF r, len, from, old, intr, AtStart

LEMMA AtStartFields ==
  ASSUME NEW fn, NEW buf, NEW want, NEW done, io = AtStart(fn, buf, want, done)
  PROVE  /\ io.fn = fn /\ io.off = 0 /\ io.buf = buf /\ io.pos = done /\ io.want = want
         /\ io.done = done /\ io.rest = 0 /\ io # Dev!Resting
<1>. DEFINE len == io.len  from == io.from  old == io.old  intr == io.intr
<1>1. io = Locals(fn, len, from, old, buf, done, want, done, intr)
  BY DEF AtStart
<1>. HIDE DEF len, from, old, intr
<1>. QED
  BY <1>1 DEF Locals, Dev!Resting

LEMMA PwriteMoves ==
  ASSUME NEW n, NEW fn, NEW buf, NEW want, NEW done, io = AtStart(fn, buf, want, done)
  PROVE  LET v == Dev!Slice(buf, n, Len(buf)) IN
         Dev!AfterPwrite(n) = SetPos(SetDone(SetBuf(io, v), done + n), done + n)
  BY AtStartFields DEF Dev!AfterPwrite, SetPos, SetDone, SetBuf

LEMMA PreadMoves ==
  ASSUME NEW d, NEW fn, NEW buf, NEW want, NEW done, io = AtStart(fn, buf, want, done)
  PROVE  LET v == Dev!Overlay(buf, done, d) IN
         Dev!AfterPread(d) = SetPos(SetDone(SetBuf(io, v), done + Len(d)), done + Len(d))
  BY AtStartFields DEF Dev!AfterPread, SetPos, SetDone, SetBuf

\* What one step of the loop in ErofsIoPwrite can be: some cells are written, the loop
\* returns, or its slice expression is out of range.
Wrote(want, total) ==
  /\ pc' = pc /\ alive' /\ IsSeq(file') /\ Writing(want, total)' /\ shorts \subseteq shorts'
  /\ run \notin shorts' =>
       /\ io.done = 0 /\ io'.done = want
       /\ Len(file') = (IF Len(file) >= want THEN Len(file) ELSE want)
       /\ \A k \in 1..Len(file') : file'[k] = IF k <= want THEN io.buf[k] ELSE file[k]
WriteReturned(want) ==
  /\ pc' = pc /\ alive' /\ io' = Dev!Resting /\ file' = file /\ shorts' = shorts
  /\ res'.ret = 0 => io.done = want
WritePanicked(want, total) ==
  /\ pc' = "dead" /\ ~alive' /\ io' = Dev!Resting /\ file' = file /\ shorts' = shorts
  /\ run \in shorts \/ want > total
  /\ want + want > total

LEMMA PwriteStep ==
  ASSUME NEW want \in Nat \ {0}, NEW total \in Nat, want <= total,
         DeviceInv, Writing(want, total), Transfer, alive, Dev!PwriteSome
  PROVE  Wrote(want, total)
<1>. DEFINE buf == io.buf  done == io.done
<1>1. /\ io = AtStart("write", buf, want, done) /\ done \in 0..want
      /\ IsSeq(buf) /\ Len(buf) + done = total
      /\ done \notin {0, want} => run \in shorts
  BY DEF Writing
<1>2. /\ io.fn = "write" /\ io.want = want /\ io.pos = done
  BY <1>1, AtStartFields
<1>. DEFINE chunk == Dev!Slice(buf, done, want)
<1>3. PICK n \in 1..Len(chunk) :
        /\ file' = Dev!Put(file, io.pos, Dev!Slice(chunk, 0, n))
        /\ io' = Dev!AfterPwrite(n)
  BY <1>2 DEF Dev!PwriteSome, Dev!Chunk
<1>. DEFINE d == Dev!Slice(chunk, 0, n)
            v == Dev!Slice(buf, n, Len(buf))
<1>4. /\ Dev!PwriteGoesOn /\ done < want /\ want <= Len(buf) /\ alive' = alive
      /\ shorts' = IF Dev!PwriteGoesOn /\ io'.fn = "write" /\ io'.done < io'.want
                   THEN shorts \cup {run} ELSE shorts
      /\ pc' = IF alive' THEN pc ELSE "dead"
      /\ IsSeq(file)
  BY <1>2 DEF Dev!PwriteSome, Dev!PwriteGoesOn, Transfer, DeviceInv, DeviceAt
<1>5. io' = SetPos(SetDone(SetBuf(io, v), done + n), done + n)
  <2>. HIDE DEF buf, done
  <2>. QED
    BY <1>1, <1>3, PwriteMoves
<1>6. /\ io' = AtStart("write", v, want, done + n)
      /\ io'.len = io.len /\ io'.from = io.from /\ io'.old = io.old /\ io'.intr = io.intr
      /\ io'.fn = "write" /\ io'.buf = v /\ io'.want = want /\ io'.done = done + n
  <2>. HIDE DEF buf, done, v
  <2>. QED
    BY <1>1, <1>5, LocalsMove
<1>7. Len(buf) \in Nat /\ done \in Nat /\ want \in Nat
  BY <1>1, SeqFacts
<1>. HIDE DEF buf, done
<1>8. /\ IsSeq(chunk) /\ Len(chunk) = want - done
      /\ \A k \in 1..(want - done) : chunk[k] = buf[done + k]
  BY <1>1, <1>4, <1>7, SliceCells
<1>. HIDE DEF chunk
<1>9. n \in Nat /\ 0 <= n /\ 1 <= n /\ n <= want - done /\ n <= Len(chunk) /\ n <= Len(buf)
  BY <1>4, <1>7, <1>8
<1>10. IsSeq(d) /\ Len(d) = n /\ \A k \in 1..n : d[k] = chunk[k]
  <2>1. IsSeq(chunk) /\ 0 \in Nat /\ n \in Nat /\ 0 <= n /\ n <= Len(chunk)
    BY <1>8, <1>9
  <2>2. /\ IsSeq(d) /\ Len(d) = n - 0 /\ \A k \in 1..(n - 0) : d[k] = chunk[0 + k]
    BY <2>1, SliceCells
  <2>. HIDE DEF d
  <2>. QED
    BY <1>9, <2>2
<1>11. IsSeq(v) /\ Len(v) = Len(buf) - n
  <2>1. IsSeq(buf) /\ n \in Nat /\ Len(buf) \in Nat /\ n <= Len(buf) /\ Len(buf) <= Len(buf)
    BY <1>1, <1>7, <1>9
  <2>. QED
    BY <2>1, SliceCells
<1>. HIDE DEF v, d
<1>12. /\ IsSeq(file')
       /\ Len(file') = (IF Len(file) >= done + n THEN Len(file) ELSE done + n)
       /\ \A i \in 1..Len(file') :
            /\ i \in (done + 1)..(done + n) => file'[i] = d[i - done]
            /\ i \notin (done + 1)..(done + n) /\ i <= Len(file) => file'[i] = file[i]
  <2>1. file' = Dev!Put(file, done, d)
    BY <1>2, <1>3 DEF d
  <2>2. IsSeq(file) /\ IsSeq(d) /\ done \in Nat /\ Len(d) = n /\ n \in Nat
    BY <1>4, <1>7, <1>9, <1>10
  <2>. QED
    BY <2>1, <2>2, PutCells
<1>13. /\ shorts' = IF done + n < want THEN shorts \cup {run} ELSE shorts
       /\ run' = run
  BY <1>4, <1>6 DEF Transfer
<1>14. Writing(want, total)'
  <2>1. done + n \in 0..want /\ Len(v) + (done + n) = total
    BY <1>1, <1>7, <1>9, <1>11
  <2>2. done + n \notin {0, want} => run \in shorts'
    BY <1>7, <1>9, <1>13
  <2>3. io' = Locals("write", io'.len, io'.from, io'.old, io'.buf, io'.done, want, io'.done, io'.intr)
    BY <1>6 DEF AtStart
  <2>. QED
    BY <1>6, <1>11, <1>13, <2>1, <2>2, <2>3 DEF Writing, AtStart, IsSeq
<1>15. ASSUME run \notin shorts'
       PROVE  /\ done = 0 /\ n = want
              /\ Len(file') = (IF Len(file) >= want THEN Len(file) ELSE want)
              /\ \A k \in 1..Len(file') : file'[k] = IF k <= want THEN buf[k] ELSE file[k]
  <2>1. run \notin shorts /\ done = 0 /\ n = want
    BY <1>1, <1>4, <1>7, <1>9, <1>13, <1>15
  <2>2. Len(file) \in Nat
    BY <1>4, SeqFacts
  <2>3. Len(file') = (IF Len(file) >= want THEN Len(file) ELSE want)
    BY <1>7, <1>12, <2>1, <2>2
  <2>4. ASSUME NEW k \in 1..Len(file') PROVE file'[k] = IF k <= want THEN buf[k] ELSE file[k]
    <3>1. CASE k <= want
      <4>1. k \in (done + 1)..(done + n) /\ k - done = k /\ done + k = k /\ k \in 1..(want - done)
        BY <1>7, <2>1, <2>2, <2>3, <3>1
      <4>2. file'[k] = d[k - done] /\ d[k] = chunk[k] /\ chunk[k] = buf[done + k]
        BY <1>8, <1>10, <1>12, <2>1, <4>1
      <4>. QED
        BY <3>1, <4>1, <4>2
    <3>2. CASE ~(k <= want)
      <4>1. k \notin (done + 1)..(done + n) /\ k <= Len(file)
        BY <1>7, <2>1, <2>2, <2>3, <3>2
      <4>. QED
        BY <1>12, <3>2, <4>1
    <3>. QED
      BY <3>1, <3>2
  <2>. QED
    BY <2>1, <2>3, <2>4
<1>16. io'.done = done + n /\ (run \notin shorts' => done + n = want)
  BY <1>6, <1>7, <1>15
<1>. QED
  BY <1>4, <1>12, <1>13, <1>14, <1>15, <1>16 DEF Wrote, buf, done

LEMMA WriteStep ==
  ASSUME NEW want \in Nat \ {0}, NEW total \in Nat, want <= total,
         DeviceInv, Writing(want, total), Transfer, alive
  PROVE  Wrote(want, total) \/ WriteReturned(want) \/ WritePanicked(want, total)
<1>1. /\ io.fn = "write" /\ io.want = want /\ io.rest = 0 /\ io.done \in 0..want
      /\ Len(io.buf) \in Nat /\ Len(io.buf) + io.done = total
      /\ io.done \notin {0, want} => run \in shorts
  BY AtStartFields, SeqFacts DEF Writing
<1>2. /\ Dev!DevStep /\ pc' = IF alive' THEN pc ELSE "dead"
      /\ shorts' = IF Dev!PwriteGoesOn /\ io'.fn = "write" /\ io'.done < io'.want
                   THEN shorts \cup {run} ELSE shorts
  BY DEF Transfer
<1>3. Dev!PwriteSome \/ Dev!PwritePanics \/ Dev!PwriteReturns
  BY <1>1, <1>2 DEF Dev!DevStep, Dev!PreadSome, Dev!PreadReturns, Dev!PreadFails, Dev!IoReadSome,
     Dev!IoReadPanics, Dev!IoReadInterrupted, Dev!IoReadReturns, Dev!IoReadFails, Dev!IoReadGoesOn,
     Dev!During
<1>4. ASSUME io' = Dev!Resting PROVE shorts' = shorts
  BY <1>2, <1>4 DEF Dev!Resting
<1>5. CASE Dev!PwriteReturns
  <2>1. MaxBlk \in Nat
    BY MkfsAssumption
  <2>2. ~(io.rest > MaxBlk)
    BY <1>1, <2>1
  <2>3. Dev!Return(Dev!WriteVerdict, Dev!WriteVerdict # 0, <<>>)
    BY <1>5, <2>2, Zenon DEF Dev!PwriteReturns
  <2>4. /\ io' = Dev!Resting /\ file' = file /\ alive' = alive
        /\ res'.ret = Dev!WriteVerdict
    BY <2>3 DEF Dev!Return
  <2>5. Dev!WriteVerdict = 0 => io.done = want
    BY <1>1 DEF Dev!WriteVerdict, Dev!EIO
  <2>. QED
    BY <1>2, <1>4, <2>4, <2>5 DEF WriteReturned
<1>6. CASE Dev!PwritePanics
  <2>1. io.done < want /\ want > Len(io.buf) /\ ~alive' /\ io' = Dev!Resting /\ file' = file
    BY <1>1, <1>6 DEF Dev!PwritePanics, Dev!PwriteGoesOn, Dev!Panic
  <2>2. (run \in shorts \/ want > total) /\ want + want > total
    BY <1>1, <2>1
  <2>. QED
    BY <1>2, <1>4, <2>1, <2>2 DEF WritePanicked
<1>. QED
  BY <1>3, <1>5, <1>6, PwriteStep

\* Once WriteSuperBlock's superblock is in the file, the flag is gone.
LEMMA PlainIsRight ==
  ASSUME NEW f, NEW inc, NEW by, f[3] = SbBody(FALSE, inc, by)
  PROVE  ChecksumRight(f)
<1>1. ~f[3].chk
  BY BodyFlagged, Zenon
<1>2. SuperOffset + 2 = 3
  BY SuperBlocks
<1>. QED
  BY <1>1, <1>2, Zenon DEF ChecksumRight, Flagged

LEMMA SignedIsRight ==
  ASSUME NEW f, Len(f) = BlkSz, Verified(f)
  PROVE  ChecksumRight(f)
  BY SuperBlocks DEF ChecksumRight

\* A step of a transfer is a step of a call in progress.
LEMMA TransferBusy ==
  ASSUME Transfer
  PROVE  io # Dev!Resting
<1>1. io.fn \in {"write", "fill", "read", "ioread"}
  BY DEF Transfer, Dev!DevStep, Dev!PwriteSome, Dev!PwritePanics, Dev!PwriteReturns, Dev!PwriteGoesOn,
     Dev!PreadSome, Dev!PreadReturns, Dev!PreadFails, Dev!IoReadSome,
     Dev!IoReadPanics, Dev!IoReadInterrupted, Dev!IoReadReturns, Dev!IoReadFails, Dev!IoReadGoesOn,
     Dev!During
<1>. QED
  BY <1>1 DEF Dev!Resting

LEMMA WritingKeepsDevice ==
  ASSUME DeviceInv, Transfer, pc = "writing"
  PROVE  DeviceInv' /\ alive'
<1>1. /\ AtWriting /\ alive /\ IsSeq(file) /\ FlagMeansChecksum
  BY DEF DeviceInv, DeviceAt
<1>2. io # Dev!Resting
  BY TransferBusy
<1>3. /\ Writing(SuperEnd, BlkSz)
      /\ Whole => IF io.done = 0 THEN io.buf = SuperBlock ELSE Plain
  BY <1>1, <1>2 DEF AtWriting
<1>4. SuperEnd = 3 /\ SuperEnd \in Nat \ {0} /\ BlkSz \in Nat /\ SuperEnd <= BlkSz
  BY SuperBlocks
<1>5. /\ UNCHANGED <<feat, run>>
      /\ Wrote(SuperEnd, BlkSz) \/ WriteReturned(SuperEnd) \/ WritePanicked(SuperEnd, BlkSz)
  BY <1>1, <1>3, <1>4, WriteStep DEF Transfer, conf
<1>6. CASE Wrote(SuperEnd, BlkSz)
  <2>1. /\ pc' = "writing" /\ alive' /\ IsSeq(file') /\ Writing(SuperEnd, BlkSz)' /\ shorts \subseteq shorts'
        /\ run \notin shorts' =>
             /\ io.done = 0 /\ io'.done = SuperEnd
             /\ Len(file') = (IF Len(file) >= SuperEnd THEN Len(file) ELSE SuperEnd)
             /\ \A k \in 1..Len(file') : file'[k] = IF k <= SuperEnd THEN io.buf[k] ELSE file[k]
    BY <1>6 DEF Wrote
  <2>2. ASSUME run \notin shorts'
        PROVE  Plain'
    <3>1. io.buf = SuperBlock /\ Len(file') >= 3 /\ Len(file') \in Nat
      BY <1>1, <1>3, <1>4, <2>1, <2>2, SeqFacts DEF Whole
    <3>2. file'[2] = io.buf[2] /\ file'[3] = io.buf[3]
      BY <1>4, <2>1, <2>2, <3>1
    <3>3. file'[2] = SbHead(<<>>) /\ file'[3] = SbBody(FALSE, feat, run)
      BY <3>1, <3>2, SuperBlockCells, Zenon
    <3>. QED
      BY <1>4, <1>5, <3>1, <3>3, Zenon DEF Plain
  <2>3. AtWriting'
    BY <1>4, <1>5, <2>1, <2>2 DEF AtWriting, Whole
  <2>4. FlagMeansChecksum'
    <3>1. ASSUME shorts' = {} PROVE ChecksumRight(file')
      <4>1. file'[3] = SbBody(FALSE, feat', run')
        BY <2>2, <3>1, Zenon DEF Plain
      <4>. QED
        BY <4>1, PlainIsRight, Zenon
    <3>. QED
      BY <3>1 DEF FlagMeansChecksum
  <2>. QED
    BY <2>1, <2>3, <2>4 DEF DeviceInv, DeviceAt
<1>7. CASE WriteReturned(SuperEnd)
  <2>1. /\ pc' = "writing" /\ alive' /\ io' = Dev!Resting /\ file' = file /\ shorts' = shorts
        /\ res'.ret = 0 => io.done = SuperEnd
    BY <1>7 DEF WriteReturned
  <2>2. Plain' = Plain /\ Whole' = Whole
    BY <1>5, <2>1 DEF Plain, Whole
  <2>3. AtWriting'
    BY <1>3, <1>4, <2>1, <2>2 DEF AtWriting
  <2>. QED
    BY <1>1, <2>1, <2>3 DEF DeviceInv, DeviceAt, FlagMeansChecksum
<1>8. CASE WritePanicked(SuperEnd, BlkSz)
  <2>1. ~(SuperEnd + SuperEnd > BlkSz)
    BY SuperBlocks
  <2>. QED
    BY <1>8, <2>1 DEF WritePanicked
<1>. QED
  BY <1>5, <1>6, <1>7, <1>8

LEMMA BlockSizes == BlkSz \in Nat \ {0} /\ BlkSz >= 6 /\ MaxBlk \in Nat /\ BlkSz <= MaxBlk /\ SuperEnd = 3
  BY SuperBlocks, MkfsAssumption

LEMMA RewritingKeepsDevice ==
  ASSUME DeviceInv, Transfer, pc = "rewriting"
  PROVE  DeviceInv' /\ (alive' \/ run \in shorts)
<1>1. AtRewriting /\ alive /\ IsSeq(file) /\ FlagMeansChecksum /\ io # Dev!Resting
  BY TransferBusy DEF DeviceInv, DeviceAt
<1>2. /\ Writing(BlkSz, MaxBlk)
      /\ Whole => Len(file) = BlkSz /\ IF io.done = 0 THEN Signed(io.buf) ELSE Signed(file)
  BY <1>1 DEF AtRewriting
<1>3. /\ UNCHANGED <<feat, run>>
      /\ Wrote(BlkSz, MaxBlk) \/ WriteReturned(BlkSz) \/ WritePanicked(BlkSz, MaxBlk)
  BY <1>1, <1>2, BlockSizes, WriteStep DEF Transfer, conf
<1>4. CASE Wrote(BlkSz, MaxBlk)
  <2>1. /\ pc' = "rewriting" /\ alive' /\ IsSeq(file') /\ Writing(BlkSz, MaxBlk)' /\ shorts \subseteq shorts'
        /\ run \notin shorts' =>
             /\ io.done = 0 /\ io'.done = BlkSz
             /\ Len(file') = (IF Len(file) >= BlkSz THEN Len(file) ELSE BlkSz)
             /\ \A k \in 1..Len(file') : file'[k] = IF k <= BlkSz THEN io.buf[k] ELSE file[k]
    BY <1>4 DEF Wrote
  <2>2. ASSUME run \notin shorts'
        PROVE  Len(file') = BlkSz /\ Verified(file') /\ Signed(file)'
    <3>1. /\ Signed(io.buf) /\ Len(file) = BlkSz /\ Len(file') = BlkSz
          /\ \A k \in 1..BlkSz : file'[k] = io.buf[k]
      BY <1>2, <2>1, <2>2, BlockSizes DEF Whole
    <3>2. file'[2] = io.buf[2] /\ file'[3] = io.buf[3]
      BY <3>1, BlockSizes
    <3>3. IsSeq(io.buf) /\ Len(io.buf) >= BlkSz
      BY <1>2, <2>1, <2>2, BlockSizes, SeqFacts DEF Writing
    <3>4. Verified(file') <=> Verified(io.buf)
      <4>. DEFINE f == file'
                  g == io.buf
      <4>1. /\ IsSeq(f) /\ IsSeq(g) /\ Len(f) >= BlkSz /\ Len(g) >= BlkSz
            /\ \A k \in 1..BlkSz : f[k] = g[k]
        BY <2>1, <3>1, <3>3, BlockSizes
      <4>. HIDE DEF f, g
      <4>2. Verified(f) <=> Verified(g)
        BY <4>1, VerifiedAlike
      <4>. QED
        BY <4>2 DEF f, g
    <3>5. file'[2].tag = "magic" /\ file'[3] = SbBody(TRUE, feat', run') /\ Verified(file')
      BY <1>3, <3>1, <3>2, <3>4, Zenon DEF Signed
    <3>. QED
      BY <3>1, <3>5, Zenon DEF Signed
  <2>3. AtRewriting'
    BY <1>3, <2>1, <2>2, BlockSizes DEF AtRewriting, Whole
  <2>4. FlagMeansChecksum'
    BY <2>2, SignedIsRight DEF FlagMeansChecksum
  <2>. QED
    BY <2>1, <2>3, <2>4 DEF DeviceInv, DeviceAt
<1>5. CASE WriteReturned(BlkSz)
  <2>1. /\ pc' = "rewriting" /\ alive' /\ io' = Dev!Resting /\ file' = file /\ shorts' = shorts
        /\ res'.ret = 0 => io.done = BlkSz
    BY <1>5 DEF WriteReturned
  <2>2. Signed(file)' = Signed(file) /\ Whole' = Whole
    BY <1>3, <2>1 DEF Signed, Whole
  <2>3. AtRewriting'
    BY <1>2, <2>1, <2>2, BlockSizes DEF AtRewriting
  <2>. QED
    BY <1>1, <2>1, <2>3 DEF DeviceInv, DeviceAt, FlagMeansChecksum
<1>6. CASE WritePanicked(BlkSz, MaxBlk)
  <2>1. run \in shorts
    BY <1>6, BlockSizes DEF WritePanicked
  <2>. QED
    BY <1>6, <2>1, RestKeepsDevice DEF WritePanicked, Busy
<1>. QED
  BY <1>3, <1>4, <1>5, <1>6

LEMMA PreadStep ==
  ASSUME DeviceInv, ReadingBlock, Transfer, Dev!PreadSome
  PROVE  ReadingBlock' /\ UNCHANGED <<file, shorts, alive>>
<1>. DEFINE buf == io.buf  done == io.done
<1>1. /\ io = AtStart("read", buf, BlkSz, done) /\ done \in 0..MaxBlk /\ HoldsFile(buf, done)
      /\ IsSeq(file)
  BY DEF ReadingBlock, DeviceInv, DeviceAt
<1>2. io.fn = "read" /\ io.pos = done
  BY <1>1, AtStartFields
<1>3. Len(file) \in Nat /\ MaxBlk \in Nat /\ done \in Nat
  BY <1>1, BlockSizes, SeqFacts
<1>. DEFINE top   == Dev!Least(Len(file), done + (Len(buf) - done))
            there == Dev!Slice(file, done, top)
<1>4. /\ UNCHANGED <<file, shorts, alive>>
      /\ \E n \in 1..Len(there) : io' = Dev!AfterPread(Dev!Slice(there, 0, n))
  <2>1. ~Dev!PwriteGoesOn
    BY <1>2 DEF Dev!PwriteGoesOn, Dev!During
  <2>2. shorts' = shorts
    BY <2>1 DEF Transfer
  <2>. QED
    BY <1>2, <2>2 DEF Dev!PreadSome, Dev!Available
<1>5. PICK n \in 1..Len(there) : io' = Dev!AfterPread(Dev!Slice(there, 0, n))
  BY <1>4
<1>. DEFINE d == Dev!Slice(there, 0, n)
            v == Dev!Overlay(buf, done, d)
<1>6. io' = SetPos(SetDone(SetBuf(io, v), done + Len(d)), done + Len(d))
  <2>. HIDE DEF buf, done, d
  <2>1. io' = Dev!AfterPread(d)
    BY <1>5 DEF d
  <2>. QED
    BY <1>1, <2>1, PreadMoves
<1>7. /\ io' = AtStart("read", v, BlkSz, done + Len(d))
      /\ io'.len = io.len /\ io'.from = io.from /\ io'.old = io.old /\ io'.intr = io.intr
      /\ io'.fn = "read" /\ io'.buf = v /\ io'.want = BlkSz /\ io'.done = done + Len(d)
  <2>. HIDE DEF buf, done, d, v
  <2>. QED
    BY <1>1, <1>6, LocalsMove
<1>. HIDE DEF buf, done
<1>8. /\ top \in Nat /\ done <= top /\ top <= Len(file) /\ top <= MaxBlk
  <2>1. done = 0 \/ (done \in 1..MaxBlk /\ done <= done)
    BY <1>1, <1>3
  <2>2. done <= Len(file)
    BY <1>1, <1>3, <2>1 DEF HoldsFile
  <2>3. top = IF Len(file) <= MaxBlk THEN Len(file) ELSE MaxBlk
    <3>1. done + (MaxBlk - done) = MaxBlk
      BY <1>3
    <3>. QED
      BY <1>1, <3>1 DEF Dev!Least, HoldsFile
  <2>4. done <= MaxBlk
    BY <1>1, <1>3
  <2>. HIDE DEF top
  <2>. QED
    BY <1>3, <2>2, <2>3, <2>4
<1>. HIDE DEF top
<1>9. IsSeq(there) /\ Len(there) = top - done /\ \A k \in 1..(top - done) : there[k] = file[done + k]
  BY <1>1, <1>3, <1>8, SliceCells
<1>. HIDE DEF there
<1>10. n \in Nat /\ 0 <= n /\ n <= Len(there) /\ n <= top - done /\ done + n <= top
  BY <1>3, <1>8, <1>9
<1>11. IsSeq(d) /\ Len(d) = n /\ \A k \in 1..n : d[k] = there[k]
  <2>1. IsSeq(there) /\ 0 \in Nat /\ n \in Nat /\ 0 <= n /\ n <= Len(there)
    BY <1>9, <1>10
  <2>2. IsSeq(d) /\ Len(d) = n - 0 /\ \A k \in 1..(n - 0) : d[k] = there[0 + k]
    BY <2>1, SliceCells
  <2>. HIDE DEF d
  <2>. QED
    BY <1>10, <2>2
<1>. HIDE DEF d
<1>12. IsSeq(buf) /\ Len(buf) = MaxBlk /\ done + Len(d) <= Len(buf) /\ done + Len(d) = done + n
  BY <1>1, <1>3, <1>8, <1>10, <1>11 DEF HoldsFile
<1>13. /\ IsSeq(v) /\ Len(v) = MaxBlk
       /\ \A k \in 1..MaxBlk : v[k] = IF k \in (done + 1)..(done + n) THEN d[k - done] ELSE buf[k]
  <2>1. /\ IsSeq(v) /\ Len(v) = Len(buf)
        /\ \A k \in 1..Len(buf) :
             v[k] = IF k \in (done + 1)..(done + Len(d)) THEN d[k - done] ELSE buf[k]
    BY <1>3, <1>11, <1>12, OverlayCells
  <2>. HIDE DEF v
  <2>. QED
    BY <1>12, <2>1
<1>. HIDE DEF v
<1>14. ASSUME NEW k \in 1..MaxBlk
       PROVE  IF k <= done + n THEN k <= Len(file) /\ v[k] = file[k] ELSE v[k] = JunkCell
  <2>1. CASE k <= done
    <3>1. k \notin (done + 1)..(done + n) /\ k <= done + n
      BY <1>3, <1>10, <2>1
    <3>. QED
      BY <1>1, <1>13, <2>1, <3>1 DEF HoldsFile
  <2>2. CASE k > done /\ k <= done + n
    <3>1. k \in (done + 1)..(done + n) /\ k - done \in 1..n /\ k - done \in 1..(top - done)
          /\ done + (k - done) = k /\ k <= Len(file)
      BY <1>3, <1>8, <1>10, <2>2
    <3>2. v[k] = d[k - done] /\ d[k - done] = there[k - done] /\ there[k - done] = file[done + (k - done)]
      BY <1>9, <1>11, <1>13, <3>1
    <3>. QED
      BY <2>2, <3>1, <3>2
  <2>3. CASE k > done + n
    <3>1. k \notin (done + 1)..(done + n) /\ ~(k <= done + n) /\ ~(k <= done)
      BY <1>3, <1>10, <2>3
    <3>. QED
      BY <1>1, <1>13, <3>1 DEF HoldsFile
  <2>. QED
    BY <1>3, <1>10, <2>1, <2>2, <2>3
<1>15. done + n \in 0..MaxBlk
  BY <1>3, <1>8, <1>10
<1>16. io' = Locals("read", io'.len, io'.from, io'.old, io'.buf, io'.done, BlkSz, io'.done, io'.intr)
  BY <1>7 DEF AtStart
<1>17. io'.fn = "read" /\ io'.buf = v /\ io'.done = done + n
  BY <1>7, <1>12
<1>18. (io = AtStart("read", io.buf, BlkSz, io.done))'
  BY <1>16 DEF AtStart
<1>. QED
  BY <1>4, <1>13, <1>14, <1>15, <1>17, <1>18 DEF ReadingBlock, HoldsFile, JunkCell, IsSeq

LEMMA ReadingKeepsDevice ==
  ASSUME DeviceInv, Transfer, pc = "reading"
  PROVE  DeviceInv' /\ alive'
<1>. DEFINE buf == io.buf  done == io.done
<1>1. /\ ReadingBlock /\ alive /\ IsSeq(file) /\ FlagMeansChecksum /\ pc' = IF alive' THEN pc ELSE "dead"
      /\ Whole => Plain /\ Len(file) = BlkSz
      /\ UNCHANGED <<feat, run>>
  BY TransferBusy DEF DeviceInv, DeviceAt, BlockRead, Transfer, conf
<1>2. /\ io = AtStart("read", buf, BlkSz, done) /\ done \in 0..MaxBlk /\ HoldsFile(buf, done)
  BY <1>1 DEF ReadingBlock
<1>3. /\ io.fn = "read" /\ io.pos = done /\ io.want = BlkSz
  BY <1>2, AtStartFields
<1>4. /\ IsSeq(buf) /\ Len(buf) = MaxBlk /\ done \in Nat
      /\ BlkSz \in Nat /\ MaxBlk \in Nat /\ BlkSz <= MaxBlk /\ 2 \in 1..MaxBlk
  BY <1>2, BlockSizes DEF HoldsFile
<1>5. shorts' = shorts
  <2>1. ~Dev!PwriteGoesOn
    BY <1>3 DEF Dev!PwriteGoesOn, Dev!During
  <2>. QED
    BY <2>1 DEF Transfer
<1>6. Dev!PreadSome \/ Dev!PreadReturns \/ Dev!PreadFails
  <2>1. Dev!DevStep
    BY DEF Transfer
  <2>. QED
    BY <1>3, <2>1 DEF Dev!DevStep, Dev!PwriteSome, Dev!PwritePanics, Dev!PwriteReturns, Dev!IoReadSome,
      Dev!IoReadPanics, Dev!IoReadInterrupted, Dev!IoReadReturns, Dev!IoReadFails, Dev!IoReadGoesOn,
      Dev!PwriteGoesOn, Dev!During
\* What is enough: the file and its claims stay, and the read goes on or ends well.
<1>7. ASSUME file' = file, alive' = alive, ReadingBlock' \/ BlockRead'
      PROVE  DeviceInv' /\ alive'
  <2>1. Plain' = Plain /\ Whole' = Whole
    BY <1>1, <1>5, <1>7 DEF Plain, Whole
  <2>2. pc' = "reading" /\ alive'
    BY <1>1, <1>7
  <2>3. DeviceAt'
    BY <1>1, <1>7, <2>1, <2>2 DEF DeviceAt
  <2>. QED
    BY <1>1, <1>5, <1>7, <2>2, <2>3 DEF DeviceInv, FlagMeansChecksum
<1>8. CASE Dev!PreadSome
  BY <1>1, <1>7, <1>8, PreadStep
<1>9. CASE Dev!PreadReturns
  <2>1. ~(io.want > Len(io.buf))
    BY <1>3, <1>4
  <2>2. Dev!Return(0, FALSE, Dev!Padded)
    BY <1>9, <2>1, Zenon DEF Dev!PreadReturns
  <2>3. /\ io' = Dev!Resting /\ file' = file /\ alive' = alive
        /\ res'.ret = 0 /\ res'.out = Dev!Padded
    BY <2>2 DEF Dev!Return
  <2>4. /\ IsSeq(Dev!Padded) /\ Len(Dev!Padded) = MaxBlk
        /\ done >= BlkSz => Dev!Padded = buf
    <3>1. CASE done >= BlkSz
      <4>1. Dev!Padded = buf
        BY <1>3, <1>4, <3>1 DEF Dev!Padded
      <4>. QED
        BY <1>4, <4>1
    <3>2. CASE ~(done >= BlkSz)
      <4>. DEFINE z == Dev!Zeros(io.want - io.done)
      <4>1. IsSeq(z) /\ Len(z) = BlkSz - done
        <5>. DEFINE m == BlkSz - done
        <5>1. m \in Nat /\ z = [i \in 1..m |-> Zero]
          BY <1>3, <1>4, <3>2 DEF Dev!Zeros
        <5>. HIDE DEF z, m
        <5>2. z = [i \in 1..m |-> z[i]]
          BY <5>1
        <5>3. IsSeq(z) /\ Len(z) = m
          BY <5>1, <5>2, FcnIsSeq
        <5>. QED
          BY <5>3 DEF m
      <4>2. Dev!Padded = Dev!Overlay(buf, done, z)
        BY <1>3, <1>4, <3>2 DEF Dev!Padded
      <4>. HIDE DEF z, buf, done
      <4>3. done + Len(z) <= Len(buf)
        BY <1>4, <3>2, <4>1
      <4>4. IsSeq(Dev!Overlay(buf, done, z)) /\ Len(Dev!Overlay(buf, done, z)) = Len(buf)
        BY <1>4, <4>1, <4>3, OverlayCells
      <4>. QED
        BY <1>4, <3>2, <4>2, <4>4
    <3>. QED
      BY <3>1, <3>2
  <2>5. ASSUME Whole PROVE done >= BlkSz
    <3>. DEFINE top == Dev!Least(Len(file), done + (Len(buf) - done))
                c   == Dev!Slice(file, done, top)
    <3>1. SUFFICES ASSUME ~(done >= BlkSz) PROVE FALSE
      OBVIOUS
    <3>2. c = <<>>
      BY <1>3, <1>4, <1>9, <3>1 DEF Dev!PreadReturns, Dev!Available
    <3>3. top = BlkSz
      <4>1. Len(file) = BlkSz /\ done + (MaxBlk - done) = MaxBlk
        BY <1>1, <1>4, <2>5
      <4>. QED
        BY <1>4, <4>1 DEF Dev!Least
    <3>4. Len(file) = BlkSz /\ done <= BlkSz /\ BlkSz <= Len(file)
      BY <1>1, <1>4, <2>5, <3>1
    <3>. HIDE DEF buf, done, top
    <3>5. Len(c) = BlkSz - done
      BY <1>1, <1>4, <3>3, <3>4, SliceCells
    <3>. HIDE DEF c
    <3>. QED
      BY <1>4, <3>1, <3>2, <3>5
  <2>6. ASSUME Whole
        PROVE  \A k \in 1..BlkSz : Dev!Padded[k] = file[k]
    <3>1. done >= BlkSz /\ Dev!Padded = buf
      BY <2>4, <2>5, <2>6
    <3>. HIDE DEF buf, done
    <3>2. \A k \in 1..BlkSz : k \in 1..MaxBlk /\ k <= done
      BY <1>4, <3>1
    <3>3. \A k \in 1..BlkSz : buf[k] = file[k]
      BY <1>2, <3>2 DEF HoldsFile
    <3>. QED
      BY <3>1, <3>3
  <2>7. BlockRead'
    BY <1>1, <1>5, <2>3, <2>4, <2>6 DEF BlockRead, Whole, IsSeq
  <2>. QED
    BY <1>7, <2>3, <2>7
<1>10. CASE Dev!PreadFails
  <2>1. Dev!Return(io.done, TRUE, io.buf)
    BY <1>10 DEF Dev!PreadFails
  <2>2. /\ io' = Dev!Resting /\ file' = file /\ alive' = alive
        /\ res'.ret = done /\ res'.out = buf
    BY <2>1 DEF Dev!Return
  <2>3. res'.ret = 0 => res'.out[2].tag # "magic"
    <3>1. done = 0 => buf[2] = JunkCell
      BY <1>2, <1>4 DEF HoldsFile
    <3>2. JunkCell.tag = "junk"
      BY DEF JunkCell, CellOf
    <3>. QED
      BY <2>2, <3>1, <3>2
  <2>4. BlockRead'
    BY <1>4, <2>2, <2>3 DEF BlockRead, IsSeq
  <2>. QED
    BY <1>7, <2>2, <2>4
<1>. QED
  BY <1>6, <1>8, <1>9, <1>10

\* A write of want cells begins at the start of the file.
LEMMA BeginsToWrite ==
  ASSUME NEW buf, NEW want \in Nat, NEW total \in Nat, IsSeq(buf), Len(buf) = total,
         Dev!DevWrite(buf, 0, want)
  PROVE  /\ Writing(want, total)' /\ io'.done = 0 /\ io'.buf = buf
         /\ UNCHANGED <<file, alive>>
<1>1. /\ io' = [fn |-> "write", off |-> 0, len |-> want, from |-> buf, old |-> file, buf |-> buf,
                pos |-> 0, want |-> want, done |-> 0, rest |-> 0, intr |-> FALSE]
      /\ UNCHANGED <<file, alive>>
  BY DEF Dev!DevWrite, Dev!Begin
<1>2. /\ io' = Locals("write", io'.len, io'.from, io'.old, io'.buf, io'.done, want, io'.done, io'.intr)
      /\ io'.done = 0 /\ io'.buf = buf
  BY <1>1 DEF Locals
<1>3. 0 \in 0..want /\ Len(buf) + 0 = total
  <2>1. Len(buf) \in Nat
    OBVIOUS
  <2>. QED
    BY <2>1
<1>. QED
  BY <1>1, <1>2, <1>3 DEF Writing, AtStart, IsSeq

LEMMA WriteSbKeepsDevice ==
  ASSUME DeviceInv, ManagerInv, WriteSb
  PROVE  DeviceInv' /\ alive'
<1>1. pc = "write" /\ alive /\ IsSeq(file) /\ FlagMeansChecksum
  BY DEF WriteSb, DeviceInv, DeviceAt
<1>2. BhTell(SbBh) = 0
  BY <1>1, ToldAtZero DEF ManagerInv, ManagerAt, Held
<1>3. /\ pc' = "writing" /\ Dev!DevWrite(SuperBlock, 0, SuperEnd) /\ UNCHANGED <<feat, run, shorts>>
  BY <1>2 DEF WriteSb, conf, Own
<1>4. IsSeq(SuperBlock) /\ Len(SuperBlock) = BlkSz /\ BlkSz \in Nat /\ SuperEnd \in Nat
  BY SuperBlockCells, SuperBlocks
<1>5. SuperBlock' = SuperBlock
  BY <1>3 DEF SuperBlock
<1>6. Writing(SuperEnd, BlkSz)' /\ io'.done = 0 /\ io'.buf = SuperBlock /\ UNCHANGED <<file, alive>>
  <2>. DEFINE x == SuperBlock
  <2>1. IsSeq(x) /\ Len(x) = BlkSz /\ Dev!DevWrite(x, 0, SuperEnd)
    BY <1>3, <1>4
  <2>. HIDE DEF x
  <2>2. Writing(SuperEnd, BlkSz)' /\ io'.done = 0 /\ io'.buf = x /\ UNCHANGED <<file, alive>>
    BY <1>4, <2>1, BeginsToWrite
  <2>. QED
    BY <2>2 DEF x
<1>7. AtWriting'
  BY <1>5, <1>6 DEF AtWriting
<1>. QED
  BY <1>1, <1>3, <1>6, <1>7 DEF DeviceInv, DeviceAt, FlagMeansChecksum

LEMMA DropSbKeepsDevice ==
  ASSUME DeviceInv, DropSb
  PROVE  DeviceInv' /\ alive'
<1>1. /\ pc = "writing" /\ io = Dev!Resting /\ pc' = AfterWrite
      /\ UNCHANGED <<file, io, res, alive, feat, run, shorts>>
  BY DEF DropSb, Calling, dev, conf
<1>2. alive /\ AtWriting /\ IsSeq(file) /\ FlagMeansChecksum
  BY <1>1 DEF DeviceInv, DeviceAt
<1>3. ~Writing(SuperEnd, BlkSz)
  BY <1>1, AtStartFields DEF Writing
<1>4. Whole /\ res.ret = 0 => Plain
  BY <1>2, <1>3 DEF AtWriting
<1>5. Plain' = Plain /\ Whole' = Whole
  BY <1>1 DEF Plain, Whole
<1>6. FlagMeansChecksum'
  BY <1>1, <1>2 DEF FlagMeansChecksum
<1>. QED
  BY <1>1, <1>2, <1>4, <1>5, <1>6 DEF AfterWrite, DeviceInv, DeviceAt

LEMMA ResizeKeepsDevice ==
  ASSUME DeviceInv, ManagerInv, Resize
  PROVE  DeviceInv' /\ alive'
<1>1. pc = "resize" /\ alive /\ IsSeq(file) /\ FlagMeansChecksum /\ io = Dev!Resting /\ (Whole => Plain)
  BY DEF Resize, DeviceInv, DeviceAt
<1>2. nblocks = 1
  BY <1>1 DEF ManagerInv, ManagerAt
<1>3. nblocks * BlkSz = BlkSz /\ BlkSz \in Nat /\ BlkSz >= 6
  BY <1>2, BlockSizes
<1>4. /\ Dev!DevResize(nblocks) /\ pc' = IF res'.ret = 0 THEN "read" ELSE "exit"
      /\ UNCHANGED <<feat, run, shorts>>
  BY DEF Resize, conf, Own
<1>5. PICK ok \in BOOLEAN :
        /\ file' = IF ok THEN Dev!Resized(file, nblocks * BlkSz) ELSE file
        /\ res' = [fn |-> "resize", off |-> 0, len |-> nblocks * BlkSz, from |-> <<>>,
                   old |-> file, intr |-> FALSE, ret |-> IF ok THEN 0 ELSE -1, err |-> ~ok,
                   out |-> <<>>]
  BY <1>4 DEF Dev!DevResize
<1>6. io' = Dev!Resting /\ alive' /\ res'.ret = IF ok THEN 0 ELSE -1
  <2>1. UNCHANGED <<io, alive>>
    BY <1>4 DEF Dev!DevResize
  <2>. QED
    BY <1>1, <1>5, <2>1
<1>7. CASE ok
  <2>1. file' = Dev!Resized(file, BlkSz) /\ pc' = "read"
    BY <1>3, <1>4, <1>5, <1>6, <1>7
  <2>2. IsSeq(file') /\ Len(file') = BlkSz /\ \A i \in 1..BlkSz : i <= Len(file) => file'[i] = file[i]
    BY <1>1, <1>3, <2>1, ResizedCells
  <2>3. ASSUME Whole PROVE Plain'
    <3>1. Len(file) >= 3 /\ Len(file) \in Nat
      BY <1>1, <2>3, SuperBlocks, SeqFacts DEF Plain
    <3>2. file'[2] = file[2] /\ file'[3] = file[3] /\ Len(file') >= SuperEnd
      BY <1>3, <2>2, <3>1, SuperBlocks
    <3>3. file'[2] = SbHead(<<>>) /\ file'[3] = SbBody(FALSE, feat', run')
      BY <1>1, <1>4, <2>3, <3>2, Zenon DEF Plain
    <3>. QED
      BY <3>2, <3>3, Zenon DEF Plain
  <2>4. ASSUME shorts' = {} PROVE ChecksumRight(file')
    <3>1. file'[3] = SbBody(FALSE, feat', run')
      <4>1. Whole
        BY <1>4, <2>4 DEF Whole
      <4>. QED
        BY <2>3, <4>1, Zenon DEF Plain
    <3>. QED
      BY <3>1, PlainIsRight, Zenon
  <2>5. Whole' = Whole
    BY <1>4 DEF Whole
  <2>6. DeviceAt'
    BY <1>6, <2>1, <2>2, <2>3, <2>5 DEF DeviceAt
  <2>7. FlagMeansChecksum'
    BY <2>4 DEF FlagMeansChecksum
  <2>. QED
    BY <1>6, <2>6, <2>7 DEF DeviceInv
<1>8. CASE ~ok
  <2>1. file' = file /\ pc' = "exit"
    BY <1>4, <1>5, <1>6, <1>8
  <2>. QED
    BY <1>4, <1>6, <2>1, RestKeepsDevice DEF Busy
<1>. QED
  BY <1>7, <1>8

LEMMA ReadSbKeepsDevice ==
  ASSUME DeviceInv, ReadSb
  PROVE  DeviceInv' /\ alive'
<1>1. /\ pc = "read" /\ alive /\ IsSeq(file) /\ FlagMeansChecksum
      /\ Whole => Plain /\ Len(file) = BlkSz
  BY DEF ReadSb, DeviceInv, DeviceAt
<1>2. (SuperEnd \div BlkSz + 1) * BlkSz = BlkSz
  <2>1. SuperEnd \div BlkSz = 0
    <3>1. 3 = BlkSz * 0 + 3 /\ 3 \in 0..(BlkSz - 1) /\ BlkSz \in Nat \ {0} /\ SuperEnd = 3
      BY BlockSizes
    <3>. QED
      BY <3>1
  <2>. QED
    BY <2>1, BlockSizes
<1>3. pc' = "reading" /\ Dev!BlkRead(0, BlkSz) /\ UNCHANGED <<feat, run, shorts>>
  BY <1>2 DEF ReadSb, conf, Own
<1>4. /\ io' = [fn |-> "read", off |-> 0, len |-> BlkSz, from |-> <<>>, old |-> file, buf |-> Dev!NewBuf,
                pos |-> 0, want |-> BlkSz, done |-> 0, rest |-> 0, intr |-> FALSE]
      /\ UNCHANGED <<file, alive>>
  BY <1>3 DEF Dev!BlkRead, Dev!Begin
<1>5. /\ io' = Locals("read", io'.len, io'.from, io'.old, io'.buf, io'.done, BlkSz, io'.done, io'.intr)
      /\ io'.fn = "read" /\ io'.done = 0 /\ io'.buf = Dev!NewBuf
  BY <1>4 DEF Locals
<1>6. /\ IsSeq(Dev!NewBuf) /\ Len(Dev!NewBuf) = MaxBlk
      /\ \A k \in 1..MaxBlk : Dev!NewBuf[k] = JunkCell
  <2>. DEFINE b == Dev!NewBuf
  <2>1. b = [k \in 1..MaxBlk |-> JunkCell] /\ MaxBlk \in Nat
    BY BlockSizes DEF Dev!NewBuf, JunkCell
  <2>. HIDE DEF b
  <2>2. b = [k \in 1..MaxBlk |-> b[k]] /\ \A k \in 1..MaxBlk : b[k] = JunkCell
    BY <2>1
  <2>3. IsSeq(b) /\ Len(b) = MaxBlk
    BY <2>1, <2>2, FcnIsSeq
  <2>. QED
    BY <2>2, <2>3 DEF b
<1>7. 0 \in 0..MaxBlk /\ \A k \in 1..MaxBlk : ~(k <= 0)
  BY BlockSizes
<1>8. ReadingBlock'
  BY <1>5, <1>6, <1>7 DEF ReadingBlock, HoldsFile, AtStart, IsSeq, JunkCell
<1>9. Plain' = Plain /\ Whole' = Whole
  BY <1>3, <1>4 DEF Plain, Whole
<1>10. DeviceAt'
  BY <1>1, <1>3, <1>4, <1>8, <1>9 DEF DeviceAt
<1>. QED
  BY <1>1, <1>3, <1>4, <1>10 DEF DeviceInv, FlagMeansChecksum

LEMMA CheckSbKeepsDevice ==
  ASSUME DeviceInv, CheckSb
  PROVE  DeviceInv' /\ alive'
<1>1. /\ pc = "reading" /\ alive /\ IsSeq(file) /\ FlagMeansChecksum /\ io = Dev!Resting
      /\ Whole => Plain /\ Len(file) = BlkSz
      /\ UNCHANGED <<feat, run, shorts>>
  BY DEF CheckSb, DeviceInv, DeviceAt, conf, Own
<1>2. BlockRead
  BY <1>1, AtStartFields DEF DeviceInv, DeviceAt, ReadingBlock
<1>3. CASE pc' = "exit" /\ UNCHANGED dev
  BY <1>1, <1>3, RestKeepsDevice DEF dev, Busy
<1>4. CASE /\ res.ret = 0 /\ res.out[2].tag = "magic"
           /\ pc' = "rewriting" /\ Dev!DevWrite(WithSum(res.out), 0, BlkSz)
  <2>. DEFINE b == res.out
              w == WithSum(b)
  <2>1. IsSeq(b) /\ Len(b) = MaxBlk /\ (Whole => \A k \in 1..BlkSz : b[k] = file[k])
    BY <1>2, <1>4 DEF BlockRead
  <2>2. IsSeq(w) /\ Len(w) = MaxBlk
    <3>. HIDE DEF b
    <3>. QED
      BY <2>1, BlockSizes, WithSumIsSeq
  <2>3. Writing(BlkSz, MaxBlk)' /\ io'.done = 0 /\ io'.buf = w /\ UNCHANGED <<file, alive>>
    <3>1. Dev!DevWrite(w, 0, BlkSz)
      BY <1>4
    <3>. HIDE DEF w
    <3>. QED
      BY <2>2, <3>1, BlockSizes, BeginsToWrite
  <2>4. ASSUME Whole PROVE Signed(w)
    <3>1. b[2] = SbHead(<<>>) /\ b[3] = SbBody(FALSE, feat, run)
      <4>1. 2 \in 1..BlkSz /\ 3 \in 1..BlkSz
        BY BlockSizes
      <4>2. b[2] = file[2] /\ b[3] = file[3]
        BY <2>1, <2>4, <4>1
      <4>. QED
        BY <1>1, <2>4, <4>2, Zenon DEF Plain
    <3>2. Len(b) >= BlkSz
      BY <2>1, BlockSizes
    <3>. HIDE DEF b
    <3>. QED
      BY <2>1, <3>1, <3>2, SumCells, Zenon
  <2>5. ASSUME Whole PROVE Signed(io.buf)'
    <3>1. Signed(w)
      BY <2>4, <2>5
    <3>2. io'.buf[2].tag = "magic" /\ io'.buf[3] = SbBody(TRUE, feat', run') /\ Verified(io'.buf)
      <4>. HIDE DEF w
      <4>. QED
        BY <1>1, <2>3, <3>1, Zenon DEF Signed
    <3>. QED
      BY <3>2, Zenon DEF Signed
  <2>6. Whole' = Whole
    BY <1>1 DEF Whole
  <2>7. AtRewriting'
    <3>. HIDE DEF w
    <3>. QED
      BY <1>1, <2>3, <2>5, <2>6 DEF AtRewriting
  <2>8. DeviceAt'
    <3>. HIDE DEF w
    <3>. QED
      BY <1>1, <1>4, <2>3, <2>7 DEF DeviceAt
  <2>. HIDE DEF w
  <2>. QED
    BY <1>1, <2>3, <2>8 DEF DeviceInv, FlagMeansChecksum
<1>. QED
  <2>1. SuperOffset + 1 = 2
    BY SuperBlocks
  <2>. QED
    BY <1>3, <1>4, <2>1 DEF CheckSb

LEMMA RewrittenKeepsDevice ==
  ASSUME DeviceInv, Rewritten
  PROVE  DeviceInv' /\ alive'
<1>1. /\ pc = "rewriting" /\ alive /\ IsSeq(file) /\ FlagMeansChecksum /\ io = Dev!Resting /\ AtRewriting
      /\ UNCHANGED <<file, io, res, alive, feat, run, shorts>>
      /\ pc' = IF res.ret = 0 THEN "done" ELSE "exit"
  BY DEF Rewritten, DeviceInv, DeviceAt, dev, conf, Own
<1>2. Whole /\ res.ret = 0 => Len(file) = BlkSz /\ Signed(file)
  BY <1>1, AtStartFields DEF AtRewriting, Writing
<1>3. Whole' = Whole /\ Signed(file)' = Signed(file)
  BY <1>1 DEF Whole, Signed
<1>4. DeviceAt'
  BY <1>1, <1>2, <1>3 DEF DeviceAt
<1>. QED
  BY <1>1, <1>4 DEF DeviceInv, FlagMeansChecksum

\* The steps that leave the device alone, and the restart, which leaves the file.
LEMMA OthersKeepDevice ==
  ASSUME DeviceInv, ManagerInv,
         \/ ReserveSuperblock \/ HintLine \/ HintsEnd \/ CompressInit \/ BuildComprCfgs
         \/ FlushAll \/ FlushGoesOn \/ MapAll \/ MappingAll
  PROVE  DeviceInv' /\ alive'
<1>1. /\ pc \notin Busy \cup {"dead"} /\ pc' \notin Busy
      /\ UNCHANGED <<file, io, alive, shorts>>
  BY DEF ReserveSuperblock, ReserveBalloc, ReserveSetOp, ReserveBalloon, ReserveMap, ReserveMapping,
     ReserveTell, HintLine, HintsEnd, CompressInit, BuildComprCfgs, FlushAll, FlushGoesOn, MapAll,
     MappingAll, Calling, Own, dev, Busy
<1>2. io = Dev!Resting /\ alive
  BY <1>1 DEF DeviceInv, DeviceAt, Busy
<1>. QED
  BY <1>1, <1>2, RestKeepsDevice

\* Every step of the command keeps the device's part.
LEMMA NextKeepsDevice ==
  ASSUME DeviceInv, ManagerInv, [MkfsNext]_mvars
  PROVE  DeviceInv'
<1>1. CASE UNCHANGED mvars
  BY <1>1, StutterKeepsDevice
<1>2. CASE Transfer
  BY <1>2, WritingKeepsDevice, ReadingKeepsDevice, RewritingKeepsDevice DEF Transfer
<1>3. CASE Main /\ ~Transfer
  BY <1>3, WriteSbKeepsDevice, DropSbKeepsDevice, ResizeKeepsDevice, ReadSbKeepsDevice,
     CheckSbKeepsDevice, RewrittenKeepsDevice, OthersKeepDevice DEF Main
<1>4. CASE Rerun
  BY <1>4, RestKeepsDevice DEF Rerun, Busy
<1>. QED
  BY <1>1, <1>2, <1>3, <1>4 DEF MkfsNext
----------------------------------------------------------------------------
(***************************************************************************)
(* The inductive invariant as a whole, and what follows from it.           *)
(***************************************************************************)

LEMMA MkfsHolds == MkfsSpec => []MkfsInv
<1>1. MkfsInit => MkfsInv
  BY MkfsStarts, InitDevice DEF MkfsInv
<1>2. ASSUME MkfsInv, [MkfsNext]_mvars PROVE MkfsInv'
  BY <1>2, NextKeepsManager, OwnTyped, NextKeepsDevice DEF MkfsInv
<1>. QED
  BY <1>1, <1>2, PTL DEF MkfsSpec

\* An image whose superblock says it has a checksum has the right one, whenever the
\* process is killed and whatever image it was started on, as long as the kernel wrote
\* what it was offered (superblkinfo.go:332-366, main.go:297-340).
THEOREM ChecksumIsRight == MkfsSpec => []FlagMeansChecksum
<1>1. MkfsInv => FlagMeansChecksum
  BY DEF MkfsInv, DeviceInv
<1>. QED
  BY <1>1, MkfsHolds, PTL

\* When main says that the checksum was written, the image is as long as the blocks that
\* were mapped and starts with this run's superblock, flagged and with the right checksum
\* (main.go:283-340).
THEOREM DoneIsWritten == MkfsSpec => []DoneMeansWritten
<1>1. ASSUME MkfsInv PROVE DoneMeansWritten
  <2>1. SUFFICES ASSUME pc = "done", run \notin shorts
                 PROVE  /\ \A b \in Range(blks) : Mapped(b) => Len(file) >= Pos(EndBlk(b))
                        /\ Len(file) = Pos(nblocks) /\ HasSuper(file) /\ Verified(file)
                        /\ file[SuperOffset + 2] = SbBody(TRUE, feat, run)
    BY DEF DoneMeansWritten
  <2>2. Len(file) = BlkSz /\ Signed(file) /\ Dropped /\ nblocks = 1
    BY <1>1, <2>1 DEF MkfsInv, DeviceInv, DeviceAt, ManagerInv, ManagerAt, Whole
  <2>3. Pos(1) = BlkSz
    BY BlockSizes DEF Pos
  <2>4. ASSUME NEW b \in Range(blks) PROVE Pos(EndBlk(b)) = BlkSz
    <3>1. b = SbBb /\ blk[SbBb].addr = 0 /\ blk[SbBb].off = SuperEnd
      BY <2>2 DEF Dropped, Range
    <3>2. EndBlk(b) = 1
      BY <3>1, SuperBlocks DEF EndBlk
    <3>. QED
      BY <2>3, <3>2
  <2>5. \A b \in Range(blks) : Mapped(b) => Len(file) >= Pos(EndBlk(b))
    BY <2>2, <2>4, BlockSizes
  <2>6. file[2].tag = "magic" /\ file[3] = SbBody(TRUE, feat, run) /\ Verified(file)
    BY <2>2, Zenon DEF Signed
  <2>7. file[3].tag = "body"
    <3>1. IsBody(file[3], TRUE, feat, run)
      BY <2>6, Zenon DEF IsBody
    <3>. QED
      BY <3>1, ChkChanges, Zenon
  <2>8. SuperOffset + 1 = 2 /\ SuperOffset + 2 = 3 /\ Len(file) >= SuperEnd
    BY <2>2, BlockSizes, SuperBlocks
  <2>9. Len(file) = Pos(nblocks)
    BY <2>2, <2>3
  <2>10. HasSuper(file)
    BY <2>6, <2>7, <2>8, Zenon DEF HasSuper
  <2>. QED
    BY <2>5, <2>6, <2>8, <2>9, <2>10, Zenon
<1>. QED
  BY <1>1, MkfsHolds, PTL

\* Where main has not ended, the buffer manager has not panicked.
LEMMA ManagerRuns ==
  ASSUME ManagerInv, pc \in Points, pc \notin Over
  PROVE  status = "run"
  BY DEF ManagerInv, ManagerAt, Points, Over, Held, Init, OneBlock, Dropped

LEMMA StatusStays ==
  ASSUME MkfsInv, MkfsInv', Main, status = "run", pc # "hints"
  PROVE  status' = "run"
<1>1. pc \in Points /\ pc' \in Points /\ ManagerInv /\ ManagerInv'
  BY DEF MkfsInv, MkfsTypeOK, Points
<1>2. CASE pc' \notin Over
  BY <1>1, <1>2, ManagerRuns DEF ManagerInv, ManagerAt, Points, Over, Held, Init, OneBlock, Dropped
<1>3. CASE pc' \in Over
  <2>1. CASE BuildComprCfgs \/ DropSb
    BY <1>1, <2>1, BuildComprCfgsKeeps, DropSbKeeps
  <2>2. CASE FlushGoesOn
    BY <1>1, <1>3, <2>2, FlushGoesOnKeeps DEF Over
  <2>3. CASE \/ ReserveSuperblock \/ FlushAll \/ MapAll \/ MappingAll
    <3>1. pc' \in {"setop", "balloon", "unpinned", "map", "tell", "mapping", "hints", "map all",
                   "flushing", "mapping all", "write"}
      BY <2>3 DEF ReserveSuperblock, ReserveBalloc, ReserveSetOp, ReserveBalloon, ReserveMap,
         ReserveMapping, ReserveTell, FlushAll, MapAll, MappingAll, Calling
    <3>. QED
      BY <1>3, <3>1 DEF Over
  <2>4. CASE CompressInit \/ HintsEnd \/ WriteSb \/ Transfer \/ Resize \/ ReadSb \/ CheckSb \/ Rewritten
    BY <2>4 DEF CompressInit, HintsEnd, WriteSb, Transfer, Resize, ReadSb, CheckSb, Rewritten, vars
  <2>5. CASE HintLine
    BY <2>5 DEF HintLine
  <2>. QED
    BY <2>1, <2>2, <2>3, <2>4, <2>5 DEF Main
<1>. QED
  BY <1>2, <1>3

LEMMA AliveStays ==
  ASSUME MkfsInv, Main, alive
  PROVE  alive' \/ (pc = "rewriting" /\ run \in shorts)
<1>1. DeviceInv /\ ManagerInv
  BY DEF MkfsInv
<1>2. CASE Transfer
  BY <1>1, <1>2, ReadingKeepsDevice, RewritingKeepsDevice, WritingKeepsDevice DEF Transfer
<1>3. CASE ~Transfer
  BY <1>1, <1>3, WriteSbKeepsDevice, DropSbKeepsDevice, ResizeKeepsDevice, ReadSbKeepsDevice,
     CheckSbKeepsDevice, RewrittenKeepsDevice, OthersKeepDevice DEF Main
<1>. QED
  BY <1>2, <1>3

\* The process panics only over a line of the hint file (compress.go:200-244), or in the
\* write of the checksummed block after the kernel wrote less than it was offered
\* (io.go:209-247): no other sequence of main's calls trips an assertion, an index or a nil
\* pointer.
THEOREM DeathsAreKnown == MkfsSpec => DiesOnlyAsKnown
<1>1. ASSUME MkfsInv, MkfsInv', [MkfsNext]_mvars
      PROVE  [status = "run" /\ alive /\ ~(status' = "run" /\ alive') =>
                pc = "hints" \/ (pc = "rewriting" /\ run \in shorts)]_mvars
  <2>1. CASE UNCHANGED mvars
    BY <2>1
  <2>2. CASE Main
    BY <1>1, <2>2, StatusStays, AliveStays
  <2>3. CASE Rerun
    BY <2>3 DEF Rerun, Die
  <2>. QED
    BY <1>1, <2>1, <2>2, <2>3 DEF MkfsNext
<1>. QED
  BY <1>1, MkfsHolds, PTL DEF MkfsSpec, DiesOnlyAsKnown
=============================================================================
