---------------------------- MODULE LayoutProofs ----------------------------
(***************************************************************************)
(* The buffer manager hands out the image as ImageLayout promises, for     *)
(* every pool of blocks and heads, every block size and every set of       *)
(* requests, as long as the client never asks BDrop to revoke; and what    *)
(* the blocks it places are like inside: the cells of their heads, their   *)
(* padding, their buckets, the order of the list, the rings of their       *)
(* heads, and what a flush leaves of them.                                 *)
(*                                                                         *)
(* Every step of the manager is one of four kinds (LayoutStep): it leaves  *)
(* the rooms alone, gives an unmapped block the room at the tail, makes    *)
(* the block at the tail longer, or ends the process.  What is shown of    *)
(* the four kinds then holds of every step.                                *)
(***************************************************************************)
EXTENDS BufMgrProofs

\* Only an allocated block is ever mapped: the addresses of the pool's unused
\* blocks are not the image's.
PoolFresh == \A b \in Block : blk[b].kind = "none" => ~Mapped(b)

KindKept(c) == blk'[c].kind = "none" => blk[c].kind = "none"

Same(c) == RoomOf(c)' = RoomOf(c) /\ KindKept(c)

Stays    == tail' = tail /\ \A c \in Block : Same(c)
Gives(b) ==
  /\ ~Mapped(b) /\ blk[b].kind # "none" /\ KindKept(b)
  /\ tail' \in Nat /\ tail' >= tail
  /\ RoomOf(b)' = [at |-> tail, n |-> tail' - tail]
  /\ \A c \in Block \ {b} : Same(c)
Grows(b) ==
  /\ Mapped(b) /\ EndBlk(b) = tail /\ KindKept(b)
  /\ tail' \in Nat /\ tail' >= tail
  /\ RoomOf(b)' = [at |-> blk[b].addr, n |-> tail' - blk[b].addr]
  /\ \A c \in Block \ {b} : Same(c)
Forgets  == status' # "run" /\ tail' = StartBlk /\ \A c \in Block : blk'[c].addr = NULL_ADDR

LayoutStep == Stays \/ Forgets \/ \E b \in Block : Gives(b) \/ Grows(b)
----------------------------------------------------------------------------
(***************************************************************************)
(* What follows from a step's being of one of these kinds.                 *)
(***************************************************************************)

\* What a block's room says, in the fields of the block.
LEMMA RoomFacts ==
  ASSUME TypeOK, NEW b \in Block
  PROVE  /\ Mapped(b) <=> RoomOf(b).at # NULL_ADDR
         /\ Mapped(b) => /\ RoomOf(b).at \in Nat /\ RoomOf(b).n \in Nat
                         /\ RoomOf(b) = [at |-> blk[b].addr, n |-> NBlk(blk[b].off)]
                         /\ EndBlk(b) = RoomOf(b).at + RoomOf(b).n
         /\ ~Mapped(b) => RoomOf(b) = [at |-> NULL_ADDR, n |-> 0]
<1>1. NBlk(blk[b].off) \in Nat /\ (Mapped(b) => blk[b].addr \in Nat)
  BY BlockNats
<1>. QED
  BY <1>1, SizeAssumption DEF RoomOf, Mapped, EndBlk

\* A room that stays what it was is mapped as it was.
LEMMA SameMapped ==
  ASSUME NEW b \in Block, RoomOf(b)' = RoomOf(b)
  PROVE  Mapped(b)' = Mapped(b)
<1>1. RoomOf(b).at = blk[b].addr /\ RoomOf(b)'.at = blk'[b].addr
  BY DEF RoomOf
<1>. QED
  BY <1>1 DEF Mapped

\* Rooms apart and before the tail, said of rooms.
RoomsApart ==
  /\ \A b \in Block : Mapped(b) => RoomOf(b).at + RoomOf(b).n <= tail
  /\ \A b, c \in Block : b # c /\ Mapped(b) /\ Mapped(c) =>
       DisjointRuns(RoomOf(b).at, RoomOf(b).n, RoomOf(c).at, RoomOf(c).n)

LEMMA ApartIsDisjoint ==
  ASSUME TypeOK
  PROVE  RoomsApart <=> ExtentsDisjoint
<1>1. \A b \in Block : Mapped(b) =>
        /\ RoomOf(b).at = blk[b].addr /\ RoomOf(b).n = NBlk(blk[b].off)
        /\ EndBlk(b) = RoomOf(b).at + RoomOf(b).n
  <2>1. ASSUME NEW b \in Block, Mapped(b)
        PROVE  /\ RoomOf(b).at = blk[b].addr /\ RoomOf(b).n = NBlk(blk[b].off)
               /\ EndBlk(b) = RoomOf(b).at + RoomOf(b).n
    BY <2>1, RoomFacts
  <2>. QED
    BY <2>1
<1>. QED
  BY <1>1 DEF RoomsApart, ExtentsDisjoint

\* The distance from one number to a later one.
LEMMA Gap ==
  ASSUME NEW x \in Nat, NEW y \in Nat, y >= x
  PROVE  y - x \in Nat /\ x + (y - x) = y
  OBVIOUS

\* The room that changes begins at the old tail, or continues the one that ended
\* there, and ends at the new tail: it stays clear of every other.
LEMMA TailRoomKeepsApart ==
  ASSUME TypeOK, TypeOK', RoomsApart, NEW b \in Block, Gives(b) \/ Grows(b)
  PROVE  RoomsApart'
<1>0. tail \in Nat /\ tail' \in Nat /\ tail' >= tail
  BY DEF TypeOK, Gives, Grows
<1>1. ASSUME NEW c \in Block \ {b}, Mapped(c)'
      PROVE  /\ RoomOf(c)' = RoomOf(c) /\ Mapped(c)
             /\ RoomOf(c).at \in Nat /\ RoomOf(c).n \in Nat
             /\ RoomOf(c).at + RoomOf(c).n <= tail
  <2>1. RoomOf(c)' = RoomOf(c)
    BY DEF Gives, Grows, Same
  <2>2. Mapped(c)
    BY <1>1, <2>1, SameMapped
  <2>. QED
    BY <2>1, <2>2, RoomFacts DEF RoomsApart
<1>2. /\ RoomOf(b)'.at \in Nat /\ RoomOf(b)'.n \in Nat
      /\ RoomOf(b)'.at + RoomOf(b)'.n = tail'
  <2>1. CASE Gives(b)
    <3>1. RoomOf(b)' = [at |-> tail, n |-> tail' - tail]
      BY <2>1 DEF Gives
    <3>2. tail' - tail \in Nat /\ tail + (tail' - tail) = tail'
      BY <1>0, Gap
    <3>3. RoomOf(b)'.at = tail
      BY <3>1
    <3>4. RoomOf(b)'.n = tail' - tail
      BY <3>1
    <3>. QED
      BY <1>0, <3>2, <3>3, <3>4
  <2>2. CASE Grows(b)
    <3>1. blk[b].addr \in Nat /\ NBlk(blk[b].off) \in Nat /\ blk[b].addr <= tail
      BY <2>2, BlockNats DEF Grows, EndBlk
    <3>. QED
      BY <1>0, <2>2, <3>1 DEF Grows
  <2>. QED
    BY <2>1, <2>2
<1>3. ASSUME NEW c \in Block \ {b}, Mapped(c)'
      PROVE  RoomOf(c).n = 0 \/ RoomOf(c).at + RoomOf(c).n <= RoomOf(b)'.at \/ RoomOf(b)'.n = 0
  <2>1. CASE Gives(b)
    BY <1>1, <1>3, <2>1 DEF Gives
  <2>2. CASE Grows(b)
    <3>1. /\ RoomOf(b).at = blk[b].addr /\ RoomOf(b)'.at = blk[b].addr /\ Mapped(b)
          /\ RoomOf(b).n \in Nat /\ blk[b].addr \in Nat
          /\ RoomOf(b).at + RoomOf(b).n = tail
      BY <2>2, RoomFacts DEF Grows
    <3>2. DisjointRuns(RoomOf(b).at, RoomOf(b).n, RoomOf(c).at, RoomOf(c).n)
      BY <1>1, <1>3, <3>1 DEF RoomsApart
    <3>. QED
      BY <1>0, <1>1, <1>3, <3>1, <3>2 DEF DisjointRuns
  <2>. QED
    BY <2>1, <2>2
<1>4. ASSUME NEW c \in Block, Mapped(c)' PROVE (RoomOf(c).at + RoomOf(c).n <= tail)'
  <2>1. CASE c = b
    BY <1>0, <1>2, <2>1
  <2>2. CASE c # b
    BY <1>0, <1>1, <1>4, <2>2
  <2>. QED
    BY <2>1, <2>2
<1>5. ASSUME NEW c \in Block, NEW d \in Block, c # d, Mapped(c)', Mapped(d)'
      PROVE  DisjointRuns(RoomOf(c).at, RoomOf(c).n, RoomOf(d).at, RoomOf(d).n)'
  <2>1. CASE c = b
    <3>1. d \in Block \ {b}
      BY <1>5, <2>1
    <3>2. RoomOf(d)' = RoomOf(d)
      BY <1>1, <1>5, <3>1
    <3>3. RoomOf(d).n = 0 \/ RoomOf(d).at + RoomOf(d).n <= RoomOf(b)'.at \/ RoomOf(b)'.n = 0
      BY <1>3, <1>5, <3>1
    <3>. QED
      BY <2>1, <3>2, <3>3 DEF DisjointRuns
  <2>2. CASE d = b
    <3>1. c \in Block \ {b}
      BY <1>5, <2>2
    <3>2. RoomOf(c)' = RoomOf(c)
      BY <1>1, <1>5, <3>1
    <3>3. RoomOf(c).n = 0 \/ RoomOf(c).at + RoomOf(c).n <= RoomOf(b)'.at \/ RoomOf(b)'.n = 0
      BY <1>3, <1>5, <3>1
    <3>. QED
      BY <2>2, <3>2, <3>3 DEF DisjointRuns
  <2>3. CASE c # b /\ d # b
    <3>1. /\ RoomOf(c)' = RoomOf(c) /\ RoomOf(d)' = RoomOf(d)
          /\ Mapped(c) /\ Mapped(d)
      BY <1>1, <1>5, <2>3
    <3>2. DisjointRuns(RoomOf(c).at, RoomOf(c).n, RoomOf(d).at, RoomOf(d).n)
      BY <1>5, <3>1 DEF RoomsApart
    <3>. QED
      BY <3>1, <3>2 DEF DisjointRuns
  <2>. QED
    BY <2>1, <2>2, <2>3
<1>. QED
  BY <1>4, <1>5 DEF RoomsApart

\* All four kinds keep the extents apart and the pool fresh.
LEMMA LayoutStepKeeps ==
  ASSUME TypeOK, TypeOK', ExtentsDisjoint, PoolFresh, LayoutStep
  PROVE  ExtentsDisjoint' /\ PoolFresh'
<1>0. RoomsApart
  BY ApartIsDisjoint
<1>1. CASE Stays
  <2>1. ASSUME NEW c \in Block
        PROVE  /\ RoomOf(c)' = RoomOf(c) /\ Mapped(c)' = Mapped(c)
               /\ blk'[c].kind = "none" => blk[c].kind = "none"
    BY <1>1, SameMapped DEF Stays, Same, KindKept
  <2>2. tail' = tail
    BY <1>1 DEF Stays
  <2>3. ASSUME NEW b \in Block, Mapped(b)' PROVE (RoomOf(b).at + RoomOf(b).n <= tail)'
    BY <1>0, <2>1, <2>2, <2>3 DEF RoomsApart
  <2>4. ASSUME NEW b \in Block, NEW c \in Block, b # c, Mapped(b)', Mapped(c)'
        PROVE  DisjointRuns(RoomOf(b).at, RoomOf(b).n, RoomOf(c).at, RoomOf(c).n)'
    <3>1. DisjointRuns(RoomOf(b).at, RoomOf(b).n, RoomOf(c).at, RoomOf(c).n)
      BY <1>0, <2>1, <2>4 DEF RoomsApart
    <3>. QED
      BY <2>1, <3>1 DEF DisjointRuns
  <2>5. RoomsApart'
    BY <2>3, <2>4 DEF RoomsApart
  <2>6. TypeOK' => (RoomsApart' <=> ExtentsDisjoint')
    BY ApartIsDisjoint, PTL
  <2>7. PoolFresh'
    BY <2>1 DEF PoolFresh
  <2>. QED
    BY <2>5, <2>6, <2>7
<1>2. CASE Forgets
  BY <1>2 DEF Forgets, ExtentsDisjoint, PoolFresh, Mapped
<1>3. ASSUME NEW b \in Block, Gives(b) \/ Grows(b) PROVE ExtentsDisjoint' /\ PoolFresh'
  <2>1. RoomsApart'
    BY <1>0, <1>3, TailRoomKeepsApart
  <2>2. TypeOK' => (RoomsApart' <=> ExtentsDisjoint')
    BY ApartIsDisjoint, PTL
  <2>3. ASSUME NEW c \in Block, blk'[c].kind = "none" PROVE ~Mapped(c)'
    <3>1. CASE c = b
      BY <1>3, <2>3, <3>1 DEF Gives, Grows, KindKept, PoolFresh
    <3>2. CASE c # b
      <4>1. RoomOf(c)' = RoomOf(c) /\ KindKept(c)
        BY <1>3, <3>2 DEF Gives, Grows, Same
      <4>. QED
        BY <2>3, <4>1, SameMapped DEF KindKept, PoolFresh
    <3>. QED
      BY <3>1, <3>2
  <2>. QED
    BY <2>1, <2>2, <2>3 DEF PoolFresh
<1>. QED
  BY <1>1, <1>2, <1>3 DEF LayoutStep
----------------------------------------------------------------------------
(***************************************************************************)
(* Every step is of one of these kinds.                                    *)
(***************************************************************************)

\* Addresses, lengths and kinds unchanged: the rooms stay.
LEMMA StayIsStep ==
  ASSUME tail' = tail,
         \A c \in Block : /\ blk'[c].addr = blk[c].addr /\ blk'[c].off = blk[c].off
                          /\ blk'[c].kind = blk[c].kind
  PROVE  LayoutStep
  BY DEF LayoutStep, Stays, Same, KindKept, RoomOf, Mapped

\* A process that has died holds no mapped block.
LEMMA DieIsStep ==
  ASSUME NEW how \in {"panic", "hang", "bug"}, Die(how)
  PROVE  LayoutStep
<1>1. tail' = StartBlk /\ blk' = NoBlocks /\ status' # "run"
  BY DEF Die
<1>2. \A c \in Block : blk'[c].addr = NULL_ADDR
  BY <1>1 DEF NoBlocks, NoBlock
<1>. QED
  BY <1>1, <1>2 DEF LayoutStep, Forgets

\* A block is mapped where everything mapped before ends; mapping it again
\* changes nothing.
LEMMA MapIsStep ==
  ASSUME TypeOK, ExtentsDisjoint, PoolFresh, NEW b \in Block, blk[b].kind # "none",
         MapBhInternal(b)
  PROVE  LayoutStep
<1>0. /\ blk \in [Block -> BlkRec] /\ tail \in Nat
      /\ NBlk(blk[b].off) \in Nat /\ (Mapped(b) => blk[b].addr \in Nat)
      /\ (Mapped(b) => EndBlk(b) \in Nat /\ EndBlk(b) <= tail)
  BY BlockNats DEF TypeOK, BlkRec, ExtentsDisjoint
<1>1. CASE Mapped(b)
  <2>1. blk' = [blk EXCEPT ![b].addr = blk[b].addr, ![b].bkt = blk[b].bkt]
    BY <1>0, <1>1 DEF MapBhInternal, BlkRec
  <2>2. blk' = blk
    BY <1>0, <2>1 DEF BlkRec
  <2>3. tail' = tail
    BY <1>0, <1>1 DEF MapBhInternal, EndBlk
  <2>. QED
    BY <2>2, <2>3, StayIsStep
<1>2. CASE ~Mapped(b)
  <2>1. /\ blk' = [blk EXCEPT ![b].addr = tail, ![b].bkt = Bucket(blk[b].off)]
        /\ tail' = IF tail + NBlk(blk[b].off) > tail
                   THEN tail + NBlk(blk[b].off) ELSE tail
    BY <1>0, <1>2 DEF MapBhInternal, BlkRec
  <2>2. /\ blk'[b].addr = tail /\ blk'[b].off = blk[b].off /\ blk'[b].kind = blk[b].kind
        /\ \A c \in Block \ {b} : blk'[c] = blk[c]
    BY <1>0, <2>1 DEF BlkRec
  <2>3. tail' = tail + NBlk(blk[b].off) /\ tail' >= tail /\ tail' \in Nat
    BY <1>0, <2>1
  <2>4. RoomOf(b)' = [at |-> tail, n |-> tail' - tail]
    <3>1. Mapped(b)'
      BY <1>0, <2>2, SizeAssumption DEF Mapped
    <3>2. RoomOf(b)' = [at |-> tail, n |-> NBlk(blk[b].off)]
      BY <2>2, <3>1 DEF RoomOf
    <3>3. tail' - tail = NBlk(blk[b].off)
      BY <1>0, <2>3
    <3>. QED
      BY <3>2, <3>3
  <2>5. \A c \in Block \ {b} : Same(c)
    BY <2>2 DEF Same, KindKept, RoomOf, Mapped
  <2>6. Gives(b)
    BY <1>2, <2>2, <2>3, <2>4, <2>5 DEF Gives, KindKept
  <2>. QED
    BY <2>6 DEF LayoutStep
<1>. QED
  BY <1>1, <1>2

\* A block grows into new file-system blocks only when nothing lies behind it:
\* either the record fits in what is left of its last one, or it ends at the tail.
LEMMA AttachIsStep ==
  ASSUME TypeOK, NEW b \in Block, NEW h, NEW op, NEW by, NEW incr \in Nat,
         NEW align \in Nat \ {0}, BlkSz % align = 0,
         ~AttachFails(b, incr, align), Attach(b, h, incr, align, op, by)
  PROVE  LayoutStep
<1>. DEFINE off == RoundUp(blk[b].off, align) + incr
<1>0. /\ blk \in [Block -> BlkRec] /\ tail \in Nat /\ blk[b].off \in Nat
      /\ NBlk(blk[b].off) \in Nat /\ (Mapped(b) => blk[b].addr \in Nat)
  BY BlockNats DEF TypeOK, BlkRec
<1>1. RoundUp(blk[b].off, align) \in Nat /\ blk[b].off <= RoundUp(blk[b].off, align)
  BY <1>0, RoundUpBounds
<1>2. off \in Nat /\ blk[b].off <= off
  BY <1>0, <1>1
<1>3. NBlk(off) \in Nat /\ NBlk(blk[b].off) <= NBlk(off)
  BY <1>0, <1>2, NBlkMono, NBlkBounds
<1>4. /\ blk'[b].addr = blk[b].addr /\ blk'[b].off = off /\ blk'[b].kind = blk[b].kind
      /\ \A c \in Block \ {b} : blk'[c] = blk[c]
  <2>1. blk' = [blk EXCEPT ![b].off = off,
                           ![b].bkt = IF Mapped(b) THEN Bucket(off) ELSE @]
    BY DEF Attach
  <2>. HIDE DEF off
  <2>. QED
    BY <1>0, <2>1 DEF BlkRec
<1>5. tail' = IF TailUpdate(b, incr, align) THEN blk[b].addr + NBlk(off) ELSE tail
  BY DEF Attach
<1>6. \A c \in Block \ {b} : Same(c)
  BY <1>4 DEF Same, KindKept, RoomOf, Mapped
<1>7. CASE TailUpdate(b, incr, align)
  <2>1. Mapped(b) /\ tail = EndBlk(b) /\ blk[b].addr \in Nat
    BY <1>0, <1>7 DEF TailUpdate
  <2>2. tail' = blk[b].addr + NBlk(off) /\ tail' >= tail /\ tail' \in Nat
    BY <1>0, <1>3, <1>5, <1>7, <2>1 DEF EndBlk
  <2>3. RoomOf(b)' = [at |-> blk[b].addr, n |-> tail' - blk[b].addr]
    <3>. HIDE DEF off
    <3>1. RoomOf(b)' = [at |-> blk[b].addr, n |-> NBlk(off)]
      BY <1>4, <2>1 DEF RoomOf, Mapped
    <3>2. tail' - blk[b].addr = NBlk(off)
      BY <1>3, <2>1, <2>2
    <3>. QED
      BY <3>1, <3>2
  <2>4. Grows(b)
    BY <1>4, <1>6, <2>1, <2>2, <2>3 DEF Grows, KindKept
  <2>. QED
    BY <2>4 DEF LayoutStep
<1>8. CASE ~TailUpdate(b, incr, align)
  <2>1. tail' = tail
    BY <1>5, <1>8
  <2>2. Same(b)
    <3>1. CASE ~Mapped(b)
      BY <1>4, <3>1 DEF Same, KindKept, RoomOf, Mapped
    <3>2. CASE Mapped(b)
      <4>1. ~(Total(b, incr, align) > BlkSz)
        BY <1>8, <3>2 DEF AttachFails
      <4>2. UsedInLast(blk[b].off) \in Nat
        BY <1>0, BlkSzAssumption DEF UsedInLast
      <4>3. RoundUp(UsedInLast(blk[b].off), align) \in Nat
        BY <4>2, RoundUpBounds
      <4>4. RoundUp(UsedInLast(blk[b].off), align) + incr <= BlkSz
        BY <4>1, <4>3, BlkSzAssumption DEF Total
      <4>5. NBlk(off) = NBlk(blk[b].off)
        BY <1>0, <4>4, FittingKeepsBlocks
      <4>. HIDE DEF off
      <4>. QED
        BY <1>4, <3>2, <4>5 DEF Same, KindKept, RoomOf, Mapped
    <3>. QED
      BY <3>1, <3>2
  <2>. QED
    BY <1>6, <2>1, <2>2 DEF LayoutStep, Stays
<1>. QED
  BY <1>7, <1>8

\* Balloc's new block is not mapped, and no other one moves.
LEMMA BallocIsStep ==
  ASSUME TypeOK, PoolFresh, NEW b \in Block, NEW h \in BufHead, NEW t \in BufType,
         NEW size, NEW req, NEW inl, BallocNew(b, h, t, size, req, inl)
  PROVE  LayoutStep
<1>0. blk \in [Block -> BlkRec]
  BY DEF TypeOK, BlkRec
<1>1. CASE KindOf(t) = "DATA" /\ last = JUNK
  <2>1. Die("panic")
    BY <1>1 DEF BallocNew
  <2>. QED
    BY <2>1, DieIsStep
<1>2. CASE ~(KindOf(t) = "DATA" /\ last = JUNK)
  <2>1. blk' = [blk EXCEPT ![b] = NewBlock(KindOf(t))] /\ tail' = tail
    BY <1>2 DEF BallocNew
  <2>2. blk[b].kind = "none" /\ blk[b].addr = NULL_ADDR
    BY DEF BallocNew, PoolFresh, Mapped
  <2>3. blk'[b].addr = NULL_ADDR
    BY <1>0, <2>1 DEF NewBlock
  <2>4. Same(b)
    BY <2>2, <2>3 DEF Same, KindKept, RoomOf, Mapped
  <2>5. \A c \in Block \ {b} : Same(c)
    BY <1>0, <2>1 DEF Same, KindKept, RoomOf, Mapped
  <2>. QED
    BY <2>1, <2>4, <2>5 DEF LayoutStep, Stays
<1>. QED
  BY <1>1, <1>2

LEMMA BattachIsStep ==
  ASSUME RingIInv, NEW bh \in BufHead, NEW new \in BufHead, NEW t \in BufType,
         NEW size \in Nat, Battach(bh, new, t, size)
  PROVE  LayoutStep
<1>1. CASE Refuse
  BY <1>1, StayIsStep DEF Refuse
<1>2. CASE /\ ~AttachFails(head[bh].blk, size, AlignOf(t))
           /\ Attach(head[bh].blk, new, size, AlignOf(t), "nil", "attach")
  <2>1. TypeOK /\ head[bh].blk \in Block
    BY DEF Battach, Usable, RingIInv, RingInv, OwnersOK
  <2>2. AlignOf(t) \in Nat \ {0} /\ BlkSz % AlignOf(t) = 0
    BY Alignment
  <2>. QED
    BY <1>2, <2>1, <2>2, AttachIsStep
<1>. QED
  BY <1>1, <1>2 DEF Battach

\* A step other than a walk's.
LEMMA ClientIsStep ==
  ASSUME TRUE \notin Revoke, RingIInv, PoolFresh, Client
  PROVE  LayoutStep
<1>0. TypeOK /\ blk \in [Block -> BlkRec]
  BY DEF RingIInv, TypeOK, BlkRec
<1>1. CASE UNCHANGED <<blk, tail>>
  BY <1>1, StayIsStep
<1>2. ASSUME NEW size \in Size, NEW req \in Ext, NEW inl \in Ext,
             BallocNoSpace(size, req, inl)
      PROVE  LayoutStep
  BY <1>1, <1>2 DEF BallocNoSpace, Refuse
<1>3. ASSUME NEW t \in BufType, NEW size \in Size, NEW req \in Ext, NEW inl \in Ext,
             BallocSearch(t, size, req, inl)
      PROVE  LayoutStep
  <2>1. Die("panic") \/ Die("hang")
    BY <1>3 DEF BallocSearch
  <2>. QED
    BY <2>1, DieIsStep
<1>4. ASSUME NEW t \in BufType, NEW size \in Size, NEW req \in Ext, NEW inl \in Ext,
             NEW b \in Block, NEW h \in BufHead, BallocNew(b, h, t, size, req, inl)
      PROVE  LayoutStep
  BY <1>0, <1>4, BallocIsStep
<1>5. ASSUME NEW bh \in BufHead, NEW new \in BufHead, NEW t \in BufType,
             NEW size \in Size, Battach(bh, new, t, size)
      PROVE  LayoutStep
  <2>1. size \in Nat
    BY SizeAssumption
  <2>. QED
    BY <1>5, <2>1, BattachIsStep
<1>6. ASSUME NEW bh \in BufHead, NEW incr \in Grow, BhBalloon(bh, incr)
      PROVE  LayoutStep
  <2>1. CASE Refuse
    BY <1>1, <2>1 DEF Refuse
  <2>2. CASE /\ ~AttachFails(head[bh].blk, incr, 1)
             /\ Attach(head[bh].blk, bh, incr, 1, head[bh].op, "balloon")
    <3>1. head[bh].blk \in Block /\ incr \in Nat
      BY <1>6, SizeAssumption DEF BhBalloon, Usable, RingIInv, RingInv, OwnersOK
    <3>2. 1 \in Nat \ {0} /\ BlkSz % 1 = 0
      BY BlkSzAssumption
    <3>. QED
      BY <1>0, <2>2, <3>1, <3>2, AttachIsStep
  <2>. QED
    BY <1>6, <2>1, <2>2 DEF BhBalloon
<1>7. ASSUME NEW bh \in BufHead, NEW op \in ClientOp, SetOp(bh, op)
      PROVE  LayoutStep
  BY <1>1, <1>7 DEF SetOp
<1>8. ASSUME NEW bh \in BufHead, NEW revoke \in Revoke, BDrop(bh, revoke)
      PROVE  LayoutStep
  <2>1. ~revoke
    BY ClientAssumption
  <2>2. CASE ListDelPanics(heap, bh)
    BY <1>8, <2>2, DieIsStep DEF BDrop
  <2>3. CASE ~ListDelPanics(heap, bh)
    <3>1. tail' = tail
      BY <1>8, <2>1, <2>3 DEF BDrop
    <3>2. \/ blk' = blk
          \/ blk' = [blk EXCEPT ![head[bh].blk].bkt =
                       BktAfterFree(head[bh].blk, ListDel(heap, bh))]
      BY <1>8, <2>3 DEF BDrop
    <3>3. \A c \in Block : /\ blk'[c].addr = blk[c].addr /\ blk'[c].off = blk[c].off
                           /\ blk'[c].kind = blk[c].kind
      BY <1>0, <3>2 DEF BlkRec
    <3>. QED
      BY <3>1, <3>3, StayIsStep
  <2>. QED
    BY <2>2, <2>3
<1>9. ASSUME NEW want, MapBh(want) PROVE LayoutStep
  BY <1>1, <1>9 DEF MapBh
<1>10. ASSUME NEW stop, ErofsBflush(stop) PROVE LayoutStep
  BY <1>1, <1>10 DEF ErofsBflush
<1>. QED
  BY <1>2, <1>3, <1>4, <1>5, <1>6, <1>7, <1>8, <1>9, <1>10 DEF Client

\* A block of the ring was allocated.
LEMMA RingIsAllocated ==
  ASSUME RingIInv, NEW i \in 1..Len(blks)
  PROVE  blks[i] \in Block /\ blk[blks[i]].kind # "none"
<1>1. blks[i] \in Block /\ InRing(blks[i])
  BY DEF RingIInv, TypeOK, InRing, Range
<1>. QED
  BY <1>1 DEF RingIInv, RingInv, OwnersOK

\* The turns of ErofsBflush's loops.
LEMMA FlushIsStep ==
  ASSUME RingIInv, ExtentsDisjoint, PoolFresh, Flush
  PROVE  LayoutStep
<1>0. TypeOK /\ blk \in [Block -> BlkRec]
  BY DEF RingIInv, TypeOK, BlkRec
<1>1. CASE UNCHANGED <<blk, tail>>
  BY <1>1, StayIsStep
<1>2. CASE FlushBlock
  <2>1. CASE UNCHANGED <<blk, tail, last>>
    BY <1>1, <2>1
  <2>2. CASE MapBhInternal(call.p)
    <3>1. PICK i \in 1..Len(blks) : blks[i] = call.p
      BY <1>2 DEF FlushBlock, Flushing, RingIInv, RingInv, WalkOK
    <3>2. call.p \in Block /\ blk[call.p].kind # "none"
      BY <3>1, RingIsAllocated
    <3>. QED
      BY <1>0, <2>2, <3>2, MapIsStep
  <2>. QED
    BY <1>2, <2>1, <2>2 DEF FlushBlock
<1>3. ASSUME NEW bh \in BufHead, FlushHead(bh) PROVE LayoutStep
  <2>1. CASE Die("panic")
    BY <2>1, DieIsStep
  <2>. QED
    BY <1>1, <1>3, <2>1 DEF FlushHead
<1>4. CASE FlushEnd
  <2>1. \/ blk' = blk
        \/ blk' = [blk EXCEPT ![call.p].bkt = BktAfterFree(call.p, heap)]
    BY <1>4 DEF FlushEnd
  <2>2. \A c \in Block : /\ blk'[c].addr = blk[c].addr /\ blk'[c].off = blk[c].off
                         /\ blk'[c].kind = blk[c].kind
    BY <1>0, <2>1 DEF BlkRec
  <2>3. tail' = tail
    BY <1>4 DEF FlushEnd
  <2>. QED
    BY <2>2, <2>3, StayIsStep
<1>. QED
  BY <1>2, <1>3, <1>4 DEF Flush

\* A turn of MapBh's loop.
LEMMA MapTurnIsStep ==
  ASSUME RingIInv, ExtentsDisjoint, PoolFresh, MapStep
  PROVE  LayoutStep
<1>0. TypeOK
  BY DEF RingIInv
<1>1. CASE Die("panic") \/ Die("bug")
  BY <1>1, DieIsStep
<1>2. CASE UNCHANGED <<blks, blk, head, heap, tail, metaCnt, last, status>>
  BY <1>2, StayIsStep
<1>3. CASE /\ call.t # JUNK /\ NextBlk(call.t) # BlkH
           /\ MapBhInternal(NextBlk(call.t))
  <2>1. PICK t : t = NextBlk(call.t) /\ MapBhInternal(t) /\ call.t # JUNK /\ t # BlkH
    BY <1>3
  <2>2. call.t = last /\ last \in Block \cup {BlkH}
    BY <2>1 DEF MapStep, RingIInv, RingInv, WalkOK, TypeOK
  <2>3. blks \in Seq(Block) /\ Len(blks) \in Nat /\ Place(last) \in 0..Len(blks)
    <3>1. CASE last = BlkH
      BY <3>1 DEF Place, RingIInv, TypeOK
    <3>2. CASE last \in Block
      <4>1. blks \in Seq(Block) /\ last \in Range(blks) /\ last # BlkH
        BY <3>2, PoolAssumption DEF RingIInv, RingInv, MappedFirst, TypeOK, Range
      <4>2. Index(last) \in 1..Len(blks)
        BY <4>1, IndexOf DEF Index
      <4>. QED
        BY <4>1, <4>2 DEF Place
    <3>. QED
      BY <2>2, <3>1, <3>2
  <2>4. Place(last) # Len(blks) /\ t = blks[Place(last) + 1]
    BY <2>1, <2>2 DEF NextBlk
  <2>5. Place(last) + 1 \in 1..Len(blks)
    BY <2>3, <2>4
  <2>6. t \in Block /\ blk[t].kind # "none"
    BY <2>4, <2>5, RingIsAllocated
  <2>. QED
    BY <1>0, <2>1, <2>6, MapIsStep
<1>. QED
  BY <1>1, <1>2, <1>3 DEF MapStep

LEMMA NextIsLayoutStep ==
  ASSUME TRUE \notin Revoke, RingIInv, ExtentsDisjoint, PoolFresh, [Next]_vars
  PROVE  LayoutStep
<1>1. CASE UNCHANGED vars
  BY <1>1, StayIsStep DEF vars
<1>. QED
  BY <1>1, ClientIsStep, FlushIsStep, MapTurnIsStep DEF Next
----------------------------------------------------------------------------
(***************************************************************************)
(* The theorems.                                                           *)
(***************************************************************************)

\* What holds of the image's layout in every state.
LayoutInv == ExtentsDisjoint /\ PoolFresh

LEMMA LayoutInvHolds ==
  ASSUME TRUE \notin Revoke
  PROVE  Spec => []LayoutInv
<1>1. Init => LayoutInv
  BY DEF Init, LayoutInv, ExtentsDisjoint, PoolFresh, NoBlocks, NoBlock, Mapped
<1>2. RingIInv /\ RingIInv' /\ LayoutInv /\ [Next]_vars => LayoutInv'
  <2>1. SUFFICES ASSUME RingIInv, RingIInv', LayoutInv, [Next]_vars
                 PROVE  LayoutInv'
    OBVIOUS
  <2>2. TypeOK /\ TypeOK' /\ ExtentsDisjoint /\ PoolFresh
    BY <2>1 DEF RingIInv, LayoutInv
  <2>3. LayoutStep
    BY <2>1, <2>2, NextIsLayoutStep
  <2>. QED
    BY <2>2, <2>3, LayoutStepKeeps DEF LayoutInv
<1>. QED
  BY <1>1, <1>2, RingHolds, PTL DEF Spec

\* No two mapped buffer blocks ever share a file-system block, and none reaches
\* past TailBlkAddr, as long as the client never asks BDrop to revoke.
THEOREM ExtentsHold ==
  ASSUME TRUE \notin Revoke
  PROVE  Spec => []ExtentsDisjoint
<1>1. LayoutInv => ExtentsDisjoint
  BY DEF LayoutInv
<1>. QED
  BY <1>1, LayoutInvHolds, PTL

\* Rooms, the mapping that shows the manager to implement ImageLayout.
Rooms  == [b \in Block |-> RoomOf(b)]
NoRoom == [at |-> NULL_ADDR, n |-> 0]

LEMMA RoomsStart == Init => Layout!Init
<1>1. SUFFICES ASSUME Init PROVE Layout!Init
  OBVIOUS
<1>2. \A b \in Block : RoomOf(b) = NoRoom
  BY <1>1 DEF Init, NoBlocks, NoBlock, RoomOf, Mapped, NoRoom
<1>3. tail = StartBlk
  BY <1>1 DEF Init
<1>. QED
  BY <1>2, <1>3 DEF Layout!Init, NoRoom

\* Each kind of step is a step of ImageLayout, or leaves its variables alone.
LEMMA StepIsLayouts ==
  ASSUME TypeOK, TypeOK', LayoutStep
  PROVE  [Layout!Next]_<<Rooms, tail>>
<1>1. CASE Stays
  <2>1. \A b \in Block : RoomOf(b)' = RoomOf(b)
    BY <1>1 DEF Stays, Same
  <2>2. Rooms' = Rooms
    BY <2>1 DEF Rooms
  <2>. QED
    BY <1>1, <2>2 DEF Stays
<1>2. CASE Forgets
  <2>1. \A b \in Block : RoomOf(b)' = NoRoom
    BY <1>2 DEF Forgets, RoomOf, Mapped, NoRoom
  <2>2. Layout!Forget
    BY <1>2, <2>1 DEF Forgets, Layout!Forget, NoRoom
  <2>. QED
    BY <2>2 DEF Layout!Next
<1>3. ASSUME NEW b \in Block, Gives(b) PROVE Layout!Give(b)
  <2>1. RoomOf(b) = NoRoom
    BY <1>3 DEF Gives, RoomOf, Mapped, NoRoom
  <2>2. \A c \in Block \ {b} : RoomOf(c)' = RoomOf(c)
    BY <1>3 DEF Gives, Same
  <2>3. /\ tail' \in Nat /\ tail' >= tail
        /\ RoomOf(b)' = [at |-> tail, n |-> tail' - tail]
    BY <1>3 DEF Gives
  <2>4. Rooms' = [Rooms EXCEPT ![b] = [at |-> tail, n |-> tail' - tail]]
    BY <2>2, <2>3 DEF Rooms
  <2>5. Rooms[b] = NoRoom
    BY <2>1 DEF Rooms
  <2>. QED
    BY <2>3, <2>4, <2>5 DEF Layout!Give, Layout!HasRoom, Rooms, NoRoom
<1>4. ASSUME NEW b \in Block, Grows(b) PROVE Layout!Extend(b)
  <2>1. /\ Mapped(b) /\ EndBlk(b) = tail
        /\ tail' \in Nat /\ tail' >= tail
        /\ RoomOf(b)' = [at |-> blk[b].addr, n |-> tail' - blk[b].addr]
        /\ \A c \in Block \ {b} : RoomOf(c)' = RoomOf(c)
    BY <1>4 DEF Grows, Same
  <2>2. /\ RoomOf(b) = [at |-> blk[b].addr, n |-> NBlk(blk[b].off)]
        /\ RoomOf(b).at + RoomOf(b).n = tail
        /\ RoomOf(b).at # NULL_ADDR
    BY <2>1, RoomFacts
  <2>3. Rooms[b] = RoomOf(b)
    BY DEF Rooms
  <2>4. Rooms' = [Rooms EXCEPT ![b].n = tail' - Rooms[b].at]
    <3>1. /\ Rooms[b] = [at |-> blk[b].addr, n |-> NBlk(blk[b].off)]
          /\ Rooms[b].at = blk[b].addr
      BY <2>2, <2>3
    <3>2. [Rooms[b] EXCEPT !.n = tail' - Rooms[b].at]
            = [at |-> blk[b].addr, n |-> tail' - blk[b].addr]
      BY <3>1
    <3>3. [Rooms EXCEPT ![b].n = tail' - Rooms[b].at]
            = [Rooms EXCEPT ![b] = [at |-> blk[b].addr, n |-> tail' - blk[b].addr]]
      BY <3>2
    <3>4. Rooms' = [Rooms EXCEPT ![b] = [at |-> blk[b].addr, n |-> tail' - blk[b].addr]]
      BY <2>1 DEF Rooms
    <3>. QED
      BY <3>3, <3>4
  <2>5. Rooms[b] # NoRoom
    BY <2>2, <2>3 DEF NoRoom
  <2>6. Rooms[b].at + Rooms[b].n = tail
    BY <2>2, <2>3
  <2>. QED
    BY <2>1, <2>4, <2>5, <2>6 DEF Layout!Extend, Layout!HasRoom, Rooms, NoRoom
<1>. QED
  BY <1>1, <1>2, <1>3, <1>4 DEF LayoutStep, Layout!Next

\* The buffer manager implements ImageLayout: addresses only grow, and what a
\* mapped block has is never moved, cut or given away, freed blocks included, as
\* long as the client never asks BDrop to revoke.
THEOREM LayoutImplemented ==
  ASSUME TRUE \notin Revoke
  PROVE  Spec => ImplementsLayout
<1>1. Init => Layout!Init
  BY RoomsStart
<1>2. RingIInv /\ RingIInv' /\ LayoutInv /\ [Next]_vars =>
        [Layout!Next]_<<[b \in Block |-> RoomOf(b)], tail>>
  <2>1. SUFFICES ASSUME RingIInv, RingIInv', LayoutInv, [Next]_vars
                 PROVE  [Layout!Next]_<<[b \in Block |-> RoomOf(b)], tail>>
    OBVIOUS
  <2>2. TypeOK /\ TypeOK' /\ ExtentsDisjoint /\ PoolFresh
    BY <2>1 DEF RingIInv, LayoutInv
  <2>3. LayoutStep
    BY <2>1, <2>2, NextIsLayoutStep
  <2>. QED
    BY <2>2, <2>3, StepIsLayouts DEF Rooms
<1>3. Spec => []RingIInv /\ []LayoutInv
  BY RingHolds, LayoutInvHolds
<1>. QED
  BY <1>1, <1>2, <1>3, PTL DEF Spec, ImplementsLayout, Layout!Spec
----------------------------------------------------------------------------
(***************************************************************************)
(* The cells of a head.  A step moves none of them, or puts one head       *)
(* behind everything that its block holds, or ends the process.            *)
(***************************************************************************)

HeadKept(g) ==
  Attached(g)' => /\ Attached(g)
                  /\ head'[g].blk = head[g].blk
                  /\ head'[g].off = head[g].off
                  /\ head'[g].len = head[g].len
OffKept(b) ==
  blk[b].kind # "none" => blk'[b].off = blk[b].off /\ blk'[b].kind # "none"

CellsStay == (\A g \in BufHead : HeadKept(g)) /\ (\A b \in Block : OffKept(b))
Puts(b, h) ==
  /\ blk[b].kind # "none" /\ blk'[b].kind # "none"
  /\ head'[h].blk = b
  /\ head'[h].off >= blk[b].off
  /\ blk'[b].off = head'[h].off + head'[h].len
  /\ \A g \in BufHead \ {h} : HeadKept(g)
  /\ \A c \in Block \ {b} : OffKept(c)
CellsGone == status' # "run" /\ \A g \in BufHead : ~Attached(g)'

CellStep == CellsStay \/ CellsGone \/ \E b \in Block, h \in BufHead : Puts(b, h)

\* A head that was handed cells lies in a block that was allocated.
HeadsHoused ==
  \A h \in BufHead : Attached(h) => /\ head[h].blk \in Block
                                    /\ blk[head[h].blk].kind # "none"
CellInv == AttachedCellsPrivate /\ HeadsHoused

LEMMA HeadNats ==
  ASSUME TypeOK, NEW h \in BufHead
  PROVE  Lo(h) \in Nat /\ Hi(h) \in Nat /\ Lo(h) <= Hi(h)
<1>1. head[h].off \in Nat /\ head[h].len \in Nat
  BY DEF TypeOK
<1>. QED
  BY <1>1 DEF Lo, Hi

\* A head that a step leaves alone keeps its cells and its block.
LEMMA KeptHead ==
  ASSUME NEW g \in BufHead, HeadKept(g), Attached(g)'
  PROVE  Attached(g) /\ Lo(g)' = Lo(g) /\ Hi(g)' = Hi(g) /\ head'[g].blk = head[g].blk
  BY DEF HeadKept, Lo, Hi

LEMMA CellStepKeeps ==
  ASSUME TypeOK, TypeOK', CellInv, CellStep
  PROVE  CellInv'
<1>0. /\ \A g \in BufHead : Attached(g) =>
            /\ head[g].blk \in Block /\ blk[head[g].blk].kind # "none"
            /\ Hi(g) <= blk[head[g].blk].off
            /\ \A h \in BufHead \ {g} : Attached(h) => Apart(h, g)
  BY DEF CellInv, AttachedCellsPrivate, HeadsHoused
<1>1. CASE CellsStay
  <2>1. ASSUME NEW g \in BufHead, Attached(g)'
        PROVE  /\ Attached(g) /\ Lo(g)' = Lo(g) /\ Hi(g)' = Hi(g)
               /\ head'[g].blk = head[g].blk /\ head[g].blk \in Block
               /\ blk'[head[g].blk].kind # "none"
               /\ blk'[head[g].blk].off = blk[head[g].blk].off
    BY <1>0, <1>1, <2>1, KeptHead DEF CellsStay, OffKept
  <2>2. HeadsHoused'
    BY <2>1 DEF HeadsHoused
  <2>3. AttachedCellsPrivate'
    BY <1>0, <2>1 DEF AttachedCellsPrivate, Apart
  <2>. QED
    BY <2>2, <2>3 DEF CellInv
<1>2. CASE CellsGone
  BY <1>2 DEF CellsGone, CellInv, AttachedCellsPrivate, HeadsHoused
<1>3. ASSUME NEW b \in Block, NEW h \in BufHead, Puts(b, h) PROVE CellInv'
  <2>1. /\ blk[b].off \in Nat /\ blk'[b].off = Hi(h)' /\ head'[h].blk = b
        /\ blk[b].off <= Lo(h)' /\ Lo(h)' \in Nat /\ Hi(h)' \in Nat /\ Lo(h)' <= Hi(h)'
        /\ blk'[b].kind # "none"
    <3>1. blk[b].off \in Nat
      BY DEF TypeOK
    <3>2. head'[h].off \in Nat /\ head'[h].len \in Nat
      BY DEF TypeOK
    <3>. QED
      BY <1>3, <3>1, <3>2 DEF Puts, Lo, Hi
  <2>2. ASSUME NEW g \in BufHead \ {h}, Attached(g)'
        PROVE  /\ Attached(g) /\ Lo(g)' = Lo(g) /\ Hi(g)' = Hi(g)
               /\ head'[g].blk = head[g].blk /\ head[g].blk \in Block
               /\ blk'[head[g].blk].kind # "none"
               /\ Hi(g) <= blk[head[g].blk].off
               /\ Hi(g) \in Nat
               /\ head[g].blk # b => blk'[head[g].blk].off = blk[head[g].blk].off
    BY <1>0, <1>3, <2>1, <2>2, KeptHead, HeadNats DEF Puts, OffKept
  <2>3. HeadsHoused'
    BY <2>1, <2>2 DEF HeadsHoused
  <2>4. ASSUME NEW g \in BufHead, Attached(g)' PROVE Hi(g)' <= blk'[head'[g].blk].off
    <3>1. CASE g = h
      BY <2>1, <3>1
    <3>2. CASE g # h /\ head[g].blk = b
      BY <2>1, <2>2, <2>4, <3>2
    <3>3. CASE g # h /\ head[g].blk # b
      BY <2>2, <2>4, <3>3
    <3>. QED
      BY <3>1, <3>2, <3>3
  <2>5. ASSUME NEW g \in BufHead \ {h}, Attached(g)' PROVE Apart(g, h)' /\ Apart(h, g)'
    <3>1. CASE head[g].blk = b
      <4>1. Hi(g)' <= Lo(h)'
        BY <2>1, <2>2, <2>5, <3>1
      <4>. QED
        BY <4>1 DEF Apart
    <3>2. CASE head[g].blk # b
      BY <2>1, <2>2, <2>5, <3>2 DEF Apart
    <3>. QED
      BY <3>1, <3>2
  <2>6. ASSUME NEW f \in BufHead, NEW g \in BufHead \ {f}, Attached(f)', Attached(g)'
        PROVE  Apart(g, f)'
    <3>1. CASE f = h \/ g = h
      BY <2>5, <2>6, <3>1
    <3>2. CASE f # h /\ g # h
      <4>1. Apart(g, f)
        BY <1>0, <2>2, <2>6, <3>2
      <4>. QED
        BY <2>2, <2>6, <3>2, <4>1 DEF Apart
    <3>. QED
      BY <3>1, <3>2
  <2>7. AttachedCellsPrivate'
    BY <2>4, <2>6 DEF AttachedCellsPrivate
  <2>. QED
    BY <2>3, <2>7 DEF CellInv
<1>. QED
  BY <1>1, <1>2, <1>3 DEF CellStep
----------------------------------------------------------------------------
\* Heads and lengths unchanged: no cell moves.
LEMMA StayMovesNoCell ==
  ASSUME \A c \in Block : blk'[c].off = blk[c].off /\ blk'[c].kind = blk[c].kind,
         \A g \in BufHead : /\ head'[g].blk = head[g].blk /\ head'[g].off = head[g].off
                            /\ head'[g].len = head[g].len /\ head'[g].by = head[g].by
  PROVE  CellStep
  BY DEF CellStep, CellsStay, HeadKept, OffKept, Attached

LEMMA DieIsCellStep ==
  ASSUME NEW how \in {"panic", "hang", "bug"}, Die(how)
  PROVE  CellStep
<1>1. head' = NoHeads /\ status' # "run"
  BY DEF Die
<1>2. \A g \in BufHead : head'[g].by = "none"
  BY <1>1 DEF NoHeads, NoHead
<1>. QED
  BY <1>1, <1>2 DEF CellStep, CellsGone, Attached

\* BattachInternal moves the end of the block forward and puts the head there.
LEMMA AttachIsCellStep ==
  ASSUME RingIInv, NEW b \in Block, NEW h \in BufHead, NEW op, NEW by, NEW incr \in Nat,
         NEW align \in Nat \ {0}, InRing(b), Attach(b, h, incr, align, op, by)
  PROVE  CellStep
<1>. DEFINE at == RoundUp(blk[b].off, align)
<1>1. /\ blk \in [Block -> BlkRec] /\ head \in [BufHead -> HeadRec]
      /\ blk[b].off \in Nat /\ blk[b].kind # "none"
  BY DEF RingIInv, RingInv, OwnersOK, TypeOK, BlkRec, HeadRec
<1>2. at \in Nat /\ blk[b].off <= at
  BY <1>1, RoundUpBounds
<1>3. /\ head' = [head EXCEPT ![h] = [st |-> "live", blk |-> b, off |-> at,
                                      op |-> op, by |-> by, len |-> incr]]
      /\ blk' = [blk EXCEPT ![b].off = at + incr,
                            ![b].bkt = IF Mapped(b) THEN Bucket(at + incr) ELSE @]
  BY DEF Attach
<1>. HIDE DEF at
<1>4. /\ head'[h].blk = b /\ head'[h].off = at /\ head'[h].len = incr
      /\ \A g \in BufHead \ {h} : head'[g] = head[g]
      /\ blk'[b].off = at + incr /\ blk'[b].kind = blk[b].kind
      /\ \A c \in Block \ {b} : blk'[c] = blk[c]
  BY <1>1, <1>3 DEF BlkRec
<1>5. Puts(b, h)
  BY <1>1, <1>2, <1>4 DEF Puts, HeadKept, OffKept, Attached
<1>. QED
  BY <1>5 DEF CellStep

\* Balloc puts its head where it likes, but calls no cells its own.
LEMMA BallocIsCellStep ==
  ASSUME RingIInv, NEW b \in Block, NEW h \in BufHead, NEW t \in BufType,
         NEW size, NEW req, NEW inl, BallocNew(b, h, t, size, req, inl)
  PROVE  CellStep
<1>0. blk \in [Block -> BlkRec] /\ head \in [BufHead -> HeadRec]
  BY DEF RingIInv, TypeOK, BlkRec, HeadRec
<1>1. CASE KindOf(t) = "DATA" /\ last = JUNK
  BY <1>1, DieIsCellStep DEF BallocNew
<1>2. CASE ~(KindOf(t) = "DATA" /\ last = JUNK)
  <2>1. /\ blk' = [blk EXCEPT ![b] = NewBlock(KindOf(t))]
        /\ blk[b].kind = "none"
        /\ \/ head' = head
           \/ \E x : head' = [head EXCEPT ![h] = [st |-> "live", blk |-> x, off |-> size,
                                                 op |-> "nil", by |-> "balloc", len |-> size]]
    BY <1>2 DEF BallocNew
  <2>2. \A c \in Block : OffKept(c)
    BY <1>0, <2>1 DEF OffKept
  <2>3. ASSUME NEW g \in BufHead PROVE HeadKept(g)
    <3>1. CASE head'[g] = head[g]
      BY <3>1 DEF HeadKept, Attached
    <3>2. CASE head'[g].by = "balloc"
      BY <3>2 DEF HeadKept, Attached
    <3>. QED
      BY <1>0, <2>1, <3>1, <3>2
  <2>. QED
    BY <2>2, <2>3 DEF CellStep, CellsStay
<1>. QED
  BY <1>1, <1>2

\* The heads of a flush or a drop change their state, never their cells.
LEMMA FlushIsCellStep ==
  ASSUME RingIInv, Flush \/ MapStep
  PROVE  CellStep
<1>0. blk \in [Block -> BlkRec] /\ head \in [BufHead -> HeadRec]
  BY DEF RingIInv, TypeOK, BlkRec, HeadRec
<1>1. CASE Die("panic") \/ Die("bug")
  BY <1>1, DieIsCellStep
<1>2. ASSUME NEW b, MapBhInternal(b), head' = head PROVE CellStep
  <2>1. \A c \in Block : blk'[c].off = blk[c].off /\ blk'[c].kind = blk[c].kind
    BY <1>0, <1>2 DEF MapBhInternal, BlkRec
  <2>. QED
    BY <1>2, <2>1, StayMovesNoCell
<1>3. CASE blk' = blk /\ head' = head
  BY <1>3, StayMovesNoCell
<1>4. CASE MapStep
  BY <1>1, <1>2, <1>3, <1>4 DEF MapStep
<1>5. CASE FlushBlock
  BY <1>2, <1>3, <1>5 DEF FlushBlock
<1>6. ASSUME NEW bh \in BufHead, FlushHead(bh) PROVE CellStep
  <2>1. CASE head' = [head EXCEPT ![bh].st = "gone"] /\ blk' = blk
    <3>1. \A g \in BufHead : /\ head'[g].blk = head[g].blk /\ head'[g].off = head[g].off
                             /\ head'[g].len = head[g].len /\ head'[g].by = head[g].by
      BY <1>0, <2>1 DEF HeadRec
    <3>. QED
      BY <2>1, <3>1, StayMovesNoCell
  <2>. QED
    BY <1>1, <1>3, <1>6, <2>1 DEF FlushHead
<1>7. CASE FlushEnd
  <2>1. /\ head' = head
        /\ blk' = blk \/ blk' = [blk EXCEPT ![call.p].bkt = BktAfterFree(call.p, heap)]
    BY <1>7 DEF FlushEnd
  <2>2. \A c \in Block : blk'[c].off = blk[c].off /\ blk'[c].kind = blk[c].kind
    BY <1>0, <2>1 DEF BlkRec
  <2>. QED
    BY <2>1, <2>2, StayMovesNoCell
<1>. QED
  BY <1>4, <1>5, <1>6, <1>7 DEF Flush

LEMMA BattachIsCellStep ==
  ASSUME RingIInv, NEW bh \in BufHead, NEW new \in BufHead, NEW t \in BufType,
         NEW size \in Nat, Battach(bh, new, t, size)
  PROVE  CellStep
<1>1. CASE Refuse
  BY <1>1, StayMovesNoCell DEF Refuse
<1>2. CASE Attach(head[bh].blk, new, size, AlignOf(t), "nil", "attach")
  <2>1. head[bh].blk \in Block /\ InRing(head[bh].blk)
    BY DEF Battach, Usable, RingIInv, RingInv, OwnersOK
  <2>2. AlignOf(t) \in Nat \ {0}
    BY Alignment
  <2>. QED
    BY <1>2, <2>1, <2>2, AttachIsCellStep
<1>. QED
  BY <1>1, <1>2 DEF Battach

LEMMA ClientIsCellStep ==
  ASSUME RingIInv, Client
  PROVE  CellStep
<1>0. blk \in [Block -> BlkRec] /\ head \in [BufHead -> HeadRec]
  BY DEF RingIInv, TypeOK, BlkRec, HeadRec
<1>1. CASE blk' = blk /\ head' = head
  BY <1>1, StayMovesNoCell
<1>2. CASE Refuse
  BY <1>1, <1>2 DEF Refuse
<1>3. ASSUME NEW t, NEW size, NEW req, NEW inl, BallocSearch(t, size, req, inl)
      PROVE  CellStep
  <2>1. Die("panic") \/ Die("hang")
    BY <1>3 DEF BallocSearch
  <2>. QED
    BY <2>1, DieIsCellStep
<1>4. ASSUME NEW bh \in BufHead, Usable(bh) PROVE head[bh].blk \in Block /\ InRing(head[bh].blk)
  BY <1>4 DEF Usable, RingIInv, RingInv, OwnersOK
<1>5. ASSUME NEW bh \in BufHead, NEW new \in BufHead, NEW t \in BufType, NEW size \in Size,
             Battach(bh, new, t, size)
      PROVE  CellStep
  <2>1. size \in Nat
    BY SizeAssumption
  <2>. QED
    BY <1>5, <2>1, BattachIsCellStep
<1>6. ASSUME NEW bh \in BufHead, NEW incr \in Grow, BhBalloon(bh, incr) PROVE CellStep
  <2>1. Usable(bh) /\ incr \in Nat /\ 1 \in Nat \ {0}
    BY <1>6, SizeAssumption DEF BhBalloon
  <2>2. CASE Attach(head[bh].blk, bh, incr, 1, head[bh].op, "balloon")
    BY <1>4, <2>1, <2>2, AttachIsCellStep
  <2>. QED
    BY <1>2, <1>6, <2>2 DEF BhBalloon
<1>7. ASSUME NEW bh \in BufHead, NEW op, SetOp(bh, op) PROVE CellStep
  <2>1. head' = [head EXCEPT ![bh].op = op] /\ blk' = blk
    BY <1>7 DEF SetOp
  <2>2. \A g \in BufHead : /\ head'[g].blk = head[g].blk /\ head'[g].off = head[g].off
                           /\ head'[g].len = head[g].len /\ head'[g].by = head[g].by
    BY <1>0, <2>1 DEF HeadRec
  <2>. QED
    BY <2>1, <2>2, StayMovesNoCell
<1>8. ASSUME NEW bh \in BufHead, NEW revoke, BDrop(bh, revoke) PROVE CellStep
  <2>1. CASE Die("panic")
    BY <2>1, DieIsCellStep
  <2>2. CASE ~ListDelPanics(heap, bh)
    <3>1. /\ head' = [head EXCEPT ![bh].st = "gone", ![bh].op = "drop"]
          /\ \/ blk' = blk
             \/ blk' = [blk EXCEPT ![head[bh].blk].bkt =
                          BktAfterFree(head[bh].blk, ListDel(heap, bh))]
      BY <1>8, <2>2 DEF BDrop
    <3>2. \A g \in BufHead : /\ head'[g].blk = head[g].blk /\ head'[g].off = head[g].off
                             /\ head'[g].len = head[g].len /\ head'[g].by = head[g].by
      BY <1>0, <3>1 DEF HeadRec
    <3>3. \A c \in Block : blk'[c].off = blk[c].off /\ blk'[c].kind = blk[c].kind
      BY <1>0, <3>1 DEF BlkRec
    <3>. QED
      BY <3>2, <3>3, StayMovesNoCell
  <2>. QED
    BY <1>8, <2>1, <2>2 DEF BDrop
<1>9. ASSUME NEW x, MapBh(x) \/ ErofsBflush(x) PROVE CellStep
  BY <1>1, <1>9 DEF MapBh, ErofsBflush
<1>10. ASSUME NEW size, NEW req, NEW inl, BallocNoSpace(size, req, inl) PROVE CellStep
  BY <1>2, <1>10 DEF BallocNoSpace
<1>. QED
  BY <1>3, <1>5, <1>6, <1>7, <1>8, <1>9, <1>10, BallocIsCellStep DEF Client

\* Cells that Battach or BhBalloon gave to a head stay inside its block and belong
\* to no other such head, whatever is mapped, dropped or flushed in between.
THEOREM CellsStayPrivate == Spec => []AttachedCellsPrivate
<1>1. Init => CellInv
  BY DEF Init, NoHeads, NoHead, CellInv, AttachedCellsPrivate, HeadsHoused, Attached
<1>2. RingIInv /\ RingIInv' /\ CellInv /\ [Next]_vars => CellInv'
  <2>1. SUFFICES ASSUME RingIInv, RingIInv', CellInv, [Next]_vars PROVE CellInv'
    OBVIOUS
  <2>2. CellStep
    <3>1. CASE UNCHANGED vars
      BY <3>1, StayMovesNoCell DEF vars
    <3>. QED
      BY <2>1, <3>1, ClientIsCellStep, FlushIsCellStep DEF Next
  <2>. QED
    BY <2>1, <2>2, CellStepKeeps DEF RingIInv
<1>3. CellInv => AttachedCellsPrivate
  BY DEF CellInv
<1>. QED
  BY <1>1, <1>2, <1>3, RingHolds, PTL DEF Spec
----------------------------------------------------------------------------
(***************************************************************************)
(* The zeroes of a flush.                                                  *)
(***************************************************************************)

LEMMA Times ==
  ASSUME NEW x \in Nat, NEW y \in Nat, x <= y
  PROVE  x * BlkSz <= y * BlkSz
<1>1. BlkSz \in Nat
  BY BlkSzAssumption
<1>2. PICK d \in Nat : y = x + d
  <2>1. y - x \in Nat /\ y = x + (y - x)
    OBVIOUS
  <2>. QED
    BY <2>1
<1>3. y * BlkSz = x * BlkSz + d * BlkSz
  BY <1>1, <1>2
<1>4. d * BlkSz \in Nat /\ x * BlkSz \in Nat
  BY <1>1
<1>. QED
  BY <1>3, <1>4

\* The last file-system block of a run that does not fill it: the cells behind
\* the run's end are its padding.
LEMMA PaddingFollows ==
  ASSUME NEW off \in Nat, off % BlkSz # 0
  PROVE  /\ BlkSz - (off % BlkSz) \in 1..BlkSz
         /\ off + (BlkSz - (off % BlkSz)) = BlkSz * NBlk(off)
         /\ NBlk(off) \in Nat \ {0}
<1>0. BlkSz \in Nat \ {0}
  BY BlkSzAssumption
<1>1. PICK k \in Int, r \in 0..(BlkSz - 1) : off = BlkSz * k + r /\ off % BlkSz = r
  BY <1>0, DivExists
<1>2. r \in 1..(BlkSz - 1)
  BY <1>0, <1>1
<1>3. off + (BlkSz - 1) = BlkSz * (k + 1) + (r - 1)
  <2>1. BlkSz * (k + 1) = BlkSz * k + BlkSz
    BY <1>0
  <2>. QED
    BY <1>0, <1>1, <1>2, <2>1
<1>4. NBlk(off) = k + 1
  <2>. DEFINE q == k + 1
              e == r - 1
  <2>1. off \in Int /\ q \in Int /\ e \in 0..(BlkSz - 1) /\ off + (BlkSz - 1) = BlkSz * q + e
    BY <1>0, <1>2, <1>3
  <2>. HIDE DEF q, e
  <2>2. NBlk(off) = q
    BY <2>1, BlocksOf
  <2>. QED
    BY <2>2 DEF q
<1>5. off + (BlkSz - r) = BlkSz * (k + 1)
  BY <1>0, <1>1, <1>2, <1>3
<1>6. NBlk(off) \in Nat /\ NBlk(off) # 0
  <2>1. off # 0
    BY <1>0, <1>1, <1>2
  <2>. QED
    BY <2>1, NBlkBounds, NBlkZero
<1>. QED
  BY <1>0, <1>1, <1>2, <1>4, <1>5, <1>6

\* The cells [lo, hi) behind p's data touch the data of no mapped block.
LEMMA PaddingIsFree ==
  ASSUME TypeOK, ExtentsDisjoint, NEW p \in Block, Mapped(p), Padding(p) # BlkSz,
         NEW b \in Block, Mapped(b)
  PROVE  DisjointRuns(Pos(blk[b].addr), blk[b].off,
                      Pos(EndBlk(p)) - Padding(p),
                      Pos(EndBlk(p)) - (Pos(EndBlk(p)) - Padding(p)))
<1>. DEFINE n(c)  == NBlk(blk[c].off)
            lo    == Pos(EndBlk(p)) - Padding(p)
            off   == blk[p].off
<1>0. /\ BlkSz \in Nat \ {0}
      /\ blk[p].addr \in Nat /\ off \in Nat /\ n(p) \in Nat
      /\ blk[b].addr \in Nat /\ blk[b].off \in Nat /\ n(b) \in Nat
  BY BlkSzAssumption, BlockNats DEF BlkRec
<1>1. off % BlkSz # 0
  BY <1>0 DEF Padding
<1>2. Padding(p) \in 1..BlkSz /\ off + Padding(p) = BlkSz * n(p) /\ n(p) # 0
  BY <1>0, <1>1, PaddingFollows DEF Padding
<1>3. /\ Pos(EndBlk(p)) = Pos(blk[p].addr) + BlkSz * n(p)
      /\ Pos(blk[p].addr) \in Nat /\ Pos(EndBlk(p)) \in Nat
  BY <1>0 DEF Pos, EndBlk
<1>4. lo = Pos(blk[p].addr) + off /\ lo \in Nat /\ Pos(EndBlk(p)) - lo = Padding(p)
  BY <1>0, <1>2, <1>3
<1>5. CASE b = p
  BY <1>4, <1>5 DEF DisjointRuns
<1>6. CASE b # p
  <2>1. DisjointRuns(blk[b].addr, n(b), blk[p].addr, n(p))
    BY <1>6 DEF ExtentsDisjoint
  <2>2. CASE n(b) = 0
    <3>1. blk[b].off = 0
      BY <1>0, <2>2, NBlkZero
    <3>. QED
      BY <3>1 DEF DisjointRuns
  <2>3. CASE blk[b].addr + n(b) <= blk[p].addr
    <3>1. (blk[b].addr + n(b)) * BlkSz <= blk[p].addr * BlkSz
      BY <1>0, <2>3, Times
    <3>2. blk[b].off <= BlkSz * n(b)
      BY <1>0, NBlkBounds
    <3>3. (blk[b].addr + n(b)) * BlkSz = Pos(blk[b].addr) + BlkSz * n(b)
      BY <1>0 DEF Pos
    <3>4. Pos(blk[b].addr) + blk[b].off <= Pos(blk[p].addr)
      <4>1. Pos(blk[b].addr) \in Nat /\ BlkSz * n(b) \in Nat
        BY <1>0 DEF Pos
      <4>2. Pos(blk[b].addr) + BlkSz * n(b) <= Pos(blk[p].addr)
        BY <3>1, <3>3 DEF Pos
      <4>. QED
        BY <1>0, <1>3, <3>2, <4>1, <4>2
    <3>5. Pos(blk[b].addr) \in Nat
      BY <1>0 DEF Pos
    <3>6. Pos(blk[b].addr) + blk[b].off <= lo
      BY <1>0, <1>3, <1>4, <3>4, <3>5
    <3>. QED
      BY <3>6 DEF DisjointRuns
  <2>4. CASE blk[p].addr + n(p) <= blk[b].addr
    <3>1. Pos(EndBlk(p)) <= Pos(blk[b].addr)
      BY <1>0, <2>4, Times DEF Pos, EndBlk
    <3>2. lo + (Pos(EndBlk(p)) - lo) <= Pos(blk[b].addr)
      BY <1>3, <1>4, <3>1
    <3>. QED
      BY <3>2 DEF DisjointRuns
  <2>. QED
    BY <1>2, <2>1, <2>2, <2>3, <2>4 DEF DisjointRuns
<1>. QED
  BY <1>5, <1>6

\* Only the end of a block's flush zeroes anything.
LEMMA OthersFillNothing ==
  ASSUME Next, ~FlushEnd
  PROVE  fill' = NoFill
<1>1. CASE Quiet
  BY <1>1 DEF Quiet
<1>2. CASE \E how : Die(how)
  BY <1>1, <1>2 DEF Die
<1>3. CASE Refuse
  BY <1>1, <1>3 DEF Refuse
<1>4. ASSUME NEW b, NEW h, NEW incr, NEW align, NEW op, NEW by, Attach(b, h, incr, align, op, by)
      PROVE  fill' = NoFill
  BY <1>1, <1>4 DEF Attach
<1>5. CASE MapStep
  BY <1>1, <1>2, <1>5 DEF MapStep
<1>6. CASE Flush
  <2>1. CASE FlushBlock
    BY <2>1 DEF FlushBlock
  <2>2. ASSUME NEW bh \in BufHead, FlushHead(bh) PROVE fill' = NoFill
    BY <1>1, <1>2, <2>2 DEF FlushHead
  <2>. QED
    BY <1>6, <2>1, <2>2 DEF Flush
<1>7. CASE Client
  <2>1. ASSUME NEW x, MapBh(x) \/ ErofsBflush(x) PROVE fill' = NoFill
    BY <1>1, <2>1 DEF MapBh, ErofsBflush
  <2>2. ASSUME NEW t, NEW size, NEW req, NEW inl, BallocSearch(t, size, req, inl)
        PROVE  fill' = NoFill
    BY <1>2, <2>2 DEF BallocSearch
  <2>3. ASSUME NEW size, NEW req, NEW inl, BallocNoSpace(size, req, inl) PROVE fill' = NoFill
    BY <1>3, <2>3 DEF BallocNoSpace
  <2>4. ASSUME NEW b, NEW h, NEW t, NEW size, NEW req, NEW inl,
               BallocNew(b, h, t, size, req, inl)
        PROVE  fill' = NoFill
    BY <1>1, <1>2, <2>4 DEF BallocNew
  <2>5. ASSUME NEW bh, NEW new, NEW t, NEW size, Battach(bh, new, t, size) PROVE fill' = NoFill
    BY <1>3, <1>4, <2>5 DEF Battach
  <2>6. ASSUME NEW bh, NEW incr, BhBalloon(bh, incr) PROVE fill' = NoFill
    BY <1>3, <1>4, <2>6 DEF BhBalloon
  <2>7. ASSUME NEW bh, NEW op, SetOp(bh, op) PROVE fill' = NoFill
    BY <1>1, <2>7 DEF SetOp
  <2>8. ASSUME NEW bh, NEW revoke, BDrop(bh, revoke) PROVE fill' = NoFill
    BY <1>1, <1>2, <2>8 DEF BDrop
  <2>. QED
    BY <1>7, <2>1, <2>2, <2>3, <2>4, <2>5, <2>6, <2>7, <2>8 DEF Client
<1>. QED
  BY <1>5, <1>6, <1>7 DEF Next

\* ErofsBflush's zero-fill never touches data of any mapped block, freed ones
\* included, as long as the client never asks BDrop to revoke.
THEOREM FillsSpareData ==
  ASSUME TRUE \notin Revoke
  PROVE  Spec => FillsOnlyPadding
<1>1. RingIInv /\ LayoutInv /\ [Next]_vars =>
        [\A b \in Block :
           Mapped(b) => DisjointRuns(Pos(blk[b].addr), blk[b].off,
                                     fill'.lo, fill'.hi - fill'.lo)]_vars
  <2>1. SUFFICES ASSUME RingIInv, LayoutInv, Next, NEW b \in Block, Mapped(b)
                 PROVE  DisjointRuns(Pos(blk[b].addr), blk[b].off,
                                     fill'.lo, fill'.hi - fill'.lo)
    OBVIOUS
  <2>2. CASE fill' = NoFill
    BY <2>2 DEF NoFill, DisjointRuns
  <2>3. CASE FlushEnd /\ fill' # NoFill
    <3>1. call.fn = "flush" /\ call.at = "end"
      BY <2>3 DEF FlushEnd, Flushing
    <3>2. call.p \in Block /\ Mapped(call.p)
      BY <2>1, <3>1, WalkAt, RingIsAllocated
    <3>3. /\ Padding(call.p) # BlkSz
          /\ fill' = [lo |-> Pos(EndBlk(call.p)) - Padding(call.p), hi |-> Pos(EndBlk(call.p))]
      BY <2>3 DEF FlushEnd
    <3>. QED
      BY <2>1, <3>2, <3>3, PaddingIsFree DEF LayoutInv, RingIInv
  <2>. QED
    BY <2>1, <2>2, <2>3, OthersFillNothing
<1>2. Spec => []RingIInv /\ []LayoutInv
  BY RingHolds, LayoutInvHolds
<1>. QED
  BY <1>1, <1>2, PTL DEF Spec, FillsOnlyPadding
----------------------------------------------------------------------------
(***************************************************************************)
(* The buckets.  A step leaves a block as it was, or maps, extends, lists  *)
(* or frees one block of the list, or ends the process.                    *)
(***************************************************************************)

BktTrue(b) == blk[b].bkt = (IF InRing(b) /\ Mapped(b) THEN Bucket(blk[b].off) ELSE NIL)

BktStays(c) ==
  /\ blk'[c].addr = blk[c].addr /\ blk'[c].off = blk[c].off /\ blk'[c].bkt = blk[c].bkt
  /\ InRing(c)' <=> InRing(c)

LEMMA StayingBkt ==
  ASSUME NEW c, BktTrue(c), BktStays(c)
  PROVE  BktTrue(c)'
  BY DEF BktTrue, BktStays, Mapped

\* The blocks of a list that one block has left, or joined.
LEMMA RemovedRange ==
  ASSUME NEW s \in Seq(Block), NEW i \in 1..Len(s), \A j, k \in 1..Len(s) : j < k => s[j] # s[k],
         NEW c
  PROVE  c \in Range(RemoveAt(s, i)) <=> c \in Range(s) /\ c # s[i]
<1>. DEFINE r == RemoveAt(s, i)
<1>a. /\ r \in Seq(Block) /\ Len(r) = Len(s) - 1
      /\ \A j \in 1..(i - 1) : r[j] = s[j]
      /\ \A j \in i..(Len(s) - 1) : r[j] = s[j + 1]
  BY RemoveProps, Zenon
<1>. HIDE DEF r
<1>b. Len(s) \in Nat
  OBVIOUS
<1>1. /\ r \in Seq(Block) /\ Len(r) = Len(s) - 1 /\ Len(s) \in Nat
      /\ \A j \in 1..(i - 1) : r[j] = s[j]
      /\ \A j \in i..(Len(s) - 1) : r[j] = s[j + 1]
  BY <1>a, <1>b
<1>0. DOMAIN r = 1..Len(r) /\ DOMAIN s = 1..Len(s)
  BY <1>1
<1>2. ASSUME NEW j \in 1..Len(r), r[j] = c PROVE c \in Range(s) /\ c # s[i]
  <2>1. CASE j < i
    <3>1. j \in 1..(i - 1) /\ j \in 1..Len(s)
      BY <1>1, <2>1
    <3>2. c = s[j] /\ c # s[i]
      BY <1>1, <1>2, <2>1, <3>1
    <3>. QED
      BY <3>1, <3>2 DEF Range
  <2>2. CASE j >= i
    <3>1. c = s[j + 1] /\ j + 1 \in 1..Len(s) /\ i < j + 1
      BY <1>1, <1>2, <2>2
    <3>. QED
      BY <3>1 DEF Range
  <2>. QED
    BY <2>1, <2>2
<1>3. ASSUME NEW j \in 1..Len(s), s[j] = c, c # s[i] PROVE c \in Range(r)
  <2>1. CASE j < i
    <3>1. j \in 1..Len(r) /\ r[j] = c
      BY <1>1, <1>3, <2>1
    <3>. QED
      BY <1>0, <3>1 DEF Range
  <2>2. CASE j > i
    <3>1. j - 1 \in 1..Len(r) /\ j - 1 \in i..(Len(s) - 1) /\ (j - 1) + 1 = j
      BY <1>1, <2>2
    <3>2. r[j - 1] = c
      BY <1>1, <1>3, <3>1
    <3>. QED
      BY <1>0, <3>1, <3>2 DEF Range
  <2>. QED
    BY <1>3, <2>1, <2>2
<1>4. c \in Range(r) <=> c \in Range(s) /\ c # s[i]
  BY <1>0, <1>2, <1>3 DEF Range
<1>. QED
  BY <1>4 DEF r

LEMMA InsertedRange ==
  ASSUME NEW s \in Seq(Block), NEW i \in 1..(Len(s) + 1), NEW b \in Block, NEW r \in Seq(Block),
         Len(r) = Len(s) + 1, r[i] = b,
         \A j \in 1..(i - 1) : r[j] = s[j],
         \A j \in (i + 1)..(Len(s) + 1) : r[j] = s[j - 1],
         NEW c
  PROVE  c \in Range(r) <=> c \in Range(s) \/ c = b
<1>0. Len(s) \in Nat
  OBVIOUS
<1>1. ASSUME NEW j \in 1..Len(r), r[j] = c, c # b PROVE c \in Range(s)
  <2>1. CASE j < i
    BY <1>0, <1>1, <2>1 DEF Range
  <2>2. CASE j > i
    <3>1. j - 1 \in 1..Len(s) /\ s[j - 1] = c
      BY <1>0, <1>1, <2>2
    <3>. QED
      BY <3>1 DEF Range
  <2>. QED
    BY <1>1, <2>1, <2>2
<1>2. ASSUME NEW j \in 1..Len(s), s[j] = c PROVE c \in Range(r)
  <2>1. CASE j < i
    <3>1. j \in 1..Len(r) /\ r[j] = c
      BY <1>0, <1>2, <2>1
    <3>. QED
      BY <3>1 DEF Range
  <2>2. CASE j >= i
    <3>1. j + 1 \in (i + 1)..(Len(s) + 1) /\ j + 1 \in 1..Len(r) /\ (j + 1) - 1 = j
      BY <1>0, <2>2
    <3>2. r[j + 1] = c
      BY <1>2, <3>1
    <3>. QED
      BY <3>1, <3>2 DEF Range
  <2>. QED
    BY <2>1, <2>2
<1>3. b \in Range(r)
  BY <1>0 DEF Range
<1>. QED
  BY <1>1, <1>2, <1>3 DEF Range

LEMMA DieKeepsBkt ==
  ASSUME NEW how, Die(how)
  PROVE  BucketMatches'
<1>1. blk' = NoBlocks /\ blks' = <<>>
  BY DEF Die
<1>. QED
  BY <1>1 DEF BucketMatches, NoBlocks, NoBlock, Mapped

LEMMA MapKeepsBkt ==
  ASSUME TypeOK, BucketMatches, NEW b \in Block, InRing(b), MapBhInternal(b), blks' = blks
  PROVE  BucketMatches'
<1>0. blk \in [Block -> BlkRec] /\ tail \in Nat /\ (~Mapped(b) => blk[b].bkt = NIL)
  BY DEF TypeOK, BlkRec, BucketMatches
<1>1. ASSUME NEW c \in Block PROVE InRing(c)' <=> InRing(c)
  BY DEF InRing
<1>2. ASSUME NEW c \in Block \ {b} PROVE BktTrue(c)'
  <2>1. BktTrue(c)
    BY DEF BucketMatches, BktTrue
  <2>2. blk'[c] = blk[c]
    BY <1>0 DEF MapBhInternal
  <2>. QED
    BY <1>1, <2>1, <2>2, StayingBkt DEF BktStays
<1>3. BktTrue(b)'
  <2>1. CASE Mapped(b)
    <3>1. blk' = [blk EXCEPT ![b].addr = blk[b].addr, ![b].bkt = blk[b].bkt]
      BY <1>0, <2>1 DEF MapBhInternal, BlkRec
    <3>2. blk'[b].addr = blk[b].addr /\ blk'[b].off = blk[b].off /\ blk'[b].bkt = blk[b].bkt
      BY <1>0, <3>1 DEF BlkRec
    <3>3. BktTrue(b)
      BY DEF BucketMatches, BktTrue
    <3>. QED
      BY <1>1, <3>2, <3>3, StayingBkt DEF BktStays
  <2>2. CASE ~Mapped(b)
    <3>1. blk' = [blk EXCEPT ![b].addr = tail, ![b].bkt = Bucket(blk[b].off)]
      BY <1>0, <2>2 DEF MapBhInternal, BlkRec
    <3>2. blk'[b].addr = tail /\ blk'[b].off = blk[b].off /\ blk'[b].bkt = Bucket(blk[b].off)
      BY <1>0, <3>1 DEF BlkRec
    <3>3. Mapped(b)' /\ InRing(b)'
      BY <1>0, <1>1, <3>2, SizeAssumption DEF Mapped
    <3>. QED
      BY <3>2, <3>3 DEF BktTrue, Bucket
  <2>. QED
    BY <2>1, <2>2
<1>. QED
  BY <1>2, <1>3 DEF BucketMatches, BktTrue

LEMMA AttachKeepsBkt ==
  ASSUME TypeOK, BucketMatches, NEW b \in Block, InRing(b), NEW h, NEW op, NEW by,
         NEW incr, NEW align, Attach(b, h, incr, align, op, by)
  PROVE  BucketMatches'
<1>. DEFINE off == RoundUp(blk[b].off, align) + incr
<1>0. blk \in [Block -> BlkRec] /\ (~Mapped(b) => blk[b].bkt = NIL)
  BY DEF TypeOK, BlkRec, BucketMatches
<1>1. /\ blk' = [blk EXCEPT ![b].off = off, ![b].bkt = IF Mapped(b) THEN Bucket(off) ELSE @]
      /\ blks' = blks
  BY DEF Attach
<1>. HIDE DEF off
<1>2. ASSUME NEW c \in Block PROVE InRing(c)' <=> InRing(c)
  BY <1>1 DEF InRing
<1>3. ASSUME NEW c \in Block \ {b} PROVE BktTrue(c)'
  <2>1. BktTrue(c) /\ blk'[c] = blk[c]
    BY <1>0, <1>1 DEF BucketMatches, BktTrue
  <2>. QED
    BY <1>2, <2>1, StayingBkt DEF BktStays
<1>4. BktTrue(b)'
  <2>1. /\ blk'[b].addr = blk[b].addr /\ blk'[b].off = off
        /\ blk'[b].bkt = IF Mapped(b) THEN Bucket(off) ELSE NIL
    BY <1>0, <1>1 DEF BlkRec
  <2>2. InRing(b)' /\ (Mapped(b)' <=> Mapped(b))
    BY <1>2, <2>1 DEF Mapped
  <2>. QED
    BY <2>1, <2>2 DEF BktTrue, Bucket
<1>. QED
  BY <1>3, <1>4 DEF BucketMatches, BktTrue

\* Of ErofsBfree's two ends one leaves the block alone, the other takes it out
\* of the list and of its bucket.
LEMMA BfreeKeepsBkt ==
  ASSUME RingIInv, BucketMatches, NEW b \in Block, InRing(b), NEW hp, ErofsBfree(b, hp),
         blk' = [blk EXCEPT ![b].bkt = BktAfterFree(b, hp)]
  PROVE  BucketMatches'
<1>0. /\ blk \in [Block -> BlkRec] /\ blks \in Seq(Block)
      /\ \A i, j \in 1..Len(blks) : i < j => blks[i] # blks[j]
  BY DEF RingIInv, RingInv, MappedFirst, TypeOK, BlkRec
<1>1. /\ \A c \in Block : blk'[c].addr = blk[c].addr /\ blk'[c].off = blk[c].off
      /\ \A c \in Block \ {b} : blk'[c].bkt = blk[c].bkt
      /\ blk'[b].bkt = BktAfterFree(b, hp)
  BY <1>0 DEF BlkRec
<1>2. CASE IsListEmpty(hp, b)
  <2>1. blks' = blks /\ blk'[b].bkt = blk[b].bkt
    BY <1>1, <1>2 DEF ErofsBfree, BktAfterFree
  <2>2. ASSUME NEW c \in Block PROVE BktTrue(c)'
    <3>1. BktTrue(c)
      BY DEF BucketMatches, BktTrue
    <3>2. BktStays(c)
      BY <1>1, <2>1 DEF BktStays, InRing
    <3>. QED
      BY <3>1, <3>2, StayingBkt
  <2>. QED
    BY <2>2 DEF BucketMatches, BktTrue
<1>3. CASE ~IsListEmpty(hp, b)
  <2>1. blks' = RemoveAt(blks, Index(b)) /\ blk'[b].bkt = NIL
    BY <1>1, <1>3 DEF ErofsBfree, BktAfterFree
  <2>2. Index(b) \in 1..Len(blks) /\ blks[Index(b)] = b
    BY <1>0, IndexOf DEF Index, InRing
  <2>3. ASSUME NEW c \in Block PROVE InRing(c)' <=> InRing(c) /\ c # b
    BY <1>0, <2>1, <2>2, RemovedRange DEF InRing
  <2>4. ASSUME NEW c \in Block PROVE BktTrue(c)'
    <3>1. CASE c = b
      BY <2>1, <2>3, <3>1 DEF BktTrue
    <3>2. CASE c # b
      <4>1. BktTrue(c)
        BY DEF BucketMatches, BktTrue
      <4>2. BktStays(c)
        BY <1>1, <2>3, <3>2 DEF BktStays
      <4>. QED
        BY <4>1, <4>2, StayingBkt
    <3>. QED
      BY <3>1, <3>2
  <2>. QED
    BY <2>4 DEF BucketMatches, BktTrue
<1>. QED
  BY <1>2, <1>3

\* A new block is unmapped, and in no bucket.
LEMMA BallocKeepsBkt ==
  ASSUME RingIInv, BucketMatches, NEW b \in Block, NEW h, NEW t \in BufType,
         NEW size, NEW req, NEW inl, BallocNew(b, h, t, size, req, inl)
  PROVE  BucketMatches'
<1>1. CASE KindOf(t) = "DATA" /\ last = JUNK
  BY <1>1, DieKeepsBkt DEF BallocNew
<1>2. CASE ~(KindOf(t) = "DATA" /\ last = JUNK)
  <2>1. /\ blk \in [Block -> BlkRec] /\ blks \in Seq(Block)
        /\ blk' = [blk EXCEPT ![b] = NewBlock(KindOf(t))]
        /\ blks' = Inserted(b, t)
    BY <1>2 DEF BallocNew, RingIInv, TypeOK, BlkRec
  <2>2. ASSUME NEW c \in Block \ {b} PROVE InRing(c)' <=> InRing(c)
    <3>. DEFINE ring == Inserted(b, t)
    <3>1. PICK k \in 1..(Len(blks) + 1) :
            /\ ring \in Seq(Block) /\ Len(ring) = Len(blks) + 1 /\ ring[k] = b
            /\ \A j \in 1..(k - 1) : ring[j] = blks[j]
            /\ \A j \in (k + 1)..(Len(blks) + 1) : ring[j] = blks[j - 1]
            /\ \A j \in k..Len(blks) : ~Mapped(blks[j])
      BY <1>2, InsertionPoint
    <3>2. blks' = ring
      BY <2>1
    <3>. HIDE DEF ring
    <3>3. c \in Range(ring) <=> c \in Range(blks) \/ c = b
      BY <2>1, <3>1, InsertedRange
    <3>. QED
      BY <3>2, <3>3 DEF InRing
  <2>3. ASSUME NEW c \in Block \ {b} PROVE BktTrue(c)'
    <3>1. BktTrue(c) /\ blk'[c] = blk[c]
      BY <2>1 DEF BucketMatches, BktTrue
    <3>. QED
      BY <2>2, <3>1, StayingBkt DEF BktStays
  <2>4. BktTrue(b)'
    <3>1. blk'[b].addr = NULL_ADDR /\ blk'[b].bkt = NIL
      BY <2>1 DEF NewBlock
    <3>. QED
      BY <3>1 DEF BktTrue, Mapped
  <2>. QED
    BY <2>3, <2>4 DEF BucketMatches, BktTrue
<1>. QED
  BY <1>1, <1>2

\* The block that MapBh's next turn maps is one of the list.
LEMMA MapTurnInRing ==
  ASSUME RingIInv, MapStep, call.t # JUNK, NextBlk(call.t) # BlkH
  PROVE  \E i \in 1..Len(blks) :
           /\ blks[i] = NextBlk(call.t)
           /\ \A j \in 1..(i - 1) : Mapped(blks[j])
           /\ \A j \in i..Len(blks) : ~Mapped(blks[j])
<1>1. call.t = last /\ last \in Block \cup {BlkH} /\ blks \in Seq(Block) /\ MappedFirst
  BY DEF MapStep, RingIInv, RingInv, WalkOK, TypeOK
<1>2. CASE last = BlkH
  <2>1. blks # <<>> /\ NextBlk(call.t) = blks[1]
    BY <1>1, <1>2, FirstOf
  <2>2. 1 \in 1..Len(blks)
    BY <1>1, <2>1
  <2>. QED
    BY <1>1, <1>2, <2>1, <2>2 DEF MappedFirst
<1>3. CASE last \in Block
  <2>1. PICK k \in 1..Len(blks) :
          /\ blks[k] = last /\ Mapped(last)
          /\ \A j \in (k + 1)..Len(blks) : ~Mapped(blks[j])
    BY <1>1, <1>3 DEF MappedFirst
  <2>2. NextBlk(last) = IF k = Len(blks) THEN BlkH ELSE blks[k + 1]
    <3>1. Distinct
      BY <1>1 DEF MappedFirst, Distinct
    <3>. QED
      BY <1>1, <2>1, <3>1, NextOf
  <2>3. k # Len(blks) /\ NextBlk(call.t) = blks[k + 1] /\ k + 1 \in 1..Len(blks)
    BY <1>1, <2>2
  <2>4. \A j \in 1..k : Mapped(blks[j])
    BY <1>1, <2>1 DEF MappedFirst
  <2>. QED
    BY <2>1, <2>3, <2>4
<1>. QED
  BY <1>1, <1>2, <1>3

LEMMA NextKeepsBkt ==
  ASSUME RingIInv, BucketMatches, [Next]_vars
  PROVE  BucketMatches'
<1>0. TypeOK
  BY DEF RingIInv
<1>1. CASE blk' = blk /\ blks' = blks
  BY <1>1 DEF BucketMatches, Mapped, InRing
<1>2. CASE Refuse
  BY <1>1, <1>2 DEF Refuse
<1>3. CASE \E how : Die(how)
  BY <1>3, DieKeepsBkt
<1>4. ASSUME NEW i \in 1..Len(blks), MapBhInternal(blks[i]), blks' = blks PROVE BucketMatches'
  <2>1. blks[i] \in Block /\ InRing(blks[i])
    BY <1>0 DEF TypeOK, InRing, Range
  <2>. QED
    BY <1>0, <1>4, <2>1, MapKeepsBkt
<1>5. CASE MapStep
  <2>1. CASE /\ call.t # JUNK /\ NextBlk(call.t) # BlkH
             /\ MapBhInternal(NextBlk(call.t)) /\ blks' = blks
    BY <1>4, <1>5, <2>1, MapTurnInRing
  <2>. QED
    BY <1>1, <1>3, <1>5, <2>1 DEF MapStep
<1>6. CASE FlushBlock
  <2>1. PICK i \in 1..Len(blks) : blks[i] = call.p
    BY <1>6, WalkAt DEF FlushBlock, Flushing
  <2>. QED
    BY <1>1, <1>4, <1>6, <2>1 DEF FlushBlock
<1>7. ASSUME NEW bh \in BufHead, FlushHead(bh) PROVE BucketMatches'
  BY <1>1, <1>3, <1>7 DEF FlushHead
<1>8. CASE FlushEnd
  <2>1. PICK i \in 1..Len(blks) : blks[i] = call.p
    BY <1>8, WalkAt DEF FlushEnd, Flushing
  <2>2. call.p \in Block /\ InRing(call.p)
    BY <1>0, <2>1 DEF TypeOK, InRing, Range
  <2>3. CASE call.skip
    <3>1. blk' = blk /\ blks' = blks
      BY <1>8, <2>3 DEF FlushEnd
    <3>. QED
      BY <1>1, <3>1
  <2>4. CASE ~call.skip
    <3>1. /\ ErofsBfree(call.p, heap)
          /\ blk' = [blk EXCEPT ![call.p].bkt = BktAfterFree(call.p, heap)]
      BY <1>8, <2>4 DEF FlushEnd
    <3>. QED
      BY <2>2, <3>1, BfreeKeepsBkt
  <2>. QED
    BY <2>3, <2>4
<1>9. ASSUME NEW bh \in BufHead, Usable(bh) PROVE head[bh].blk \in Block /\ InRing(head[bh].blk)
  BY <1>9 DEF Usable, RingIInv, RingInv, OwnersOK
<1>10. CASE Client
  <2>1. ASSUME NEW x, MapBh(x) \/ ErofsBflush(x) PROVE BucketMatches'
    BY <1>1, <2>1 DEF MapBh, ErofsBflush
  <2>2. ASSUME NEW t, NEW size, NEW req, NEW inl, BallocSearch(t, size, req, inl)
        PROVE  BucketMatches'
    BY <1>3, <2>2 DEF BallocSearch
  <2>3. ASSUME NEW size, NEW req, NEW inl, BallocNoSpace(size, req, inl) PROVE BucketMatches'
    BY <1>2, <2>3 DEF BallocNoSpace
  <2>4. ASSUME NEW bh \in BufHead, NEW new, NEW t, NEW size, Battach(bh, new, t, size)
        PROVE  BucketMatches'
    BY <1>0, <1>2, <1>9, <2>4, AttachKeepsBkt DEF Battach
  <2>5. ASSUME NEW bh \in BufHead, NEW incr, BhBalloon(bh, incr) PROVE BucketMatches'
    BY <1>0, <1>2, <1>9, <2>5, AttachKeepsBkt DEF BhBalloon
  <2>6. ASSUME NEW bh, NEW op, SetOp(bh, op) PROVE BucketMatches'
    BY <1>1, <2>6 DEF SetOp
  <2>7. ASSUME NEW bh \in BufHead, NEW revoke, BDrop(bh, revoke) PROVE BucketMatches'
    <3>. DEFINE hp == ListDel(heap, bh)
    <3>1. CASE ListDelPanics(heap, bh)
      BY <1>3, <2>7, <3>1 DEF BDrop
    <3>2. CASE ~ListDelPanics(heap, bh) /\ ~IsListEmpty(hp, head[bh].blk)
      <4>1. blk' = blk /\ blks' = blks
        BY <2>7, <3>2 DEF BDrop
      <4>. QED
        BY <1>1, <4>1
    <3>3. CASE ~ListDelPanics(heap, bh) /\ IsListEmpty(hp, head[bh].blk)
      <4>1. /\ ErofsBfree(head[bh].blk, hp)
            /\ blk' = [blk EXCEPT ![head[bh].blk].bkt = BktAfterFree(head[bh].blk, hp)]
            /\ Usable(bh)
        BY <2>7, <3>3 DEF BDrop
      <4>. HIDE DEF hp
      <4>. QED
        BY <1>9, <4>1, BfreeKeepsBkt
    <3>. QED
      BY <3>1, <3>2, <3>3
  <2>. QED
    BY <1>10, <2>1, <2>2, <2>3, <2>4, <2>5, <2>6, <2>7, BallocKeepsBkt DEF Client
<1>11. CASE UNCHANGED vars
  BY <1>1, <1>11 DEF vars
<1>. QED
  BY <1>5, <1>6, <1>7, <1>8, <1>10, <1>11 DEF Next, Flush

\* The assertion of BfindForAttach: a block of the list that is mapped sits in the
\* bucket of the cells used in its last file-system block, and no other block
\* sits in one.
THEOREM BucketsTell == Spec => []BucketMatches
<1>1. Init => BucketMatches
  BY DEF Init, BucketMatches, NoBlocks, NoBlock, InRing, Range
<1>2. RingIInv /\ BucketMatches /\ [Next]_vars => BucketMatches'
  BY NextKeepsBkt
<1>. QED
  BY <1>1, <1>2, RingHolds, PTL DEF Spec
----------------------------------------------------------------------------
(***************************************************************************)
(* The order of the list.  Blocks that stay mapped stay in order; a block  *)
(* is mapped behind all that are mapped, and grows only when none of them  *)
(* is behind it.                                                           *)
(***************************************************************************)

PlaceKept(c) ==
  Mapped(c)' => Mapped(c) /\ blk'[c].addr = blk[c].addr /\ blk'[c].off = blk[c].off

\* Two blocks of the new list that are mapped were in the old one, in this order.
OrderKept ==
  \A i, j \in 1..Len(blks') : i < j /\ Mapped(blks[i])' /\ Mapped(blks[j])' =>
    \E k, l \in 1..Len(blks) : k < l /\ blks[k] = blks'[i] /\ blks[l] = blks'[j]

LEMMA KeptInOrder ==
  ASSUME AddressesGrow, blks' \in Seq(Block), OrderKept, \A c \in Block : PlaceKept(c)
  PROVE  AddressesGrow'
<1>1. ASSUME NEW i \in 1..Len(blks'), NEW j \in 1..Len(blks'), i < j,
             Mapped(blks[i])', Mapped(blks[j])'
      PROVE  (EndBlk(blks[i]) <= blk[blks[j]].addr)'
  <2>1. PICK k \in 1..Len(blks), l \in 1..Len(blks) :
          k < l /\ blks[k] = blks'[i] /\ blks[l] = blks'[j]
    BY <1>1 DEF OrderKept
  <2>2. blks'[i] \in Block /\ blks'[j] \in Block
    OBVIOUS
  <2>3. /\ Mapped(blks'[i]) /\ Mapped(blks'[j])
        /\ blk'[blks'[i]].addr = blk[blks'[i]].addr /\ blk'[blks'[i]].off = blk[blks'[i]].off
        /\ blk'[blks'[j]].addr = blk[blks'[j]].addr
    BY <1>1, <2>2 DEF PlaceKept
  <2>4. EndBlk(blks[k]) <= blk[blks[l]].addr
    BY <2>1, <2>3 DEF AddressesGrow
  <2>. QED
    BY <2>1, <2>3, <2>4 DEF EndBlk
<1>. QED
  BY <1>1 DEF AddressesGrow

\* The sequence r is s without its p-th member; r is s with a new p-th member.
Without(r, s, p) ==
  /\ Len(r) = Len(s) - 1
  /\ \A n \in 1..(p - 1) : r[n] = s[n]
  /\ \A n \in p..(Len(s) - 1) : r[n] = s[n + 1]
With(r, s, p) ==
  /\ Len(r) = Len(s) + 1
  /\ \A n \in 1..(p - 1) : r[n] = s[n]
  /\ \A n \in (p + 1)..(Len(s) + 1) : r[n] = s[n - 1]

\* Two members of r are members of s in the same order.
SameOrder(r, i, j, s) ==
  \E k, l \in 1..Len(s) : k < l /\ s[k] = r[i] /\ s[l] = r[j]

LEMMA RemovedOrder ==
  ASSUME NEW s \in Seq(Block), NEW p \in 1..Len(s), NEW r, Without(r, s, p),
         NEW i \in 1..Len(r), NEW j \in 1..Len(r), i < j
  PROVE  SameOrder(r, i, j, s)
<1>0. SUFFICES \E k, l \in 1..Len(s) : k < l /\ s[k] = r[i] /\ s[l] = r[j]
  BY DEF SameOrder
<1>1. /\ Len(s) \in Nat /\ Len(r) = Len(s) - 1
      /\ \A n \in 1..(p - 1) : r[n] = s[n]
      /\ \A n \in p..(Len(s) - 1) : r[n] = s[n + 1]
  <2>1. Len(s) \in Nat
    OBVIOUS
  <2>. QED
    BY <2>1, Zenon DEF Without
<1>2. CASE j < p
  <2>1. r[i] = s[i] /\ r[j] = s[j] /\ i \in 1..Len(s) /\ j \in 1..Len(s)
    BY <1>1, <1>2
  <2>. QED
    BY <2>1
<1>3. CASE i < p /\ j >= p
  <2>1. r[i] = s[i] /\ r[j] = s[j + 1] /\ i \in 1..Len(s) /\ j + 1 \in 1..Len(s) /\ i < j + 1
    BY <1>1, <1>3
  <2>. QED
    BY <2>1
<1>4. CASE i >= p
  <2>1. r[i] = s[i + 1] /\ r[j] = s[j + 1] /\ i + 1 \in 1..Len(s) /\ j + 1 \in 1..Len(s)
        /\ i + 1 < j + 1
    BY <1>1, <1>4
  <2>. QED
    BY <2>1
<1>. QED
  BY <1>2, <1>3, <1>4

LEMMA InsertedOrder ==
  ASSUME NEW s \in Seq(Block), NEW p \in 1..(Len(s) + 1), NEW r, With(r, s, p),
         NEW i \in 1..Len(r), NEW j \in 1..Len(r), i < j, i # p, j # p
  PROVE  SameOrder(r, i, j, s)
<1>0. SUFFICES \E k, l \in 1..Len(s) : k < l /\ s[k] = r[i] /\ s[l] = r[j]
  BY DEF SameOrder
<1>1. /\ Len(s) \in Nat /\ Len(r) = Len(s) + 1
      /\ \A n \in 1..(p - 1) : r[n] = s[n]
      /\ \A n \in (p + 1)..(Len(s) + 1) : r[n] = s[n - 1]
  <2>1. Len(s) \in Nat
    OBVIOUS
  <2>. QED
    BY <2>1, Zenon DEF With
<1>2. CASE j < p
  <2>1. r[i] = s[i] /\ r[j] = s[j] /\ i \in 1..Len(s) /\ j \in 1..Len(s)
    BY <1>1, <1>2
  <2>. QED
    BY <2>1
<1>3. CASE i < p /\ j > p
  <2>1. r[i] = s[i] /\ r[j] = s[j - 1] /\ i \in 1..Len(s) /\ j - 1 \in 1..Len(s) /\ i < j - 1
    BY <1>1, <1>3
  <2>. QED
    BY <2>1
<1>4. CASE i > p
  <2>1. r[i] = s[i - 1] /\ r[j] = s[j - 1] /\ i - 1 \in 1..Len(s) /\ j - 1 \in 1..Len(s)
        /\ i - 1 < j - 1
    BY <1>1, <1>4
  <2>. QED
    BY <2>1
<1>. QED
  BY <1>2, <1>3, <1>4

\* Addresses, lengths and list unchanged.
LEMMA StayInOrder ==
  ASSUME AddressesGrow, blks' \in Seq(Block), blks' = blks,
         \A c \in Block : blk'[c].addr = blk[c].addr /\ blk'[c].off = blk[c].off
  PROVE  AddressesGrow'
<1>1. OrderKept /\ \A c \in Block : PlaceKept(c)
  BY DEF OrderKept, PlaceKept, Mapped
<1>. QED
  BY <1>1, KeptInOrder

LEMMA DieInOrder ==
  ASSUME NEW how, Die(how)
  PROVE  AddressesGrow'
<1>1. blks' = <<>>
  BY DEF Die
<1>. QED
  BY <1>1 DEF AddressesGrow

\* Everything mapped ends at the tail, where the next block goes.
LEMMA MapInOrder ==
  ASSUME RingIInv, ExtentsDisjoint, AddressesGrow, NEW i \in 1..Len(blks),
         MapBhInternal(blks[i]), blks' = blks
  PROVE  AddressesGrow'
<1>. DEFINE b == blks[i]
<1>0. /\ b \in Block /\ blk \in [Block -> BlkRec] /\ tail \in Nat
      /\ blks \in Seq(Block) /\ \A j \in 1..Len(blks) : blks[j] \in Block
  BY DEF RingIInv, TypeOK, BlkRec
<1>1. CASE Mapped(b)
  <2>1. blk' = [blk EXCEPT ![b].addr = blk[b].addr, ![b].bkt = blk[b].bkt]
    BY <1>0, <1>1 DEF MapBhInternal, BlkRec
  <2>2. \A c \in Block : blk'[c].addr = blk[c].addr /\ blk'[c].off = blk[c].off
    BY <1>0, <2>1 DEF BlkRec
  <2>. QED
    BY <1>0, <2>2, StayInOrder
<1>2. CASE ~Mapped(b)
  <2>1. blk' = [blk EXCEPT ![b].addr = tail, ![b].bkt = Bucket(blk[b].off)]
    BY <1>0, <1>2 DEF MapBhInternal, BlkRec
  <2>2. /\ blk'[b].addr = tail
        /\ \A c \in Block \ {b} : blk'[c] = blk[c]
    BY <1>0, <2>1 DEF BlkRec
  <2>3. \A j, k \in 1..Len(blks) : j < k => /\ blks[j] # blks[k]
                                            /\ Mapped(blks[k]) => Mapped(blks[j])
    BY DEF RingIInv, RingInv, MappedFirst
  <2>. HIDE DEF b
  <2>4. ASSUME NEW j \in 1..Len(blks), NEW k \in 1..Len(blks), j < k,
               Mapped(blks[j])', Mapped(blks[k])'
        PROVE  EndBlk(blks[j])' <= blk'[blks[k]].addr
    <3>0. b = blks[i]
      BY DEF b
    <3>1. j # i
      <4>1. SUFFICES ASSUME j = i PROVE FALSE
        OBVIOUS
      <4>2. blks[k] \in Block \ {b}
        BY <1>0, <2>3, <2>4, <3>0, <4>1
      <4>3. Mapped(blks[k])
        BY <2>2, <2>4, <4>2 DEF Mapped
      <4>. QED
        BY <1>2, <2>3, <2>4, <3>0, <4>1, <4>3
    <3>2. blks[j] \in Block \ {b}
      BY <1>0, <2>3, <3>0, <3>1
    <3>3. Mapped(blks[j]) /\ EndBlk(blks[j])' = EndBlk(blks[j])
      BY <2>2, <2>4, <3>2 DEF Mapped, EndBlk
    <3>4. CASE k = i
      BY <2>2, <3>0, <3>2, <3>3, <3>4 DEF ExtentsDisjoint
    <3>5. CASE k # i
      <4>1. blks[k] \in Block \ {b}
        BY <1>0, <2>3, <3>0, <3>5
      <4>2. Mapped(blks[k]) /\ blk'[blks[k]] = blk[blks[k]]
        BY <2>2, <2>4, <4>1 DEF Mapped
      <4>. QED
        BY <2>4, <3>3, <4>2 DEF AddressesGrow
    <3>. QED
      BY <3>4, <3>5
  <2>. QED
    BY <2>4 DEF AddressesGrow
<1>. QED
  BY <1>1, <1>2

\* A block grows inside its last file-system block, or when nothing mapped is
\* behind it in the list.
LEMMA AttachInOrder ==
  ASSUME RingIInv, AddressesGrow, NEW b \in Block, InRing(b), NEW h, NEW op, NEW by,
         NEW incr \in Nat, NEW align \in Nat \ {0}, BlkSz % align = 0,
         ~AttachFails(b, incr, align), Attach(b, h, incr, align, op, by)
  PROVE  AddressesGrow'
<1>. DEFINE off == RoundUp(blk[b].off, align) + incr
<1>0. /\ blk \in [Block -> BlkRec] /\ blks \in Seq(Block) /\ blk[b].off \in Nat
      /\ \A j \in 1..Len(blks) : blks[j] \in Block
      /\ \A j, k \in 1..Len(blks) :
           j < k => blks[j] # blks[k] /\ (Mapped(blks[k]) => Mapped(blks[j]))
  BY DEF RingIInv, TypeOK, BlkRec, RingInv, MappedFirst
<1>1. /\ blk' = [blk EXCEPT ![b].off = off, ![b].bkt = IF Mapped(b) THEN Bucket(off) ELSE @]
      /\ blks' = blks
  BY DEF Attach
<1>2. PICK i \in 1..Len(blks) : blks[i] = b
  BY <1>0 DEF InRing, Range
<1>3. \/ NBlk(off) = NBlk(blk[b].off)
      \/ \A k \in (i + 1)..Len(blks) : ~Mapped(blks[k])
  <2>1. CASE Total(b, incr, align) <= BlkSz
    <3>1. RoundUp(UsedInLast(blk[b].off), align) + incr <= BlkSz
      BY <2>1 DEF Total
    <3>. QED
      BY <1>0, <3>1, FittingKeepsBlocks
  <2>2. CASE ~(Total(b, incr, align) <= BlkSz)
    <3>1. Total(b, incr, align) > BlkSz
      <4>1. UsedInLast(blk[b].off) \in Nat
        BY <1>0, BlkSzAssumption DEF UsedInLast
      <4>2. RoundUp(UsedInLast(blk[b].off), align) \in Nat
        BY <4>1, RoundUpBounds
      <4>. QED
        BY <2>2, <4>2, BlkSzAssumption DEF Total
    <3>2. NextBlk(b) = BlkH \/ ~Mapped(NextBlk(b))
      BY <3>1 DEF AttachFails
    <3>3. NextBlk(b) = IF i = Len(blks) THEN BlkH ELSE blks[i + 1]
      <4>1. Distinct
        BY DEF Distinct, RingIInv, RingInv, MappedFirst
      <4>. QED
        BY <1>0, <1>2, <4>1, NextOf
    <3>4. ASSUME NEW k \in (i + 1)..Len(blks) PROVE ~Mapped(blks[k])
      <4>1. i # Len(blks) /\ i + 1 \in 1..Len(blks) /\ (k = i + 1 \/ i + 1 < k)
        BY <1>0, <3>4
      <4>2. blks[i + 1] \in Block /\ NextBlk(b) = blks[i + 1]
        BY <1>0, <3>3, <4>1
      <4>3. ~Mapped(blks[i + 1])
        BY <3>2, <4>2, PoolAssumption
      <4>. QED
        BY <1>0, <4>1, <4>3
    <3>. QED
      BY <3>4
  <2>. QED
    BY <2>1, <2>2
<1>. HIDE DEF off
<1>4. /\ blk'[b].addr = blk[b].addr /\ blk'[b].off = off
      /\ \A c \in Block \ {b} : blk'[c] = blk[c]
  BY <1>0, <1>1 DEF BlkRec
<1>5. ASSUME NEW c \in Block PROVE blk'[c].addr = blk[c].addr /\ (Mapped(c)' <=> Mapped(c))
  BY <1>4 DEF Mapped
<1>6. ASSUME NEW j \in 1..Len(blks), NEW k \in 1..Len(blks), j < k,
             Mapped(blks[j])', Mapped(blks[k])'
      PROVE  EndBlk(blks[j])' <= blk'[blks[k]].addr
  <2>1. blks[j] \in Block /\ blks[k] \in Block
    BY <1>0
  <2>2. /\ Mapped(blks[j]) /\ Mapped(blks[k])
        /\ blk'[blks[j]].addr = blk[blks[j]].addr /\ blk'[blks[k]].addr = blk[blks[k]].addr
    BY <1>1, <1>5, <1>6, <2>1
  <2>3. EndBlk(blks[j]) <= blk[blks[k]].addr
    BY <1>6, <2>2 DEF AddressesGrow
  <2>4. NBlk(blk'[blks[j]].off) = NBlk(blk[blks[j]].off)
    <3>1. CASE blks[j] = b
      <4>1. j = i
        <5>1. i < j \/ j < i \/ j = i
          OBVIOUS
        <5>2. blks[i] = blks[j]
          BY <1>2, <3>1
        <5>3. ~(i < j) /\ ~(j < i)
          BY <5>2 DEF RingIInv, RingInv, MappedFirst
        <5>. QED
          BY <5>1, <5>3
      <4>2. k \in (i + 1)..Len(blks)
        BY <1>0, <1>6, <4>1
      <4>. QED
        BY <1>3, <1>4, <2>2, <3>1, <4>2
    <3>2. CASE blks[j] # b
      BY <1>4, <2>1, <3>2
    <3>. QED
      BY <3>1, <3>2
  <2>. QED
    BY <1>1, <2>2, <2>3, <2>4 DEF EndBlk
<1>. QED
  BY <1>1, <1>6 DEF AddressesGrow

\* A freed block leaves a gap, and keeps its address for good.
LEMMA BfreeInOrder ==
  ASSUME RingIInv, AddressesGrow, NEW b \in Block, InRing(b), NEW hp, ErofsBfree(b, hp),
         blk' = [blk EXCEPT ![b].bkt = BktAfterFree(b, hp)]
  PROVE  AddressesGrow'
<1>0. blk \in [Block -> BlkRec] /\ blks \in Seq(Block)
  BY DEF RingIInv, TypeOK, BlkRec
<1>1. \A c \in Block : blk'[c].addr = blk[c].addr /\ blk'[c].off = blk[c].off
  BY <1>0 DEF BlkRec
<1>2. CASE blks' = blks
  BY <1>0, <1>1, <1>2, StayInOrder
<1>3. CASE blks' = RemoveAt(blks, Index(b))
  <2>1. PICK i \in 1..Len(blks) : i = Index(b)
    BY <1>0, IndexOf DEF Index, InRing
  <2>2. /\ blks' \in Seq(Block) /\ Len(blks') = Len(blks) - 1
        /\ \A n \in 1..(i - 1) : blks'[n] = blks[n]
        /\ \A n \in i..(Len(blks) - 1) : blks'[n] = blks[n + 1]
    <3>1. blks' = RemoveAt(blks, i)
      BY <1>3, <2>1
    <3>. QED
      BY <1>0, <3>1, RemoveProps
  <2>3. ASSUME NEW j \in 1..Len(blks'), NEW k \in 1..Len(blks'), j < k
        PROVE  SameOrder(blks', j, k, blks)
    <3>1. Without(blks', blks, i)
      BY <2>2 DEF Without
    <3>. QED
      BY <1>0, <2>3, <3>1, RemovedOrder
  <2>4. OrderKept
    BY <2>3 DEF OrderKept, SameOrder
  <2>5. \A c \in Block : PlaceKept(c)
    BY <1>1 DEF PlaceKept, Mapped
  <2>. QED
    BY <2>2, <2>4, <2>5, KeptInOrder
<1>. QED
  BY <1>2, <1>3 DEF ErofsBfree

\* A new block is unmapped, wherever it is inserted.
LEMMA BallocInOrder ==
  ASSUME RingIInv, AddressesGrow, NEW b \in Block, NEW h, NEW t \in BufType,
         NEW size, NEW req, NEW inl, BallocNew(b, h, t, size, req, inl)
  PROVE  AddressesGrow'
<1>1. CASE KindOf(t) = "DATA" /\ last = JUNK
  BY <1>1, DieInOrder DEF BallocNew
<1>2. CASE ~(KindOf(t) = "DATA" /\ last = JUNK)
  <2>. DEFINE ring == Inserted(b, t)
  <2>1. /\ blk \in [Block -> BlkRec] /\ blks \in Seq(Block)
        /\ blk' = [blk EXCEPT ![b] = NewBlock(KindOf(t))]
        /\ blks' = ring
    BY <1>2 DEF BallocNew, RingIInv, TypeOK, BlkRec
  <2>2. PICK k \in 1..(Len(blks) + 1) :
          /\ ring \in Seq(Block) /\ Len(ring) = Len(blks) + 1 /\ ring[k] = b
          /\ \A j \in 1..(k - 1) : ring[j] = blks[j]
          /\ \A j \in (k + 1)..(Len(blks) + 1) : ring[j] = blks[j - 1]
          /\ \A j \in k..Len(blks) : ~Mapped(blks[j])
    BY <1>2, InsertionPoint
  <2>. HIDE DEF ring
  <2>3. blk'[b].addr = NULL_ADDR /\ \A c \in Block \ {b} : blk'[c] = blk[c]
    BY <2>1 DEF NewBlock
  <2>4. ~Mapped(b)' /\ \A c \in Block : PlaceKept(c)
    BY <2>3 DEF PlaceKept, Mapped
  <2>5. ASSUME NEW i \in 1..Len(blks'), NEW j \in 1..Len(blks'), i < j,
               Mapped(blks[i])', Mapped(blks[j])'
        PROVE  \E m, l \in 1..Len(blks) : m < l /\ blks[m] = blks'[i] /\ blks[l] = blks'[j]
    <3>1. i # k /\ j # k
      BY <2>1, <2>2, <2>4, <2>5
    <3>2. SameOrder(ring, i, j, blks)
      <4>1. i \in 1..Len(ring) /\ j \in 1..Len(ring) /\ i < j /\ blks \in Seq(Block)
        BY <2>1, <2>5
      <4>2. With(ring, blks, k)
        BY <2>2 DEF With
      <4>. QED
        BY <3>1, <4>1, <4>2, InsertedOrder
    <3>. QED
      BY <2>1, <3>2 DEF SameOrder
  <2>6. OrderKept
    BY <2>5 DEF OrderKept
  <2>. QED
    BY <2>1, <2>2, <2>4, <2>6, KeptInOrder
<1>. QED
  BY <1>1, <1>2

LEMMA NextInOrder ==
  ASSUME RingIInv, ExtentsDisjoint, AddressesGrow, [Next]_vars
  PROVE  AddressesGrow'
<1>0. TypeOK /\ blks \in Seq(Block)
  BY DEF RingIInv, TypeOK
<1>1. CASE blk' = blk /\ blks' = blks
  BY <1>0, <1>1, StayInOrder
<1>2. CASE Refuse
  BY <1>1, <1>2 DEF Refuse
<1>3. CASE \E how : Die(how)
  BY <1>3, DieInOrder
<1>5. CASE MapStep
  <2>1. CASE /\ call.t # JUNK /\ NextBlk(call.t) # BlkH
             /\ MapBhInternal(NextBlk(call.t)) /\ blks' = blks
    BY <1>5, <2>1, MapInOrder, MapTurnInRing
  <2>. QED
    BY <1>1, <1>3, <1>5, <2>1 DEF MapStep
<1>6. CASE FlushBlock
  <2>1. PICK i \in 1..Len(blks) : blks[i] = call.p
    BY <1>6, WalkAt DEF FlushBlock, Flushing
  <2>. QED
    BY <1>1, <1>6, <2>1, MapInOrder DEF FlushBlock
<1>7. ASSUME NEW bh \in BufHead, FlushHead(bh) PROVE AddressesGrow'
  BY <1>1, <1>3, <1>7 DEF FlushHead
<1>8. CASE FlushEnd
  <2>1. PICK i \in 1..Len(blks) : blks[i] = call.p
    BY <1>8, WalkAt DEF FlushEnd, Flushing
  <2>2. call.p \in Block /\ InRing(call.p)
    BY <1>0, <2>1 DEF InRing, Range
  <2>3. CASE call.skip
    <3>1. blk' = blk /\ blks' = blks
      BY <1>8, <2>3 DEF FlushEnd
    <3>. QED
      BY <1>1, <3>1
  <2>4. CASE ~call.skip
    <3>1. /\ ErofsBfree(call.p, heap)
          /\ blk' = [blk EXCEPT ![call.p].bkt = BktAfterFree(call.p, heap)]
      BY <1>8, <2>4 DEF FlushEnd
    <3>. QED
      BY <2>2, <3>1, BfreeInOrder
  <2>. QED
    BY <2>3, <2>4
<1>9. ASSUME NEW bh \in BufHead, Usable(bh) PROVE head[bh].blk \in Block /\ InRing(head[bh].blk)
  BY <1>9 DEF Usable, RingIInv, RingInv, OwnersOK
<1>10. CASE Client
  <2>1. ASSUME NEW x, MapBh(x) \/ ErofsBflush(x) PROVE AddressesGrow'
    BY <1>1, <2>1 DEF MapBh, ErofsBflush
  <2>2. ASSUME NEW t, NEW size, NEW req, NEW inl, BallocSearch(t, size, req, inl)
        PROVE  AddressesGrow'
    BY <1>3, <2>2 DEF BallocSearch
  <2>3. ASSUME NEW size, NEW req, NEW inl, BallocNoSpace(size, req, inl) PROVE AddressesGrow'
    BY <1>2, <2>3 DEF BallocNoSpace
  <2>4. ASSUME NEW bh \in BufHead, NEW new, NEW t \in BufType, NEW size \in Size,
               Battach(bh, new, t, size)
        PROVE  AddressesGrow'
    <3>1. Usable(bh) /\ size \in Nat /\ AlignOf(t) \in Nat \ {0} /\ BlkSz % AlignOf(t) = 0
      BY <2>4, SizeAssumption, Alignment DEF Battach
    <3>2. CASE /\ ~AttachFails(head[bh].blk, size, AlignOf(t))
               /\ Attach(head[bh].blk, new, size, AlignOf(t), "nil", "attach")
      BY <1>9, <3>1, <3>2, AttachInOrder
    <3>. QED
      BY <1>2, <2>4, <3>2 DEF Battach
  <2>5. ASSUME NEW bh \in BufHead, NEW incr \in Grow, BhBalloon(bh, incr) PROVE AddressesGrow'
    <3>1. Usable(bh) /\ incr \in Nat /\ 1 \in Nat \ {0} /\ BlkSz % 1 = 0
      BY <2>5, SizeAssumption, BlkSzAssumption DEF BhBalloon
    <3>2. CASE /\ ~AttachFails(head[bh].blk, incr, 1)
               /\ Attach(head[bh].blk, bh, incr, 1, head[bh].op, "balloon")
      BY <1>9, <3>1, <3>2, AttachInOrder
    <3>. QED
      BY <1>2, <2>5, <3>2 DEF BhBalloon
  <2>6. ASSUME NEW bh, NEW op, SetOp(bh, op) PROVE AddressesGrow'
    BY <1>1, <2>6 DEF SetOp
  <2>7. ASSUME NEW bh \in BufHead, NEW revoke, BDrop(bh, revoke) PROVE AddressesGrow'
    <3>. DEFINE hp == ListDel(heap, bh)
    <3>1. CASE ListDelPanics(heap, bh)
      BY <1>3, <2>7, <3>1 DEF BDrop
    <3>2. CASE ~ListDelPanics(heap, bh) /\ ~IsListEmpty(hp, head[bh].blk)
      <4>1. blk' = blk /\ blks' = blks
        BY <2>7, <3>2 DEF BDrop
      <4>. QED
        BY <1>1, <4>1
    <3>3. CASE ~ListDelPanics(heap, bh) /\ IsListEmpty(hp, head[bh].blk)
      <4>1. /\ ErofsBfree(head[bh].blk, hp)
            /\ blk' = [blk EXCEPT ![head[bh].blk].bkt = BktAfterFree(head[bh].blk, hp)]
            /\ Usable(bh)
        BY <2>7, <3>3 DEF BDrop
      <4>. HIDE DEF hp
      <4>. QED
        BY <1>9, <4>1, BfreeInOrder
    <3>. QED
      BY <3>1, <3>2, <3>3
  <2>. QED
    BY <1>10, <2>1, <2>2, <2>3, <2>4, <2>5, <2>6, <2>7, BallocInOrder DEF Client
<1>11. CASE UNCHANGED vars
  BY <1>1, <1>11 DEF vars
<1>. QED
  BY <1>5, <1>6, <1>7, <1>8, <1>10, <1>11 DEF Next, Flush

\* The list is in the order of the addresses: a mapped block begins where or after
\* every mapped block before it ends, as long as the client never asks BDrop
\* to revoke.
THEOREM ListInOrder ==
  ASSUME TRUE \notin Revoke
  PROVE  Spec => []AddressesGrow
<1>1. Init => AddressesGrow
  BY DEF Init, AddressesGrow
<1>2. RingIInv /\ LayoutInv /\ AddressesGrow /\ [Next]_vars => AddressesGrow'
  BY NextInOrder DEF LayoutInv
<1>. QED
  BY <1>1, <1>2, RingHolds, LayoutInvHolds, PTL DEF Spec
----------------------------------------------------------------------------
(***************************************************************************)
(* The rings of heads.  What is kept is said of a heap H, the heads hd and *)
(* the set K of allocated blocks, because Balloc links twice in one step.  *)
(* The nodes of a block are its anchor and all its heads, dropped ones     *)
(* included: a broken ring (BhBalloon) goes wild, but never outside them.  *)
(***************************************************************************)

Nodes(hd, b) == {b} \cup {h \in BufHead : hd[h].blk = b}
RingOf(hd, b) == {b} \cup {h \in BufHead : hd[h].st = "live" /\ hd[h].blk = b}
Gone(hd, b) == {h \in BufHead : hd[h].st = "gone" /\ hd[h].blk = b}
Sound(hd, b) == \A h \in BufHead : hd[h].by = "balloon" => hd[h].blk # b

Housed(hd, K) ==
  \A h \in BufHead :
    /\ hd[h].st = "free" => hd[h].blk = NIL /\ hd[h].by = "none" /\ hd[h].op = "nil"
    /\ hd[h].st # "free" => hd[h].blk \in K
Enclosed(H, hd, b) ==
  \A x \in Nodes(hd, b) : /\ H[x].prev \in Nodes(hd, b) \cup {NIL}
                          /\ H[x].next \in Nodes(hd, b) \cup {NIL}
RingSound(H, hd, b) ==
  /\ Linked(H, RingOf(hd, b))
  /\ \A h \in Gone(hd, b) : H[h] = Unlinked
BlockOK(H, hd, b) == Enclosed(H, hd, b) /\ (Sound(hd, b) => RingSound(H, hd, b))
HeapOK(H, hd, K) ==
  /\ K \subseteq Block /\ H \in Heaps(Node) /\ hd \in [BufHead -> HeadRec]
  /\ Housed(hd, K) /\ \A b \in K : BlockOK(H, hd, b)

LEMMA Pools ==
  /\ NIL \notin Node /\ \A b \in Block : b \in Node /\ b \notin BufHead /\ b # NIL
  /\ \A h \in BufHead : h \in Node /\ h \notin Block /\ h # NIL
  BY PoolAssumption DEF Node

\* A ring is as linked as its nodes' pointers say.
LEMMA LinkedAlike ==
  ASSUME NEW H, NEW G, NEW R, Linked(H, R), \A x \in R : G[x] = H[x]
  PROVE  Linked(G, R)
  BY DEF Linked

LEMMA NodesApart ==
  ASSUME NEW hd, NEW b \in Block, NEW c \in Block, b # c
  PROVE  /\ RingOf(hd, c) \subseteq Nodes(hd, c) /\ Nodes(hd, c) \subseteq Node
         /\ \A x \in Nodes(hd, c) : x \notin Nodes(hd, b)
  BY Pools DEF RingOf, Nodes, Node

\* Whether a block is in order is a matter of its own nodes and their pointers.
LEMMA OthersKept ==
  ASSUME NEW H, NEW G, NEW hd, NEW hd2, NEW c, BlockOK(H, hd, c),
         Nodes(hd2, c) = Nodes(hd, c), RingOf(hd2, c) = RingOf(hd, c),
         Gone(hd2, c) = Gone(hd, c), Sound(hd2, c) => Sound(hd, c),
         \A x \in Nodes(hd, c) : G[x] = H[x]
  PROVE  BlockOK(G, hd2, c)
<1>1. Enclosed(G, hd2, c)
  BY DEF BlockOK, Enclosed
<1>2. ASSUME Sound(hd2, c) PROVE RingSound(G, hd2, c)
  <2>1. RingSound(H, hd, c)
    BY <1>2 DEF BlockOK
  <2>2. \A x \in RingOf(hd, c) : G[x] = H[x]
    BY DEF RingOf, Nodes
  <2>3. Linked(G, RingOf(hd2, c))
    BY <2>1, <2>2, LinkedAlike DEF RingSound
  <2>4. \A h \in Gone(hd, c) : h \in Nodes(hd, c)
    BY DEF Gone, Nodes
  <2>. QED
    BY <2>1, <2>3, <2>4 DEF RingSound
<1>. QED
  BY <1>1, <1>2 DEF BlockOK

\* InitListHead for a block that is taken from the pool: it has no heads yet.
LEMMA NewRing ==
  ASSUME NEW H, NEW hd, NEW K, HeapOK(H, hd, K), NEW b \in Block \ K
  PROVE  HeapOK(InitListHead(H, b), hd, K \cup {b})
<1>. DEFINE G == InitListHead(H, b)
<1>1. /\ H \in Heaps(Node) /\ b \in Node /\ G \in Heaps(Node)
      /\ G[b] = [prev |-> b, next |-> b]
      /\ \A x \in Node \ {b} : G[x] = H[x]
  BY Pools, InitTyped DEF HeapOK, InitListHead, Heaps
<1>. HIDE DEF G
<1>2. Nodes(hd, b) = {b} /\ RingOf(hd, b) = {b} /\ Gone(hd, b) = {}
  BY Pools DEF HeapOK, Housed, Nodes, RingOf, Gone
<1>3. ASSUME NEW c \in K PROVE BlockOK(G, hd, c)
  <2>1. c \in Block /\ c # b /\ BlockOK(H, hd, c)
    BY DEF HeapOK
  <2>2. \A x \in Nodes(hd, c) : x \in Node \ {b}
    BY <1>2, <2>1, NodesApart
  <2>3. \A x \in Nodes(hd, c) : G[x] = H[x]
    BY <1>1, <2>2
  <2>. QED
    BY <2>1, <2>3, OthersKept
<1>4. BlockOK(G, hd, b)
  <2>1. Linked(G, {b})
    BY <1>1 DEF Linked
  <2>. QED
    BY <1>1, <1>2, <2>1 DEF BlockOK, Enclosed, RingSound
<1>5. Housed(hd, K \cup {b})
  BY DEF HeapOK, Housed
<1>6. HeapOK(G, hd, K \cup {b})
  BY <1>1, <1>3, <1>4, <1>5 DEF HeapOK
<1>. QED
  BY <1>6 DEF G

\* Which pointers ListAddTail and ListDel write, and what they can write there, in
\* whatever state the list is.
LEMMA AddTailWrites ==
  ASSUME NEW H \in Heaps(Node), NEW e \in Node, NEW a \in Node, NEW x \in Node
  PROVE  /\ ListAddTail(H, e, a)[x].prev \in {H[x].prev, H[a].prev, e}
         /\ ListAddTail(H, e, a)[x].next \in {H[x].next, a, e}
         /\ x \notin {e, a, H[a].prev} => ListAddTail(H, e, a)[x] = H[x]
<1>. DEFINE p  == H[a].prev
            h1 == [H EXCEPT ![e] = [prev |-> p, next |-> a]]
            h2 == [h1 EXCEPT ![p].next = e]
            h3 == [h2 EXCEPT ![a].prev = e]
<1>1. /\ h1 \in Heaps(Node) /\ h1[x].prev \in {H[x].prev, p} /\ h1[x].next \in {H[x].next, a}
      /\ x # e => h1[x] = H[x]
  BY DEF Heaps
<1>2. /\ h2 \in Heaps(Node) /\ h2[x].prev = h1[x].prev /\ h2[x].next \in {h1[x].next, e}
      /\ x # p => h2[x] = h1[x]
  <2>. HIDE DEF h1, p
  <2>. QED
    BY <1>1 DEF Heaps
<1>3. /\ h3[x].next = h2[x].next /\ h3[x].prev \in {h2[x].prev, e}
      /\ x # a => h3[x] = h2[x]
  <2>. HIDE DEF h2
  <2>. QED
    BY <1>2 DEF Heaps
<1>4. ListAddTail(H, e, a) = h3
  BY DEF ListAddTail, ListInsert
<1>. HIDE DEF h1, h2, h3
<1>. QED
  BY <1>1, <1>2, <1>3, <1>4 DEF p

LEMMA DelWrites ==
  ASSUME NEW H \in Heaps(Node), NEW e \in Node, NEW x \in Node
  PROVE  /\ ListDel(H, e)[x].prev \in {H[x].prev, H[e].prev, NIL}
         /\ ListDel(H, e)[x].next \in {H[x].next, H[e].next, NIL}
         /\ x \notin {e, H[e].prev, H[e].next} => ListDel(H, e)[x] = H[x]
         /\ ListDel(H, e)[e] = Unlinked
<1>. DEFINE p  == H[e].prev
            n  == H[e].next
            h1 == [H EXCEPT ![p].next = n]
            h2 == [h1 EXCEPT ![n].prev = p]
            h3 == [h2 EXCEPT ![e] = Unlinked]
<1>1. /\ h1 \in Heaps(Node) /\ h1[x].prev = H[x].prev /\ h1[x].next \in {H[x].next, n}
      /\ x # p => h1[x] = H[x]
  BY DEF Heaps
<1>2. /\ h2 \in Heaps(Node) /\ h2[x].next = h1[x].next /\ h2[x].prev \in {h1[x].prev, p}
      /\ x # n => h2[x] = h1[x]
  <2>1. p \in Node \cup {NIL}
    BY DEF Heaps
  <2>. HIDE DEF h1, n, p
  <2>2. h2 \in Heaps(Node)
    BY <1>1, <2>1 DEF Heaps
  <2>3. h1 \in Heaps(Node)
    BY <1>1
  <2>. QED
    BY <2>2, <2>3 DEF Heaps
<1>3. /\ x # e => h3[x] = h2[x]
      /\ h3[e] = Unlinked /\ (x = e => h3[x].prev = NIL /\ h3[x].next = NIL)
  <2>. HIDE DEF h2
  <2>. QED
    BY <1>2 DEF Heaps, Unlinked
<1>4. ListDel(H, e) = h3
  BY DEF ListDel
<1>. HIDE DEF h1, h2, h3
<1>. QED
  BY <1>1, <1>2, <1>3, <1>4 DEF p, n

\* A head is linked at the tail of its block's ring: a new one, or one of the block's
\* own once more, which nobody calls sound any longer.
LEMMA AddedRing ==
  ASSUME NEW H, NEW hd, NEW K, HeapOK(H, hd, K), NEW b \in K, NEW h \in BufHead,
         NEW hd2 \in [BufHead -> HeadRec], \A g \in BufHead \ {h} : hd2[g] = hd[g],
         hd2[h].st = "live", hd2[h].blk = b,
         hd[h].st = "free" \/ (hd2[h].by = "balloon" /\ hd[h].blk = b)
  PROVE  HeapOK(ListAddTail(H, h, b), hd2, K)
<1>. DEFINE G == ListAddTail(H, h, b)
<1>1. /\ K \subseteq Block /\ H \in Heaps(Node) /\ hd \in [BufHead -> HeadRec]
      /\ Housed(hd, K) /\ \A c \in K : BlockOK(H, hd, c)
      /\ b \in Block /\ b \in Node /\ h \in Node /\ h # b /\ G \in Heaps(Node)
  BY Pools, AddTailTyped DEF HeapOK
<1>2. /\ \A x \in Node : /\ G[x].prev \in {H[x].prev, H[b].prev, h}
                         /\ G[x].next \in {H[x].next, b, h}
                         /\ x \notin {h, b, H[b].prev} => G[x] = H[x]
  BY <1>1, AddTailWrites
<1>. HIDE DEF G
<1>3. hd[h].blk \in {NIL, b} /\ (hd[h].st = "free" => hd[h].blk = NIL)
  BY <1>1 DEF Housed
<1>4. Nodes(hd2, b) = Nodes(hd, b) \cup {h}
  BY <1>3 DEF Nodes
<1>5. b \in Nodes(hd, b) /\ h \in Nodes(hd2, b) /\ Nodes(hd2, b) \subseteq Node
  BY <1>1, <1>4, Pools DEF Nodes
<1>6. H[b].prev \in Nodes(hd, b) \cup {NIL}
  BY <1>1, <1>5 DEF BlockOK, Enclosed
<1>7. ASSUME NEW c \in K, c # b PROVE BlockOK(G, hd2, c)
  <2>1. c \in Block /\ hd[h].blk # c /\ hd2[h].blk # c
    BY <1>1, <1>3, <1>7, Pools
  <2>2. /\ Nodes(hd2, c) = Nodes(hd, c) /\ RingOf(hd2, c) = RingOf(hd, c)
        /\ Gone(hd2, c) = Gone(hd, c)
    BY <2>1 DEF Nodes, RingOf, Gone
  <2>3. Sound(hd2, c) => Sound(hd, c)
    BY <2>1 DEF Sound
  <2>4. ASSUME NEW x \in Nodes(hd, c) PROVE G[x] = H[x]
    <3>1. x \in Node /\ x \notin Nodes(hd, b) /\ x # NIL /\ x \notin Nodes(hd2, b)
      BY <1>1, <1>7, <2>1, <2>2, NodesApart, Pools
    <3>. QED
      BY <1>2, <1>5, <1>6, <3>1
  <2>. QED
    BY <1>1, <2>2, <2>3, <2>4, OthersKept
<1>8. Enclosed(G, hd2, b)
  <2>1. ASSUME NEW x \in Nodes(hd2, b)
        PROVE  /\ G[x].prev \in Nodes(hd2, b) \cup {NIL}
               /\ G[x].next \in Nodes(hd2, b) \cup {NIL}
    <3>1. CASE x \in Nodes(hd, b)
      <4>1. H[x].prev \in Nodes(hd, b) \cup {NIL} /\ H[x].next \in Nodes(hd, b) \cup {NIL}
        BY <1>1, <3>1 DEF BlockOK, Enclosed
      <4>. QED
        BY <1>2, <1>4, <1>5, <1>6, <4>1
    <3>2. CASE x = h
      <4>1. G[h] = [prev |-> H[b].prev, next |-> b] \/ H[b].prev = h
        <5>1. CASE H[b].prev # h
          BY <1>1, <5>1 DEF Heaps, ListAddTail, ListInsert, G
        <5>. QED
          BY <5>1
      <4>2. CASE H[b].prev # h
        BY <1>4, <1>5, <1>6, <3>2, <4>1, <4>2
      <4>3. CASE H[b].prev = h
        <5>1. h \in Nodes(hd, b)
          BY <1>6, <4>3, Pools
        <5>. QED
          BY <3>1, <3>2, <5>1
      <4>. QED
        BY <4>2, <4>3
    <3>. QED
      BY <1>4, <3>1, <3>2
  <2>. QED
    BY <2>1 DEF Enclosed
<1>9. ASSUME Sound(hd2, b) PROVE RingSound(G, hd2, b)
  <2>1. hd2[h].by # "balloon" /\ hd[h].st = "free" /\ hd[h].blk = NIL /\ hd[h].by = "none"
    BY <1>1, <1>3, <1>9 DEF Sound, Housed
  <2>2. Sound(hd, b)
    BY <1>9, <2>1 DEF Sound
  <2>3. RingSound(H, hd, b)
    BY <1>1, <2>2 DEF BlockOK
  <2>4. RingOf(hd2, b) = RingOf(hd, b) \cup {h} /\ Gone(hd2, b) = Gone(hd, b)
    BY <2>1 DEF RingOf, Gone
  <2>5. /\ RingOf(hd, b) \in SUBSET Node /\ b \in RingOf(hd, b) /\ h \in Node \ RingOf(hd, b)
        /\ Linked(H, RingOf(hd, b))
    BY <1>1, <2>1, <2>3, Pools DEF RingOf, RingSound
  <2>6. /\ Linked(G, RingOf(hd, b) \cup {h})
        /\ \A y \in Node \ (RingOf(hd, b) \cup {h}) : G[y] = H[y]
    BY <1>1, <2>5, Pools, AddTailLinked DEF G
  <2>7. \A g \in Gone(hd, b) : g \in Node \ (RingOf(hd, b) \cup {h})
    BY <1>1, <2>1, Pools DEF Gone, RingOf
  <2>. QED
    BY <2>3, <2>4, <2>6, <2>7 DEF RingSound
<1>10. Housed(hd2, K)
  BY <1>1 DEF Housed
<1>11. HeapOK(G, hd2, K)
  BY <1>1, <1>7, <1>8, <1>9, <1>10 DEF HeapOK, BlockOK
<1>. QED
  BY <1>11 DEF G

\* A head is taken out of its block's ring.
LEMMA DroppedRing ==
  ASSUME NEW H, NEW hd, NEW K, HeapOK(H, hd, K), NEW h \in BufHead, hd[h].st # "free",
         ~ListDelPanics(H, h),
         NEW hd2 \in [BufHead -> HeadRec], \A g \in BufHead \ {h} : hd2[g] = hd[g],
         hd2[h].st = "gone", hd2[h].blk = hd[h].blk, hd2[h].by = hd[h].by
  PROVE  HeapOK(ListDel(H, h), hd2, K)
<1>. DEFINE G == ListDel(H, h)
            b == hd[h].blk
<1>1. /\ K \subseteq Block /\ H \in Heaps(Node) /\ hd \in [BufHead -> HeadRec]
      /\ Housed(hd, K) /\ \A c \in K : BlockOK(H, hd, c)
      /\ h \in Node /\ G \in Heaps(Node)
  BY Pools, DelTyped DEF HeapOK
<1>2. b \in K /\ b \in Block /\ b \in Node /\ h # b /\ BlockOK(H, hd, b)
  BY <1>1, Pools DEF Housed
<1>3. /\ \A x \in Node : /\ G[x].prev \in {H[x].prev, H[h].prev, NIL}
                         /\ G[x].next \in {H[x].next, H[h].next, NIL}
                         /\ x \notin {h, H[h].prev, H[h].next} => G[x] = H[x]
      /\ G[h] = Unlinked
  BY <1>1, DelWrites
<1>. HIDE DEF G
<1>4. \A c \in Block : Nodes(hd2, c) = Nodes(hd, c) /\ (Sound(hd2, c) <=> Sound(hd, c))
  BY DEF Nodes, Sound
<1>5. /\ h \in Nodes(hd, b) /\ Nodes(hd, b) \subseteq Node
      /\ H[h].prev \in Nodes(hd, b) \cup {NIL} /\ H[h].next \in Nodes(hd, b) \cup {NIL}
  <2>1. h \in Nodes(hd, b) /\ Nodes(hd, b) \subseteq Node
    BY <1>2, Pools DEF Nodes
  <2>. QED
    BY <1>2, <2>1 DEF BlockOK, Enclosed
<1>6. ASSUME NEW c \in K, c # b PROVE BlockOK(G, hd2, c)
  <2>1. c \in Block /\ hd[h].blk # c /\ hd2[h].blk # c
    BY <1>1, <1>6
  <2>2. /\ Nodes(hd2, c) = Nodes(hd, c) /\ RingOf(hd2, c) = RingOf(hd, c)
        /\ Gone(hd2, c) = Gone(hd, c)
    BY <2>1 DEF Nodes, RingOf, Gone
  <2>3. ASSUME NEW x \in Nodes(hd, c) PROVE G[x] = H[x]
    <3>1. x \in Node /\ x \notin Nodes(hd, b) /\ x # NIL
      BY <1>2, <1>6, <2>1, NodesApart, Pools
    <3>. QED
      BY <1>3, <1>5, <3>1
  <2>. QED
    BY <1>1, <1>4, <2>1, <2>2, <2>3, OthersKept
<1>7. Enclosed(G, hd2, b)
  <2>1. \A x \in Nodes(hd, b) : /\ H[x].prev \in Nodes(hd, b) \cup {NIL}
                                /\ H[x].next \in Nodes(hd, b) \cup {NIL}
    BY <1>2 DEF BlockOK, Enclosed
  <2>2. \A x \in Nodes(hd, b) : /\ G[x].prev \in Nodes(hd, b) \cup {NIL}
                                /\ G[x].next \in Nodes(hd, b) \cup {NIL}
    BY <1>3, <1>5, <2>1
  <2>. QED
    BY <1>2, <1>4, <2>2 DEF Enclosed
<1>8. ASSUME Sound(hd2, b) PROVE RingSound(G, hd2, b)
  <2>1. RingSound(H, hd, b)
    BY <1>2, <1>4, <1>8 DEF BlockOK
  <2>2. hd[h].st = "live"
    <3>1. SUFFICES ASSUME hd[h].st = "gone" PROVE FALSE
      BY <1>1 DEF HeadRec
    <3>2. H[h] = Unlinked
      BY <2>1, <3>1 DEF RingSound, Gone
    <3>. QED
      BY <3>2 DEF ListDelPanics, Unlinked
  <2>3. /\ RingOf(hd2, b) = RingOf(hd, b) \ {h} /\ h \in RingOf(hd, b)
        /\ Gone(hd2, b) = Gone(hd, b) \cup {h}
    BY <1>2, <2>2 DEF RingOf, Gone
  <2>4. RingOf(hd, b) \in SUBSET Node /\ Linked(H, RingOf(hd, b))
    BY <1>2, <2>1, Pools DEF RingOf, RingSound
  <2>5. /\ Linked(G, RingOf(hd, b) \ {h})
        /\ \A y \in Node \ RingOf(hd, b) : G[y] = H[y]
    <3>1. CASE H[h].next # h
      BY <1>1, <2>3, <2>4, <3>1, Pools, DelLinked DEF G
    <3>2. CASE H[h].next = h
      <4>1. H[h].prev = h
        BY <2>3, <2>4, <3>2 DEF Linked
      <4>2. \A x \in Node \ {h} : G[x] = H[x]
        BY <1>3, <3>2, <4>1
      <4>3. Linked(H, RingOf(hd, b) \ {h})
        BY <2>3, <2>4, <3>2, <4>1 DEF Linked
      <4>. QED
        BY <2>3, <2>4, <4>2, <4>3, LinkedAlike
    <3>. QED
      BY <3>1, <3>2
  <2>6. \A g \in Gone(hd, b) : g \in Node \ RingOf(hd, b)
    BY <1>2, Pools DEF Gone, RingOf
  <2>. QED
    BY <1>3, <2>1, <2>3, <2>5, <2>6 DEF RingSound
<1>9. Housed(hd2, K)
  BY <1>1, <1>2 DEF Housed
<1>10. HeapOK(G, hd2, K)
  BY <1>1, <1>6, <1>7, <1>8, <1>9 DEF HeapOK, BlockOK
<1>. QED
  BY <1>10 DEF G

Allocated == {b \in Block : blk[b].kind # "none"}
HeapInv == HeapOK(heap, head, Allocated)
KindsKept == \A b \in Block : blk'[b].kind = blk[b].kind

\* A block's ring and its nodes are told by four fields of the heads.
LEMMA StayKeepsHeap ==
  ASSUME HeapInv, KindsKept, heap' = heap, head' \in [BufHead -> HeadRec],
         \A h \in BufHead : /\ head'[h].st = head[h].st /\ head'[h].blk = head[h].blk
                            /\ head'[h].by = head[h].by
                            /\ head[h].st = "free" => head'[h].op = head[h].op
  PROVE  HeapInv'
<1>1. /\ Allocated \subseteq Block /\ heap \in Heaps(Node) /\ Housed(head, Allocated)
      /\ \A b \in Allocated : BlockOK(heap, head, b)
  BY DEF HeapInv, HeapOK
<1>2. Allocated' = Allocated
  BY DEF Allocated, KindsKept
<1>3. Housed(head', Allocated)
  BY <1>1 DEF Housed
<1>4. ASSUME NEW b \in Allocated PROVE BlockOK(heap', head', b)
  <2>1. /\ Nodes(head', b) = Nodes(head, b) /\ RingOf(head', b) = RingOf(head, b)
        /\ Gone(head', b) = Gone(head, b) /\ (Sound(head', b) => Sound(head, b))
    BY DEF Nodes, RingOf, Gone, Sound
  <2>2. BlockOK(heap, head, b) /\ \A x \in Nodes(head, b) : heap'[x] = heap[x]
    BY <1>1
  <2>. QED
    BY <2>1, <2>2, OthersKept
<1>5. HeapOK(heap', head', Allocated)
  BY <1>1, <1>3, <1>4 DEF HeapOK
<1>. QED
  BY <1>2, <1>5 DEF HeapInv

LEMMA NoHeap ==
  HeapOK(NoLinks, NoHeads, {})
<1>1. NoLinks \in Heaps(Node)
  BY DEF NoLinks, Heaps, Unlinked, Node
<1>2. NoHeads \in [BufHead -> HeadRec]
  BY DEF NoHeads, NoHead, HeadRec
<1>3. Housed(NoHeads, {})
  BY DEF Housed, NoHeads, NoHead
<1>. QED
  BY <1>1, <1>2, <1>3 DEF HeapOK

LEMMA DieKeepsHeap ==
  ASSUME NEW how, Die(how)
  PROVE  HeapInv'
<1>1. heap' = NoLinks /\ head' = NoHeads /\ Allocated' = {}
  BY DEF Die, NoBlocks, NoBlock, Allocated
<1>. QED
  BY <1>1, NoHeap DEF HeapInv

\* Battach links a new head, BhBalloon the one it was given.
LEMMA AttachKeepsHeap ==
  ASSUME RingIInv, HeapInv, NEW bh \in BufHead, NEW h \in BufHead, Usable(bh),
         NEW incr \in Nat, NEW align \in Nat \ {0}, NEW op \in Op \cup {"nil"},
         NEW by \in {"attach", "balloon"},
         Attach(head[bh].blk, h, incr, align, op, by), TypeOK',
         head[h].st = "free" \/ (by = "balloon" /\ h = bh)
  PROVE  HeapInv'
<1>. DEFINE b == head[bh].blk
<1>1. head[bh].st = "live" /\ head \in [BufHead -> HeadRec] /\ blk \in [Block -> BlkRec]
  BY DEF Usable, RingIInv, TypeOK, HeadRec, BlkRec
<1>2. b \in Allocated /\ HeapOK(heap, head, Allocated)
  BY <1>1 DEF HeapInv, HeapOK, Housed
<1>3. /\ heap' = ListAddTail(heap, h, b)
      /\ head' = [head EXCEPT ![h] = [st |-> "live", blk |-> b,
                                      off |-> RoundUp(blk[b].off, align),
                                      op |-> op, by |-> by, len |-> incr]]
      /\ blk'  = [blk EXCEPT ![b].off = RoundUp(blk[b].off, align) + incr,
                             ![b].bkt = IF Mapped(b)
                                        THEN Bucket(RoundUp(blk[b].off, align) + incr) ELSE @]
  BY DEF Attach
<1>. HIDE DEF b
<1>4. /\ head' \in [BufHead -> HeadRec] /\ \A g \in BufHead \ {h} : head'[g] = head[g]
      /\ head'[h].st = "live" /\ head'[h].blk = b /\ head'[h].by = by
  BY <1>1, <1>3 DEF TypeOK, HeadRec
<1>5. Allocated' = Allocated
  BY <1>1, <1>3 DEF Allocated
<1>6. head[h].st = "free" \/ (head'[h].by = "balloon" /\ head[h].blk = b)
  BY <1>4 DEF b
<1>7. HeapOK(ListAddTail(heap, h, b), head', Allocated)
  BY <1>2, <1>4, <1>6, AddedRing
<1>. QED
  BY <1>3, <1>5, <1>7 DEF HeapInv

\* Balloc makes the block's anchor, and links its head where the search ended.
LEMMA BallocKeepsHeap ==
  ASSUME HeapInv, TypeOK, TypeOK', OwnersOK', NEW b \in Block, NEW h \in BufHead,
         NEW t \in BufType, NEW size, NEW req, NEW inl,
         BallocNew(b, h, t, size, req, inl)
  PROVE  HeapInv'
<1>1. CASE KindOf(t) = "DATA" /\ last = JUNK
  BY <1>1, DieKeepsHeap DEF BallocNew
<1>2. CASE ~(KindOf(t) = "DATA" /\ last = JUNK)
  <2>. DEFINE heap1 == InitListHead(heap, b)
              all   == Allocated \cup {b}
  <2>1. /\ blk \in [Block -> BlkRec] /\ head \in [BufHead -> HeadRec]
        /\ head' \in [BufHead -> HeadRec]
    BY DEF TypeOK, BlkRec, HeadRec
  <2>2. /\ blk' = [blk EXCEPT ![b] = NewBlock(KindOf(t))]
        /\ blk[b].kind = "none" /\ head[h].st = "free"
        /\ \/ heap' = heap1 /\ head' = head
           \/ \E x : /\ heap' = ListAddTail(heap1, h, x)
                     /\ head' = [head EXCEPT ![h] = [st |-> "live", blk |-> x, off |-> size,
                                                     op |-> "nil", by |-> "balloc", len |-> size]]
    BY <1>2 DEF BallocNew
  <2>3. Allocated' = all
    <3>1. blk'[b].kind # "none" /\ \A c \in Block \ {b} : blk'[c] = blk[c]
      BY <2>1, <2>2, KindTyped DEF NewBlock, Kind
    <3>. QED
      BY <3>1 DEF Allocated
  <2>4. HeapOK(heap1, head, all)
    <3>1. b \in Block \ Allocated
      BY <2>2 DEF Allocated
    <3>. QED
      BY <3>1, NewRing DEF HeapInv
  <2>5. CASE heap' = heap1 /\ head' = head
    BY <2>3, <2>4, <2>5 DEF HeapInv
  <2>6. CASE \E x : /\ heap' = ListAddTail(heap1, h, x)
                    /\ head' = [head EXCEPT ![h] = [st |-> "live", blk |-> x, off |-> size,
                                                    op |-> "nil", by |-> "balloc", len |-> size]]
    <3>1. PICK x :
            /\ heap' = ListAddTail(heap1, h, x)
            /\ head' = [head EXCEPT ![h] = [st |-> "live", blk |-> x, off |-> size,
                                            op |-> "nil", by |-> "balloc", len |-> size]]
      BY <2>6
    <3>2. /\ \A g \in BufHead \ {h} : head'[g] = head[g]
          /\ head'[h].st = "live" /\ head'[h].blk = x
      BY <2>1, <3>1
    <3>3. x \in Allocated'
      BY <3>2 DEF OwnersOK, Allocated
    <3>. HIDE DEF heap1, all
    <3>4. HeapOK(ListAddTail(heap1, h, x), head', all)
      BY <2>1, <2>2, <2>3, <2>4, <3>2, <3>3, AddedRing
    <3>. QED
      BY <2>3, <3>1, <3>4 DEF HeapInv
  <2>. QED
    BY <2>2, <2>5, <2>6
<1>. QED
  BY <1>1, <1>2

\* BDrop and the flush take a head out of its ring.
LEMMA DropKeepsHeap ==
  ASSUME HeapInv, TypeOK', KindsKept, NEW h \in BufHead, head[h].st # "free",
         ~ListDelPanics(heap, h), heap' = ListDel(heap, h),
         \A g \in BufHead \ {h} : head'[g] = head[g],
         head'[h].st = "gone", head'[h].blk = head[h].blk, head'[h].by = head[h].by
  PROVE  HeapInv'
<1>1. head' \in [BufHead -> HeadRec]
  BY DEF TypeOK, HeadRec
<1>2. Allocated' = Allocated
  BY DEF Allocated, KindsKept
<1>3. HeapOK(ListDel(heap, h), head', Allocated)
  BY <1>1, DroppedRing DEF HeapInv
<1>. QED
  BY <1>2, <1>3 DEF HeapInv

LEMMA NextKeepsHeap ==
  ASSUME RingIInv, RingIInv', HeapInv, [Next]_vars
  PROVE  HeapInv'
<1>0. /\ TypeOK /\ TypeOK' /\ OwnersOK' /\ blk \in [Block -> BlkRec]
      /\ head \in [BufHead -> HeadRec] /\ head' \in [BufHead -> HeadRec]
  BY DEF RingIInv, RingInv, TypeOK, BlkRec, HeadRec
<1>1. CASE heap' = heap /\ head' = head /\ KindsKept
  BY <1>0, <1>1, StayKeepsHeap
<1>2. CASE heap' = heap /\ head' = head /\ blk' = blk
  BY <1>1, <1>2 DEF KindsKept
<1>3. CASE \E how : Die(how)
  BY <1>3, DieKeepsHeap
<1>4. CASE Refuse
  BY <1>2, <1>4 DEF Refuse
<1>5. ASSUME NEW b, MapBhInternal(b) PROVE KindsKept
  BY <1>0, <1>5 DEF MapBhInternal, KindsKept
<1>5a. ASSUME NEW p, NEW e, blk' = [blk EXCEPT ![p].bkt = e] PROVE KindsKept
  BY <1>0, <1>5a DEF KindsKept, BlkRec
<1>6. CASE MapStep
  <2>1. CASE \E b : MapBhInternal(b) /\ heap' = heap /\ head' = head
    BY <1>1, <1>5, <2>1
  <2>. QED
    BY <1>2, <1>3, <1>6, <2>1 DEF MapStep
<1>7. CASE FlushBlock
  BY <1>1, <1>2, <1>5, <1>7 DEF FlushBlock
<1>8. ASSUME NEW bh \in BufHead, FlushHead(bh) PROVE HeapInv'
  <2>1. CASE /\ head[bh].op = "drop" /\ ~ListDelPanics(heap, bh)
             /\ heap' = ListDel(heap, bh)
             /\ head' = [head EXCEPT ![bh].st = "gone"] /\ blk' = blk
    <3>1. head[bh].st # "free"
      BY <2>1 DEF HeapInv, HeapOK, Housed
    <3>2. /\ \A g \in BufHead \ {bh} : head'[g] = head[g]
          /\ head'[bh].st = "gone" /\ head'[bh].blk = head[bh].blk
          /\ head'[bh].by = head[bh].by
      BY <1>0, <2>1
    <3>. QED
      BY <1>0, <2>1, <3>1, <3>2, DropKeepsHeap DEF KindsKept
  <2>. QED
    BY <1>2, <1>3, <1>8, <2>1 DEF FlushHead
<1>9. CASE FlushEnd
  <2>1. \/ blk' = blk
        \/ blk' = [blk EXCEPT ![call.p].bkt = BktAfterFree(call.p, heap)]
    BY <1>9 DEF FlushEnd
  <2>2. heap' = heap /\ head' = head
    BY <1>9 DEF FlushEnd
  <2>. QED
    BY <1>1, <1>2, <1>5a, <2>1, <2>2
<1>10. CASE Client
  <2>1. ASSUME NEW x, MapBh(x) \/ ErofsBflush(x) PROVE HeapInv'
    BY <1>2, <2>1 DEF MapBh, ErofsBflush
  <2>2. ASSUME NEW t, NEW size, NEW req, NEW inl, BallocSearch(t, size, req, inl)
        PROVE  HeapInv'
    BY <1>3, <2>2 DEF BallocSearch
  <2>3. ASSUME NEW size, NEW req, NEW inl, BallocNoSpace(size, req, inl) PROVE HeapInv'
    BY <1>4, <2>3 DEF BallocNoSpace
  <2>4. ASSUME NEW bh \in BufHead, NEW new \in BufHead, NEW t \in BufType, NEW size \in Size,
               Battach(bh, new, t, size)
        PROVE  HeapInv'
    <3>1. Usable(bh) /\ head[new].st = "free" /\ size \in Nat /\ AlignOf(t) \in Nat \ {0}
      BY <2>4, SizeAssumption, Alignment DEF Battach
    <3>2. CASE Attach(head[bh].blk, new, size, AlignOf(t), "nil", "attach")
      BY <1>0, <3>1, <3>2, AttachKeepsHeap
    <3>. QED
      BY <1>4, <2>4, <3>2 DEF Battach
  <2>5. ASSUME NEW bh \in BufHead, NEW incr \in Grow, BhBalloon(bh, incr) PROVE HeapInv'
    <3>1. Usable(bh) /\ incr \in Nat /\ 1 \in Nat \ {0} /\ head[bh].op \in Op \cup {"nil"}
      BY <1>0, <2>5, SizeAssumption DEF BhBalloon, HeadRec
    <3>2. CASE Attach(head[bh].blk, bh, incr, 1, head[bh].op, "balloon")
      BY <1>0, <3>1, <3>2, AttachKeepsHeap
    <3>. QED
      BY <1>4, <2>5, <3>2 DEF BhBalloon
  <2>6. ASSUME NEW bh \in BufHead, NEW op, SetOp(bh, op) PROVE HeapInv'
    <3>1. /\ heap' = heap /\ KindsKept
          /\ \A g \in BufHead : /\ head'[g].st = head[g].st /\ head'[g].blk = head[g].blk
                                /\ head'[g].by = head[g].by
                                /\ head[g].st = "free" => head'[g].op = head[g].op
      BY <1>0, <2>6 DEF SetOp, Usable, KindsKept
    <3>. QED
      BY <1>0, <3>1, StayKeepsHeap
  <2>7. ASSUME NEW bh \in BufHead, NEW revoke, BDrop(bh, revoke) PROVE HeapInv'
    <3>1. CASE ListDelPanics(heap, bh)
      BY <1>3, <2>7, <3>1 DEF BDrop
    <3>2. CASE ~ListDelPanics(heap, bh)
      <4>1. /\ head[bh].st # "free" /\ heap' = ListDel(heap, bh)
            /\ head' = [head EXCEPT ![bh].st = "gone", ![bh].op = "drop"]
        BY <2>7, <3>2 DEF BDrop, Usable
      <4>2. KindsKept
        <5>1. \/ blk' = blk
              \/ \E e : blk' = [blk EXCEPT ![head[bh].blk].bkt = e]
          BY <2>7, <3>2 DEF BDrop
        <5>. QED
          BY <1>5a, <5>1 DEF KindsKept
      <4>3. /\ \A g \in BufHead \ {bh} : head'[g] = head[g]
            /\ head'[bh].st = "gone" /\ head'[bh].blk = head[bh].blk
            /\ head'[bh].by = head[bh].by
        BY <1>0, <4>1
      <4>. QED
        BY <1>0, <3>2, <4>1, <4>2, <4>3, DropKeepsHeap
    <3>. QED
      BY <3>1, <3>2
  <2>. QED
    BY <1>0, <1>10, <2>1, <2>2, <2>3, <2>4, <2>5, <2>6, <2>7, BallocKeepsHeap DEF Client
<1>11. CASE UNCHANGED vars
  BY <1>2, <1>11 DEF vars
<1>. QED
  BY <1>6, <1>7, <1>8, <1>9, <1>10, <1>11 DEF Next, Flush

\* Whatever the client does, the heads of a block and its anchor form one well-linked
\* ring until BhBalloon links one of them a second time: what ErofsBflush walks and what
\* the tail checks of Battach and BhBalloon look at.
THEOREM RingsStayLinked == Spec => []HeadsLinked
<1>1. Init => HeapInv
  <2>1. Init => heap = NoLinks /\ head = NoHeads /\ Allocated = {}
    BY DEF Init, Allocated, NoBlocks, NoBlock
  <2>. QED
    BY <2>1, NoHeap DEF HeapInv
<1>2. RingIInv /\ RingIInv' /\ HeapInv /\ [Next]_vars => HeapInv'
  BY NextKeepsHeap
<1>3. HeapInv => HeadsLinked
  <2>1. SUFFICES ASSUME HeapInv, NEW b \in Block, blk[b].kind # "none", Sound(head, b)
                 PROVE  Linked(heap, RingOf(head, b))
    BY DEF HeadsLinked, Sound, RingOf
  <2>. QED
    BY <2>1 DEF HeapInv, HeapOK, BlockOK, RingSound, Allocated
<1>. QED
  BY <1>1, <1>2, <1>3, RingHolds, PTL DEF Spec
----------------------------------------------------------------------------
(***************************************************************************)
(* What a complete flush leaves in the list.  While ErofsBflush walks, the *)
(* blocks behind it are settled: mapped, and empty or held by a head whose *)
(* operations said skip.  A head that is dropped on the way writes to the  *)
(* ring of the block that is being walked, never to a settled one.         *)
(***************************************************************************)

Held(b)    == \E h \in BufHead : head[h].blk = b /\ head[h].op = "skip"
Settled(b) == Mapped(b) /\ (heap[b].next = b \/ Held(b))
FlushAt(i) ==
  /\ i \in 1..Len(blks) /\ blks[i] = call.p
  /\ \A j \in 1..(i - 1) : Settled(blks[j])
  /\ call.at # "block" /\ call.skip => Held(call.p)
  /\ call.at = "heads" => call.bh \in Nodes(head, call.p) \cup {NIL}
FlushInv == call.fn = "flush" => \E i \in 1..Len(blks) : FlushAt(i)

\* The walk stands at one place of the list only.
LEMMA FlushPlace ==
  ASSUME RingIInv, FlushInv, call.fn = "flush"
  PROVE  /\ blks \in Seq(Block) /\ Len(blks) \in Nat /\ Distinct /\ call \in FlushCalls
         /\ call.p \in Block /\ call.p \in Allocated
         /\ \A j \in 1..Len(blks) : blks[j] \in Block
         /\ \E i \in 1..Len(blks) :
              /\ FlushAt(i) /\ blks[i] = call.p /\ Index(call.p) = i
              /\ \A j \in 1..(i - 1) : /\ Settled(blks[j]) /\ Mapped(blks[j])
                                       /\ j \in 1..Len(blks) /\ blks[j] # call.p
              /\ call.at # "block" =>
                   /\ Mapped(call.p)
                   /\ \/ call.n = NIL /\ i = Len(blks)
                      \/ i < Len(blks) /\ call.n = blks[i + 1]
<1>1. /\ TypeOK /\ MappedFirst /\ OwnersOK /\ blks \in Seq(Block) /\ Len(blks) \in Nat
      /\ call \in FlushCalls
  BY FlushCallTyped DEF RingIInv, RingInv, TypeOK
<1>2. Distinct
  BY <1>1 DEF MappedFirst, Distinct
<1>3. \A j \in 1..Len(blks) : blks[j] \in Block
  BY <1>1
<1>4. PICK i \in 1..Len(blks) : FlushAt(i)
  BY DEF FlushInv
<1>5. blks[i] = call.p /\ Index(call.p) = i
  BY <1>1, <1>2, <1>4, NextOf DEF FlushAt
<1>6. \A j \in 1..(i - 1) : /\ Settled(blks[j]) /\ Mapped(blks[j])
                            /\ j \in 1..Len(blks) /\ blks[j] # call.p
  BY <1>1, <1>2, <1>4, <1>5 DEF FlushAt, Settled, Distinct
<1>7. call.p \in Block /\ call.p \in Allocated
  BY <1>1, <1>3, <1>5 DEF OwnersOK, InRing, Range, Allocated
<1>8. PICK k \in 1..Len(blks) :
        /\ blks[k] = call.p
        /\ call.at # "block" =>
             /\ Mapped(call.p)
             /\ \/ call.n = NIL /\ k = Len(blks)
                \/ k < Len(blks) /\ call.n = blks[k + 1]
  BY WalkAt
<1>9. k = i
  BY <1>1, <1>2, <1>5, <1>8 DEF Distinct
<1>. QED
  BY <1>1, <1>2, <1>3, <1>4, <1>5, <1>6, <1>7, <1>8, <1>9

\* Nothing but ErofsBflush's loop moves while it runs, and only ErofsBflush starts it.
LEMMA OtherCalls ==
  ASSUME NEW c, call' = c, c = Idle \/ c.fn = "map"
  PROVE  FlushInv'
  BY DEF FlushInv, Idle

LEMMA ClientIdle ==
  ASSUME Client
  PROVE  call = Idle
<1>1. ASSUME NEW a, NEW b, NEW c, NEW d, NEW e, NEW f,
             \/ BallocNoSpace(a, b, c) \/ BallocSearch(a, b, c, d)
             \/ BallocNew(a, b, c, d, e, f) \/ Battach(a, b, c, d) \/ BhBalloon(a, b)
             \/ SetOp(a, b) \/ BDrop(a, b) \/ MapBh(a) \/ ErofsBflush(a)
      PROVE  Ready
  BY <1>1 DEF BallocNoSpace, BallocSearch, BallocNew, Battach, BhBalloon, SetOp, BDrop,
              MapBh, ErofsBflush
<1>2. Ready
  BY <1>1, Zenon DEF Client
<1>. QED
  BY <1>2 DEF Ready

LEMMA ClientStartsFlush ==
  ASSUME RingIInv, Client
  PROVE  FlushInv'
<1>1. call = Idle
  BY ClientIdle
<1>2. CASE call' = call
  BY <1>1, <1>2, OtherCalls
<1>3. CASE \E how : Die(how)
  BY <1>3, OtherCalls DEF Die
<1>4. ASSUME NEW x, MapBh(x) PROVE FlushInv'
  <2>1. CASE call' = Idle
    BY <2>1, OtherCalls
  <2>2. CASE call' = [fn |-> "map", t |-> last, want |-> x]
    <3>1. call'.fn = "map"
      BY <2>2
    <3>. QED
      BY <3>1, OtherCalls
  <2>. QED
    BY <1>4, <2>1, <2>2 DEF MapBh
<1>5. ASSUME NEW x, ErofsBflush(x) PROVE FlushInv'
  <2>1. CASE blks = <<>>
    BY <1>2, <1>5, <2>1 DEF ErofsBflush
  <2>2. CASE blks # <<>>
    <3>1. /\ call'.fn = "flush" /\ call'.at = "block" /\ call'.p = blks[1] /\ blks' = blks
      BY <1>5, <2>2 DEF ErofsBflush
    <3>2. blks \in Seq(Block) /\ 1 \in 1..Len(blks)
      BY <2>2 DEF RingIInv, TypeOK
    <3>3. \A j \in 1..(1 - 1) : Settled(blks[j])'
      OBVIOUS
    <3>. QED
      BY <3>1, <3>2, <3>3 DEF FlushInv, FlushAt
  <2>. QED
    BY <2>1, <2>2
<1>6. ASSUME NEW b, NEW h, NEW incr, NEW align, NEW op, NEW by,
             Attach(b, h, incr, align, op, by)
      PROVE  FlushInv'
  BY <1>2, <1>6 DEF Attach
<1>7. CASE Refuse
  BY <1>2, <1>7 DEF Refuse
<1>8. ASSUME NEW t, NEW size, NEW req, NEW inl,
             \/ BallocNoSpace(size, req, inl)
             \/ BallocSearch(t, size, req, inl)
             \/ \E b \in Block, h \in BufHead : BallocNew(b, h, t, size, req, inl)
      PROVE  FlushInv'
  <2>1. ASSUME NEW b, NEW h, BallocNew(b, h, t, size, req, inl) PROVE FlushInv'
    BY <1>2, <1>3, <2>1 DEF BallocNew
  <2>. QED
    BY <1>3, <1>7, <1>8, <2>1 DEF BallocNoSpace, BallocSearch
<1>9. ASSUME NEW bh, NEW new, NEW t, NEW size,
             Battach(bh, new, t, size) \/ BhBalloon(bh, size)
      PROVE  FlushInv'
  BY <1>6, <1>7, <1>9 DEF Battach, BhBalloon
<1>10. ASSUME NEW bh, NEW x, SetOp(bh, x) \/ BDrop(bh, x) PROVE FlushInv'
  BY <1>2, <1>3, <1>10 DEF SetOp, BDrop
<1>. QED
  BY <1>4, <1>5, <1>8, <1>9, <1>10 DEF Client

\* The top of the loop maps the block it stands at; it starts with its first head.
LEMMA FlushBlockSettles ==
  ASSUME RingIInv, HeapInv, FlushInv, FlushBlock
  PROVE  FlushInv'
<1>1. call.fn = "flush" /\ UNCHANGED <<blks, head, heap>>
  BY DEF FlushBlock, Flushing
<1>2. CASE call.p = call.stop
  BY <1>2, OtherCalls DEF FlushBlock
<1>3. CASE call.p # call.stop
  <2>. DEFINE nx == IF NextBlk(call.p) = BlkH THEN NIL ELSE NextBlk(call.p)
              e  == EmptyBlk(call.p)
              fh == IF e THEN NIL ELSE heap[call.p].next
              at == IF e THEN "end" ELSE "heads"
  <2>1. /\ call \in FlushCalls /\ MapBhInternal(call.p)
        /\ call' = [call EXCEPT !.n = nx, !.skip = FALSE, !.bh = fh, !.at = at]
    BY <1>1, <1>3, FlushPlace DEF FlushBlock
  <2>2. fh \in Nodes(head, call.p) \cup {NIL}
    <3>1. call.p \in Nodes(head, call.p) /\ BlockOK(heap, head, call.p)
      BY <1>1, FlushPlace DEF HeapInv, HeapOK, Nodes
    <3>. QED
      BY <3>1 DEF BlockOK, Enclosed
  <2>. HIDE DEF nx, fh, at
  <2>3. call'.p = call.p /\ call'.bh = fh /\ call'.skip = FALSE
    BY <2>1 DEF FlushCalls
  <2>4. PICK i \in 1..Len(blks) :
          /\ FlushAt(i) /\ blks[i] = call.p
          /\ \A j \in 1..(i - 1) : /\ Settled(blks[j]) /\ Mapped(blks[j])
                                   /\ j \in 1..Len(blks) /\ blks[j] # call.p
    BY <1>1, FlushPlace
  <2>5. \A j \in 1..i : Mapped(blks[j])'
    <3>1. TypeOK /\ MappedFirst
      BY DEF RingIInv, RingInv
    <3>. QED
      BY <1>1, <2>1, <2>4, <3>1, MapKeeps
  <2>6. \A j \in 1..(i - 1) : Settled(blks[j])'
    <3>1. ASSUME NEW j \in 1..(i - 1) PROVE Settled(blks[j])'
      <4>1. Mapped(blks[j])'
        BY <1>1, <2>4, <2>5, FlushPlace
      <4>. QED
        BY <1>1, <2>4, <4>1 DEF Settled, Held
    <3>. QED
      BY <3>1
  <2>7. FlushAt(i)'
    BY <1>1, <2>2, <2>3, <2>4, <2>6 DEF FlushAt
  <2>. QED
    BY <1>1, <2>4, <2>7 DEF FlushInv
<1>. QED
  BY <1>2, <1>3

\* A head's turn: dropping it writes to no block but its own, which is the one walked.
LEMMA FlushHeadSettles ==
  ASSUME RingIInv, HeapInv, FlushInv, NEW bh \in BufHead, FlushHead(bh)
  PROVE  FlushInv'
<1>. DEFINE nbh == NextHead(bh)
            at  == IF nbh = NIL THEN "end" ELSE "heads"
            sk  == call.skip \/ head[bh].op = "skip"
            turn == call' = [call EXCEPT !.bh = nbh, !.at = at, !.skip = sk]
<1>1. /\ call.fn = "flush" /\ call.at = "heads" /\ call.bh = bh
      /\ heap \in Heaps(Node) /\ head \in [BufHead -> HeadRec]
  BY DEF FlushHead, Flushing, RingIInv, TypeOK, HeadRec, Node
<1>2. CASE call' = Idle
  BY <1>2, OtherCalls
<1>3. CASE /\ turn /\ UNCHANGED <<blks, blk>>
           /\ \/ UNCHANGED <<head, heap>>
              \/ heap' = ListDel(heap, bh) /\ head' = [head EXCEPT ![bh].st = "gone"]
  <2>1. PICK i \in 1..Len(blks) :
          /\ FlushAt(i) /\ blks[i] = call.p
          /\ \A j \in 1..(i - 1) : /\ Settled(blks[j]) /\ Mapped(blks[j])
                                   /\ j \in 1..Len(blks) /\ blks[j] # call.p
    BY <1>1, FlushPlace
  <2>2. /\ call \in FlushCalls /\ call.p \in Block /\ Len(blks) \in Nat
        /\ \A j \in 1..Len(blks) : blks[j] \in Block
        /\ BlockOK(heap, head, call.p)
    BY <1>1, FlushPlace DEF HeapInv, HeapOK
  <2>3. bh \in Nodes(head, call.p) /\ head[bh].blk = call.p
    BY <1>1, <2>1, <2>2, Pools DEF FlushAt, Nodes
  <2>4. nbh \in Nodes(head, call.p) \cup {NIL}
    BY <2>2, <2>3 DEF NextHead, BlockOK, Enclosed
  <2>5. \A h \in BufHead : head'[h].blk = head[h].blk /\ head'[h].op = head[h].op
    <3>1. CASE head' = [head EXCEPT ![bh].st = "gone"]
      <4>. QED
        BY <1>1, <3>1 DEF HeadRec
    <3>. QED
      BY <1>3, <3>1
  <2>6. \A b \in Block : Held(b)' <=> Held(b)
    BY <2>5 DEF Held
  <2>7. Nodes(head', call.p) = Nodes(head, call.p)
    BY <2>5 DEF Nodes
  <2>8. ASSUME NEW b \in Block, b # call.p PROVE heap'[b] = heap[b]
    <3>1. bh \in Node /\ b \in Node /\ b \notin Nodes(head, call.p) /\ b # NIL
      BY <2>8, Pools DEF Nodes
    <3>2. b \notin {bh, heap[bh].prev, heap[bh].next}
      BY <2>2, <2>3, <3>1 DEF BlockOK, Enclosed
    <3>. QED
      BY <1>1, <1>3, <3>1, <3>2, DelWrites
  <2>9. Held(call.p) \/ head[bh].op # "skip"
    BY <2>3 DEF Held
  <2>10. call'.p = call.p /\ call'.bh = nbh /\ call'.skip = sk
    <3>. HIDE DEF nbh, at, sk
    <3>. QED
      BY <1>3, <2>2 DEF FlushCalls
  <2>11. \A j \in 1..(i - 1) : Settled(blks[j])'
    <3>1. ASSUME NEW j \in 1..(i - 1) PROVE Settled(blks[j])'
      <4>1. blks[j] \in Block /\ blks[j] # call.p /\ Settled(blks[j])
        BY <2>1, <2>2
      <4>2. heap'[blks[j]] = heap[blks[j]] /\ (Held(blks[j])' <=> Held(blks[j]))
        BY <1>3, <2>6, <2>8, <4>1 DEF Held
      <4>. QED
        BY <1>3, <4>1, <4>2 DEF Settled, Mapped
    <3>. QED
      BY <3>1
  <2>12. call'.skip => Held(call.p)'
    <3>1. ASSUME call'.skip PROVE Held(call.p)
      <4>1. call.skip \/ head[bh].op = "skip"
        BY <2>10, <3>1
      <4>. QED
        BY <1>1, <2>1, <2>9, <4>1 DEF FlushAt
    <3>2. call'.p = call.p
      BY <2>10
    <3>. QED
      BY <2>2, <2>6, <3>1, <3>2 DEF Held
  <2>. HIDE DEF nbh
  <2>13. FlushAt(i)'
    BY <1>3, <2>1, <2>4, <2>7, <2>10, <2>11, <2>12 DEF FlushAt, Held
  <2>. QED
    BY <1>3, <2>1, <2>13 DEF FlushInv
<1>4. Die("panic") => call' = Idle
  BY DEF Die
<1>. QED
  BY <1>2, <1>3, <1>4 DEF FlushHead

\* The bottom of the loop, and what it leaves behind: the block is settled or out of
\* the list.
LEMMA FlushEndSettles ==
  ASSUME RingIInv, FlushInv, FlushEnd
  PROVE  /\ FlushInv'
         /\ call' = Idle => \A j \in 1..Len(blks') : Settled(blks[j])'
<1>1. /\ call.fn = "flush" /\ call.at = "end" /\ UNCHANGED <<head, heap>>
      /\ blk \in [Block -> BlkRec]
  BY DEF FlushEnd, Flushing, RingIInv, TypeOK, BlkRec
<1>2. /\ blks \in Seq(Block) /\ Len(blks) \in Nat /\ call \in FlushCalls /\ call.p \in Block
      /\ \A j \in 1..Len(blks) : blks[j] \in Block
  BY <1>1, FlushPlace
<1>3. PICK i \in 1..Len(blks) :
        /\ FlushAt(i) /\ blks[i] = call.p /\ Index(call.p) = i
        /\ \A j \in 1..(i - 1) : /\ Settled(blks[j]) /\ Mapped(blks[j])
                                 /\ j \in 1..Len(blks) /\ blks[j] # call.p
        /\ Mapped(call.p)
        /\ \/ call.n = NIL /\ i = Len(blks)
           \/ i < Len(blks) /\ call.n = blks[i + 1]
  BY <1>1, FlushPlace
<1>4. \A b \in Block : blk'[b].addr = blk[b].addr
  <2>1. ASSUME NEW e, blk' = [blk EXCEPT ![call.p].bkt = e]
        PROVE  \A b \in Block : blk'[b].addr = blk[b].addr
    BY <1>1, <2>1 DEF BlkRec
  <2>2. blk' = blk \/ \E e : blk' = [blk EXCEPT ![call.p].bkt = e]
    BY DEF FlushEnd
  <2>. QED
    BY <2>1, <2>2
<1>5. \A b \in Block : Settled(b) => Settled(b)'
  BY <1>1, <1>4 DEF Settled, Mapped, Held
<1>6. \/ blks' = blks /\ Settled(call.p)
      \/ blks' = RemoveAt(blks, i)
  BY <1>1, <1>3 DEF FlushEnd, ErofsBfree, IsListEmpty, Settled, FlushAt
<1>7. \/ call.n = NIL /\ call' = Idle
      \/ /\ call.n # NIL /\ call'.fn = "flush" /\ call'.at = "block" /\ call'.p = call.n
  BY <1>2 DEF FlushEnd, FlushCalls
<1>8. \E k \in {i - 1, i} :
        /\ \A j \in 1..k : Settled(blks[j])'
        /\ Len(blks') = Len(blks) - i + k
        /\ i < Len(blks) => k + 1 \in 1..Len(blks') /\ blks'[k + 1] = blks[i + 1]
  <2>1. CASE blks' = blks /\ Settled(call.p)
    <3>1. \A j \in 1..i : Settled(blks[j])'
      <4>1. ASSUME NEW j \in 1..i PROVE Settled(blks[j])'
        <5>1. blks[j] \in Block /\ Settled(blks[j])
          BY <1>2, <1>3, <2>1
        <5>. QED
          BY <1>5, <2>1, <5>1 DEF Settled, Mapped, Held
      <4>. QED
        BY <4>1
    <3>. QED
      BY <1>2, <2>1, <3>1
  <2>2. CASE blks' = RemoveAt(blks, i)
    <3>1. /\ Len(blks') = Len(blks) - 1
          /\ \A j \in 1..(i - 1) : blks'[j] = blks[j]
          /\ \A j \in i..(Len(blks) - 1) : blks'[j] = blks[j + 1]
      BY <1>2, <2>2, RemoveProps
    <3>2. \A j \in 1..(i - 1) : Settled(blks[j])'
      <4>1. ASSUME NEW j \in 1..(i - 1) PROVE Settled(blks[j])'
        <5>1. blks[j] \in Block /\ Settled(blks[j]) /\ blks'[j] = blks[j]
          BY <1>2, <1>3, <3>1
        <5>. QED
          BY <1>5, <5>1 DEF Settled, Mapped, Held
      <4>. QED
        BY <4>1
    <3>. QED
      BY <1>2, <3>1, <3>2
  <2>. QED
    BY <1>6, <2>1, <2>2
<1>9. PICK k \in {i - 1, i} :
        /\ \A j \in 1..k : Settled(blks[j])'
        /\ Len(blks') = Len(blks) - i + k
        /\ i < Len(blks) => k + 1 \in 1..Len(blks') /\ blks'[k + 1] = blks[i + 1]
  BY <1>8
<1>10. CASE call.n = NIL /\ call' = Idle
  <2>1. i = Len(blks) /\ Len(blks') = k
    BY <1>2, <1>3, <1>9, <1>10, Pools
  <2>. QED
    BY <1>9, <1>10, <2>1, OtherCalls
<1>11. CASE /\ call.n # NIL /\ call'.fn = "flush" /\ call'.at = "block" /\ call'.p = call.n
  <2>1. i < Len(blks) /\ call.n = blks[i + 1]
    BY <1>3, <1>11
  <2>2. k + 1 \in 1..Len(blks') /\ blks'[k + 1] = call'.p
    BY <1>9, <1>11, <2>1
  <2>3. \A j \in 1..((k + 1) - 1) : Settled(blks[j])'
    BY <1>2, <1>9
  <2>4. FlushAt(k + 1)'
    BY <1>11, <2>2, <2>3 DEF FlushAt
  <2>5. call' # Idle
    BY <1>11 DEF Idle
  <2>. QED
    BY <2>2, <2>4, <2>5 DEF FlushInv
<1>. QED
  BY <1>7, <1>10, <1>11

LEMMA NextSettles ==
  ASSUME RingIInv, HeapInv, FlushInv, [Next]_vars
  PROVE  FlushInv'
<1>1. CASE UNCHANGED vars
  BY <1>1 DEF vars, FlushInv, FlushAt, Settled, Mapped, Held
<1>2. CASE MapStep
  <2>1. call.fn = "map" /\ call \in Calls
    BY <1>2 DEF MapStep, RingIInv, TypeOK
  <2>2. call' = Idle \/ \E t : call' = [call EXCEPT !.t = t]
    BY <1>2 DEF MapStep, Die
  <2>3. CASE call' = Idle
    BY <2>3, OtherCalls
  <2>4. ASSUME NEW t, call' = [call EXCEPT !.t = t] PROVE FlushInv'
    <3>1. call'.fn = "map"
      BY <2>1, <2>4 DEF Calls, Idle
    <3>. QED
      BY <3>1, OtherCalls
  <2>. QED
    BY <2>2, <2>3, <2>4
<1>. QED
  BY <1>1, <1>2, ClientStartsFlush, FlushBlockSettles, FlushHeadSettles, FlushEndSettles
  DEF Next, Flush

\* Whatever the client has made of the list before, ErofsBflush(nil) that returns 0 has
\* given every block still in the list its place in the image, and what it left there is
\* empty or held back by a head whose operations skip.
THEOREM FlushDoesItAll == Spec => FlushLeaves
<1>1. Init => FlushInv
  BY DEF Init, FlushInv, Idle
<1>2. RingIInv /\ HeapInv /\ FlushInv /\ [Next]_vars => FlushInv'
  BY NextSettles
<1>3. RingIInv /\ HeapInv /\ FlushInv /\ [Next]_vars =>
        [call.fn = "flush" /\ call' = Idle /\ ret' = "0" /\ call.stop = NIL =>
           \A i \in 1..Len(blks') :
             LET b == blks'[i] IN
             /\ blk'[b].addr # NULL_ADDR
             /\ \/ heap'[b].next = b
                \/ \E h \in BufHead : head[h].blk = b /\ head[h].op = "skip"]_vars
  <2>1. SUFFICES ASSUME RingIInv, HeapInv, FlushInv, Next, call.fn = "flush", call' = Idle,
                        ret' = "0", call.stop = NIL, NEW i \in 1..Len(blks')
                 PROVE  /\ blk'[blks'[i]].addr # NULL_ADDR
                        /\ \/ heap'[blks'[i]].next = blks'[i]
                           \/ \E h \in BufHead : head[h].blk = blks'[i] /\ head[h].op = "skip"
    OBVIOUS
  <2>2. FlushEnd
    <3>1. ~Client
      <4>1. ASSUME Client PROVE call = Idle
        BY <4>1, ClientIdle
      <4>. QED
        BY <2>1, <4>1 DEF Idle
    <3>2. ~MapStep
      BY <2>1 DEF MapStep
    <3>3. ~FlushBlock
      <4>1. call.p # NIL
        BY <2>1, FlushPlace, Pools
      <4>2. call.p # call.stop
        BY <2>1, <4>1
      <4>. QED
        BY <2>1, <4>2 DEF FlushBlock
    <3>4. ASSUME NEW bh \in BufHead PROVE ~FlushHead(bh)
      <4>1. ASSUME FlushHead(bh) PROVE call'.fn = "flush"
        <5>1. call \in FlushCalls
          BY <2>1, FlushPlace
        <5>. QED
          BY <2>1, <4>1, <5>1 DEF FlushHead, FlushCalls, Die, Quiet
      <4>. QED
        BY <2>1, <4>1 DEF Idle
    <3>. QED
      BY <2>1, <3>1, <3>2, <3>3, <3>4 DEF Next, Flush
  <2>3. Settled(blks[i])' /\ UNCHANGED head
    BY <2>1, <2>2, FlushEndSettles DEF FlushEnd
  <2>. QED
    BY <2>3 DEF Settled, Mapped, Held
<1>4. Init => HeapInv
  <2>1. Init => heap = NoLinks /\ head = NoHeads /\ Allocated = {}
    BY DEF Init, Allocated, NoBlocks, NoBlock
  <2>. QED
    BY <2>1, NoHeap DEF HeapInv
<1>5. RingIInv /\ RingIInv' /\ HeapInv /\ [Next]_vars => HeapInv'
  BY NextKeepsHeap
<1>. QED
  BY <1>1, <1>2, <1>3, <1>4, <1>5, RingHolds, PTL DEF Spec, FlushLeaves
=============================================================================
