---------------------------- MODULE InodeProofs ----------------------------
(***************************************************************************)
(* The inodes' numbers and data, for every pool of inodes, blocks and      *)
(* heads, every file and every order of calls.                             *)
(*                                                                         *)
(* The inode code uses the buffer manager through a few of its calls       *)
(* (ManagerStep).  The first part shows what those do to a block and to a  *)
(* head that somebody holds: as long as the process lives, they stay where *)
(* they are.  The second part is the invariant of the inodes themselves.   *)
(***************************************************************************)
EXTENDS Inode, LayoutProofs

\* The steps of the manager that the inode code, its neighbours and the manager's own
\* loops take, and a step that leaves the manager alone.
ManagerStep ==
  \/ \E b \in Block, h \in BufHead, t \in BufType, size \in Nat : BallocNew(b, h, t, size, 0, 0)
  \/ \E bh, new \in BufHead, t \in BufType, size \in Nat : Battach(bh, new, t, size)
  \/ \E h \in BufHead : SetOp(h, "busy")
  \/ \E want \in Block \cup {NIL} : MapBh(want)
  \/ ErofsBflush(NIL) \/ MapStep \/ Flush
  \/ Refuse \/ UNCHANGED vars \/ Die("panic")

\* No head is dropped: none of these calls gives a head that operation.
HeadsLive == \A h \in BufHead : head[h].st # "gone" /\ head[h].op # "drop"

\* A block that is not mapped yet is still in the list.
Kept == \A b \in Block : blk[b].kind # "none" /\ ~Mapped(b) => InRing(b)

ManagerInv == RingIInv /\ LayoutInv /\ CellInv /\ HeadsLive /\ Kept

\* A head that is held stays where it is, and a block never gets shorter nor moves.
HeadsLast ==
  \A h \in BufHead : head[h].st = "live" =>
    /\ head'[h].st = "live" /\ head'[h].blk = head[h].blk
    /\ head'[h].off = head[h].off /\ head'[h].len = head[h].len /\ head'[h].by = head[h].by
BlocksLast ==
  \A b \in Block : blk[b].kind # "none" =>
    /\ blk'[b].kind # "none" /\ blk'[b].off >= blk[b].off
    /\ Mapped(b) => Mapped(b)' /\ blk'[b].addr = blk[b].addr
----------------------------------------------------------------------------
(***************************************************************************)
(* What the manager's steps do.                                            *)
(***************************************************************************)

LEMMA ManagerRing ==
  ASSUME RingIInv, ManagerStep
  PROVE  RingIInv'
<1>1. ASSUME NEW b \in Block, NEW h \in BufHead, NEW t \in BufType, NEW size \in Nat,
             BallocNew(b, h, t, size, 0, 0)
      PROVE  RingIInv'
  <2>1. 0 \in Nat
    OBVIOUS
  <2>. QED
    BY <1>1, <2>1, BallocNewKeepsRing
<1>2. ASSUME NEW h \in BufHead, SetOp(h, "busy") PROVE RingIInv'
  <2>1. "busy" \in Op
    BY DEF Op
  <2>. QED
    BY <1>2, <2>1, SetOpKeepsRing
<1>3. ASSUME ErofsBflush(NIL) PROVE RingIInv'
  BY <1>3, BflushKeepsRing
<1>4. ASSUME Die("panic") PROVE RingIInv'
  BY <1>4, DieKeepsRing
<1>5. ASSUME MapStep \/ Flush \/ UNCHANGED vars PROVE RingIInv'
  BY <1>5, NextKeepsRing DEF Next
<1>. QED
  BY <1>1, <1>2, <1>3, <1>4, <1>5, BattachKeepsRing, MapBhKeepsRing, RefuseKeepsRing
  DEF ManagerStep

LEMMA ManagerLayout ==
  ASSUME RingIInv, LayoutInv, ManagerStep
  PROVE  LayoutStep
<1>0. TypeOK /\ ExtentsDisjoint /\ PoolFresh
  BY DEF RingIInv, LayoutInv
<1>1. ASSUME blk' = blk, tail' = tail PROVE LayoutStep
  BY <1>1, StayIsStep
<1>2. ASSUME NEW h, SetOp(h, "busy") PROVE LayoutStep
  BY <1>1, <1>2 DEF SetOp
<1>3. ASSUME NEW want, MapBh(want) PROVE LayoutStep
  BY <1>1, <1>3 DEF MapBh
<1>4. ASSUME ErofsBflush(NIL) \/ Refuse \/ UNCHANGED vars PROVE LayoutStep
  BY <1>1, <1>4 DEF ErofsBflush, Refuse, vars
<1>5. ASSUME Die("panic") PROVE LayoutStep
  BY <1>5, DieIsStep
<1>. QED
  BY <1>0, <1>2, <1>3, <1>4, <1>5, BallocIsStep, BattachIsStep, MapTurnIsStep, FlushIsStep
  DEF ManagerStep

LEMMA ManagerCells ==
  ASSUME RingIInv, ManagerStep
  PROVE  CellStep
<1>0. head \in [BufHead -> HeadRec]
  BY DEF RingIInv, TypeOK, HeadRec
<1>1. ASSUME blk' = blk, head' = head PROVE CellStep
  BY <1>1, StayMovesNoCell
<1>2. ASSUME NEW h \in BufHead, SetOp(h, "busy") PROVE CellStep
  <2>1. head' = [head EXCEPT ![h].op = "busy"] /\ blk' = blk
    BY <1>2 DEF SetOp
  <2>2. \A g \in BufHead : /\ head'[g].blk = head[g].blk /\ head'[g].off = head[g].off
                           /\ head'[g].len = head[g].len /\ head'[g].by = head[g].by
    BY <1>0, <2>1 DEF HeadRec
  <2>. QED
    BY <2>1, <2>2, StayMovesNoCell
<1>3. ASSUME NEW want, MapBh(want) PROVE CellStep
  BY <1>1, <1>3 DEF MapBh
<1>4. ASSUME ErofsBflush(NIL) \/ Refuse \/ UNCHANGED vars PROVE CellStep
  BY <1>1, <1>4 DEF ErofsBflush, Refuse, vars
<1>5. ASSUME Die("panic") PROVE CellStep
  BY <1>5, DieIsCellStep
<1>. QED
  BY <1>2, <1>3, <1>4, <1>5, BallocIsCellStep, BattachIsCellStep, FlushIsCellStep
  DEF ManagerStep

\* Blocks last: rooms never move, and only the end of a block moves.
LEMMA ManagerBlocks ==
  ASSUME RingIInv, RingIInv', LayoutStep, CellStep, status' = "run"
  PROVE  BlocksLast
<1>0. TypeOK /\ TypeOK' /\ blk \in [Block -> BlkRec] /\ blk' \in [Block -> BlkRec]
  BY DEF RingIInv, TypeOK, BlkRec
<1>1. ASSUME NEW b \in Block, blk[b].kind # "none"
      PROVE  blk'[b].kind # "none" /\ blk'[b].off >= blk[b].off
  <2>0. blk[b].off \in Nat /\ blk'[b].off \in Nat
    BY <1>0 DEF BlkRec
  <2>1. CASE OffKept(b)
    BY <1>1, <2>0, <2>1 DEF OffKept
  <2>2. ASSUME NEW h \in BufHead, Puts(b, h)
        PROVE  blk'[b].kind # "none" /\ blk'[b].off >= blk[b].off
    <3>1. head'[h].off \in Nat /\ head'[h].len \in Nat
      BY <1>0 DEF TypeOK
    <3>2. /\ blk'[b].kind # "none" /\ head'[h].off >= blk[b].off
          /\ blk'[b].off = head'[h].off + head'[h].len
      BY <2>2 DEF Puts
    <3>. QED
      BY <2>0, <3>1, <3>2
  <2>3. ASSUME NEW c \in Block \ {b}, NEW h \in BufHead, Puts(c, h) PROVE OffKept(b)
    BY <2>3 DEF Puts
  <2>4. CellsStay => OffKept(b)
    BY DEF CellsStay
  <2>. QED
    BY <2>1, <2>2, <2>3, <2>4 DEF CellStep, CellsGone
<1>2. ASSUME NEW b \in Block, Mapped(b)
      PROVE  Mapped(b)' /\ blk'[b].addr = blk[b].addr
  <2>1. RoomOf(b).at = blk[b].addr /\ RoomOf(b)'.at = blk'[b].addr
    BY DEF RoomOf
  <2>2. RoomOf(b)'.at = RoomOf(b).at
    <3>1. CASE Stays
      BY <3>1 DEF Stays, Same
    <3>2. ASSUME NEW c \in Block, Gives(c) PROVE RoomOf(b)'.at = RoomOf(b).at
      <4>1. c # b
        BY <1>2, <3>2 DEF Gives
      <4>. QED
        BY <3>2, <4>1 DEF Gives, Same
    <3>3. ASSUME NEW c \in Block \ {b}, Grows(c) PROVE RoomOf(b)'.at = RoomOf(b).at
      BY <3>3 DEF Grows, Same
    <3>4. CASE Grows(b)
      BY <2>1, <3>4 DEF Grows
    <3>. QED
      BY <3>1, <3>2, <3>3, <3>4 DEF LayoutStep, Forgets
  <2>. QED
    BY <1>2, <2>1, <2>2 DEF Mapped
<1>. QED
  BY <1>1, <1>2 DEF BlocksLast

\* Heads last: only free heads are given out, and no head that is held is touched but
\* for its operation.
LEMMA ManagerHeads ==
  ASSUME RingIInv, HeadsLive, ManagerStep, status' = "run"
  PROVE  HeadsLast /\ HeadsLive'
<1>0. head \in [BufHead -> HeadRec]
  BY DEF RingIInv, TypeOK, HeadRec
<1>1. CASE head' = head
  BY <1>1 DEF HeadsLast, HeadsLive
<1>2. ASSUME NEW h \in BufHead, head[h].st = "free", NEW x, NEW off, NEW by, NEW len,
             head' = [head EXCEPT ![h] = [st |-> "live", blk |-> x, off |-> off,
                                          op |-> "nil", by |-> by, len |-> len]]
      PROVE  HeadsLast /\ HeadsLive'
  <2>1. /\ \A g \in BufHead \ {h} : head'[g] = head[g]
        /\ head'[h].st = "live" /\ head'[h].op = "nil"
    BY <1>0, <1>2
  <2>2. HeadsLast
    BY <1>2, <2>1 DEF HeadsLast
  <2>3. HeadsLive'
    BY <2>1 DEF HeadsLive
  <2>. QED
    BY <2>2, <2>3
<1>3. ASSUME NEW b \in Block, NEW h \in BufHead, NEW t, NEW size, BallocNew(b, h, t, size, 0, 0)
      PROVE  HeadsLast /\ HeadsLive'
  <2>1. CASE Die("panic")
    BY <2>1 DEF Die
  <2>2. CASE ~Die("panic")
    <3>1. /\ head[h].st = "free"
          /\ \/ head' = head
             \/ \E x : head' = [head EXCEPT ![h] = [st |-> "live", blk |-> x, off |-> size,
                                                   op |-> "nil", by |-> "balloc", len |-> size]]
      BY <1>3, <2>2 DEF BallocNew
    <3>. QED
      BY <1>1, <1>2, <3>1
  <2>. QED
    BY <2>1, <2>2
<1>4. ASSUME NEW bh \in BufHead, NEW new \in BufHead, NEW t, NEW size, Battach(bh, new, t, size)
      PROVE  HeadsLast /\ HeadsLive'
  <2>1. head[new].st = "free"
    BY <1>4 DEF Battach
  <2>2. CASE Refuse
    BY <1>1, <2>2 DEF Refuse
  <2>3. CASE Attach(head[bh].blk, new, size, AlignOf(t), "nil", "attach")
    BY <1>2, <2>1, <2>3 DEF Attach
  <2>. QED
    BY <1>4, <2>2, <2>3 DEF Battach
<1>5. ASSUME NEW h \in BufHead, SetOp(h, "busy") PROVE HeadsLast /\ HeadsLive'
  <2>1. head' = [head EXCEPT ![h].op = "busy"]
    BY <1>5 DEF SetOp
  <2>2. \A g \in BufHead : /\ head'[g].st = head[g].st /\ head'[g].blk = head[g].blk
                           /\ head'[g].off = head[g].off /\ head'[g].len = head[g].len
                           /\ head'[g].by = head[g].by
                           /\ head'[g].op = head[g].op \/ head'[g].op = "busy"
    BY <1>0, <2>1 DEF HeadRec
  <2>. QED
    BY <2>2 DEF HeadsLast, HeadsLive
<1>6. ASSUME NEW want, MapBh(want) PROVE head' = head
  BY <1>6 DEF MapBh
<1>7. ASSUME ErofsBflush(NIL) \/ Refuse \/ UNCHANGED vars PROVE head' = head
  BY <1>7 DEF ErofsBflush, Refuse, vars
<1>8. ASSUME MapStep PROVE head' = head
  BY <1>8 DEF MapStep, Die
<1>9. ASSUME FlushBlock \/ FlushEnd PROVE head' = head
  BY <1>9 DEF FlushBlock, FlushEnd
<1>10. ASSUME NEW bh \in BufHead, FlushHead(bh) PROVE head' = head
  BY <1>10 DEF FlushHead, HeadsLive
<1>11. ASSUME Die("panic") PROVE FALSE
  BY <1>11 DEF Die
<1>. QED
  BY <1>1, <1>3, <1>4, <1>5, <1>6, <1>7, <1>8, <1>9, <1>10, <1>11 DEF ManagerStep, Flush

\* Blocks leave the list only when the flush has mapped them.
LEMMA ManagerKeeps ==
  ASSUME RingIInv, Kept, ManagerStep, status' = "run", BlocksLast
  PROVE  Kept'
<1>0. blk \in [Block -> BlkRec] /\ blks \in Seq(Block)
  BY DEF RingIInv, TypeOK, BlkRec
<1>1. ASSUME \A c \in Block : blk[c].kind = "none" => blk'[c].kind = "none",
             \A c \in Block : InRing(c) /\ ~Mapped(c) => InRing(c)'
      PROVE  Kept'
  BY <1>1 DEF Kept, BlocksLast
<1>2. ASSUME \A c \in Block : blk'[c].kind = blk[c].kind, blks' = blks
      PROVE  Kept'
  BY <1>1, <1>2 DEF InRing
<1>3. CASE blk' = blk /\ blks' = blks
  BY <1>2, <1>3
<1>4. ASSUME NEW b \in Block, NEW h \in BufHead, NEW t \in BufType, NEW size \in Nat,
             BallocNew(b, h, t, size, 0, 0)
      PROVE  Kept'
  <2>0. ~(KindOf(t) = "DATA" /\ last = JUNK)
    BY <1>4 DEF BallocNew, Die
  <2>1. blk' = [blk EXCEPT ![b] = NewBlock(KindOf(t))] /\ blks' = Inserted(b, t)
    BY <1>4, <2>0 DEF BallocNew
  <2>2. ASSUME NEW c \in Block PROVE InRing(c)' <=> InRing(c) \/ c = b
    <3>. DEFINE ring == Inserted(b, t)
    <3>1. PICK k \in 1..(Len(blks) + 1) :
            /\ ring \in Seq(Block) /\ Len(ring) = Len(blks) + 1 /\ ring[k] = b
            /\ \A j \in 1..(k - 1) : ring[j] = blks[j]
            /\ \A j \in (k + 1)..(Len(blks) + 1) : ring[j] = blks[j - 1]
            /\ \A j \in k..Len(blks) : ~Mapped(blks[j])
      BY <2>0, InsertionPoint
    <3>2. blks' = ring
      BY <2>1
    <3>. HIDE DEF ring
    <3>3. c \in Range(ring) <=> c \in Range(blks) \/ c = b
      BY <1>0, <3>1, InsertedRange
    <3>. QED
      BY <3>2, <3>3 DEF InRing
  <2>3. ASSUME NEW c \in Block \ {b}, blk'[c].kind # "none", ~Mapped(c)' PROVE InRing(c)'
    <3>1. blk'[c] = blk[c]
      BY <1>0, <2>1
    <3>. QED
      BY <2>2, <2>3, <3>1 DEF Kept, Mapped
  <2>. QED
    BY <2>2, <2>3 DEF Kept
<1>5. ASSUME NEW bh \in BufHead, NEW new \in BufHead, NEW t, NEW size, Battach(bh, new, t, size)
      PROVE  Kept'
  <2>1. CASE Refuse
    BY <1>3, <2>1 DEF Refuse
  <2>2. CASE Attach(head[bh].blk, new, size, AlignOf(t), "nil", "attach")
    <3>1. blks' = blks
      BY <2>2 DEF Attach
    <3>2. PICK b, off, e : blk' = [blk EXCEPT ![b].off = off, ![b].bkt = e]
      BY <2>2 DEF Attach
    <3>3. \A c \in Block : blk'[c].kind = blk[c].kind
      BY <1>0, <3>2 DEF BlkRec
    <3>. QED
      BY <1>2, <3>1, <3>3
  <2>. QED
    BY <1>5, <2>1, <2>2 DEF Battach
<1>6. ASSUME NEW h, SetOp(h, "busy") PROVE Kept'
  BY <1>3, <1>6 DEF SetOp
<1>7. ASSUME NEW want, MapBh(want) PROVE Kept'
  BY <1>3, <1>7 DEF MapBh
<1>8. ASSUME ErofsBflush(NIL) \/ Refuse \/ UNCHANGED vars PROVE Kept'
  BY <1>3, <1>8 DEF ErofsBflush, Refuse, vars
<1>9. ASSUME NEW b, MapBhInternal(b), blks' = blks PROVE Kept'
  <2>1. \A c \in Block : blk'[c].kind = blk[c].kind
    BY <1>0, <1>9 DEF MapBhInternal, BlkRec
  <2>. QED
    BY <1>2, <1>9, <2>1
<1>10. CASE MapStep
  BY <1>3, <1>9, <1>10 DEF MapStep, Die
<1>11. CASE FlushBlock
  BY <1>3, <1>9, <1>11 DEF FlushBlock
<1>12. ASSUME NEW bh \in BufHead, FlushHead(bh) PROVE Kept'
  BY <1>3, <1>12 DEF FlushHead, Die
<1>13. CASE FlushEnd
  <2>1. PICK i \in 1..Len(blks) : blks[i] = call.p /\ Mapped(call.p)
    BY <1>13, WalkAt DEF FlushEnd, Flushing
  <2>2. \A c \in Block : blk'[c].kind = blk[c].kind
    <3>1. ASSUME NEW p, NEW e, blk' = [blk EXCEPT ![p].bkt = e]
          PROVE  \A c \in Block : blk'[c].kind = blk[c].kind
      BY <1>0, <3>1 DEF BlkRec
    <3>. QED
      BY <1>13, <3>1 DEF FlushEnd
  <2>3. blks' = blks \/ blks' = RemoveAt(blks, Index(call.p))
    BY <1>13 DEF FlushEnd, ErofsBfree
  <2>4. ASSUME NEW c \in Block, InRing(c), ~Mapped(c) PROVE InRing(c)'
    <3>1. CASE blks' = blks
      BY <2>4, <3>1 DEF InRing
    <3>2. CASE blks' = RemoveAt(blks, Index(call.p))
      <4>1. call.p \in Range(blks) /\ c # call.p
        BY <2>1, <2>4 DEF Range
      <4>2. Index(call.p) \in 1..Len(blks) /\ blks[Index(call.p)] = call.p
        BY <1>0, <4>1, IndexOf DEF Index
      <4>3. \A j, k \in 1..Len(blks) : j < k => blks[j] # blks[k]
        BY DEF RingIInv, RingInv, MappedFirst
      <4>. QED
        BY <1>0, <2>4, <3>2, <4>1, <4>2, <4>3, RemovedRange DEF InRing
    <3>. QED
      BY <2>3, <3>1, <3>2
  <2>. QED
    BY <1>1, <2>2, <2>4
<1>14. ASSUME Die("panic") PROVE FALSE
  BY <1>14 DEF Die
<1>. QED
  BY <1>4, <1>5, <1>6, <1>7, <1>8, <1>10, <1>11, <1>12, <1>13, <1>14 DEF ManagerStep, Flush

LEMMA ManagerInvKept ==
  ASSUME ManagerInv, ManagerStep, status' = "run"
  PROVE  ManagerInv' /\ HeadsLast /\ BlocksLast
<1>1. RingIInv' /\ LayoutStep /\ CellStep
  BY ManagerRing, ManagerLayout, ManagerCells DEF ManagerInv
<1>2. TypeOK /\ TypeOK' /\ ExtentsDisjoint /\ PoolFresh
  BY <1>1 DEF ManagerInv, RingIInv, LayoutInv
<1>3. LayoutInv' /\ CellInv'
  BY <1>1, <1>2, LayoutStepKeeps, CellStepKeeps DEF ManagerInv, LayoutInv
<1>4. BlocksLast
  BY <1>1, ManagerBlocks DEF ManagerInv
<1>5. HeadsLast /\ HeadsLive'
  BY ManagerHeads DEF ManagerInv
<1>6. Kept'
  BY <1>4, ManagerKeeps DEF ManagerInv
<1>. QED
  BY <1>1, <1>3, <1>4, <1>5, <1>6 DEF ManagerInv

\* A step that leaves the manager alone, of a process that lives or not.
LEMMA ManagerStays ==
  ASSUME ManagerInv, UNCHANGED vars
  PROVE  ManagerInv'
<1>1. ManagerStep
  BY DEF ManagerStep
<1>2. RingIInv' /\ LayoutStep /\ CellStep
  BY <1>1, ManagerRing, ManagerLayout, ManagerCells DEF ManagerInv
<1>3. TypeOK /\ TypeOK' /\ ExtentsDisjoint /\ PoolFresh
  BY <1>2 DEF ManagerInv, RingIInv, LayoutInv
<1>4. LayoutInv' /\ CellInv'
  BY <1>2, <1>3, LayoutStepKeeps, CellStepKeeps DEF ManagerInv, LayoutInv
<1>5. HeadsLive' /\ Kept'
  BY DEF ManagerInv, HeadsLive, Kept, InRing, Mapped, vars
<1>. QED
  BY <1>2, <1>4, <1>5 DEF ManagerInv

\* Nothing of the manager's is left of a process that has died.
LEMMA ManagerDies ==
  ASSUME NEW how \in {"panic", "hang"}, Die(how)
  PROVE  ManagerInv'
<1>1. RingIInv'
  BY DieKeepsRing
<1>2. head' = NoHeads /\ blk' = NoBlocks /\ blks' = <<>> /\ tail' = StartBlk
  BY DEF Die
<1>3. /\ \A h \in BufHead : head'[h].st = "free" /\ head'[h].op = "nil" /\ head'[h].by = "none"
      /\ \A b \in Block : blk'[b].kind = "none" /\ blk'[b].addr = NULL_ADDR
  BY <1>2 DEF NoHeads, NoHead, NoBlocks, NoBlock
<1>4. LayoutInv'
  BY <1>3 DEF LayoutInv, ExtentsDisjoint, PoolFresh, Mapped
<1>5. CellInv'
  BY <1>3 DEF CellInv, AttachedCellsPrivate, HeadsHoused, Attached
<1>6. HeadsLive' /\ Kept'
  BY <1>3 DEF HeadsLive, Kept
<1>. QED
  BY <1>1, <1>4, <1>5, <1>6 DEF ManagerInv

\* The manager at the start.
LEMMA ManagerStarts == Init => ManagerInv
<1>1. SUFFICES ASSUME Init PROVE ManagerInv
  OBVIOUS
<1>2. RingIInv
  BY <1>1, InitRing
<1>3. /\ \A h \in BufHead : head[h].st = "free" /\ head[h].op = "nil" /\ head[h].by = "none"
      /\ \A b \in Block : blk[b].kind = "none" /\ blk[b].addr = NULL_ADDR
  BY <1>1 DEF Init, NoHeads, NoHead, NoBlocks, NoBlock
<1>4. LayoutInv
  BY <1>3 DEF LayoutInv, ExtentsDisjoint, PoolFresh, Mapped
<1>5. CellInv
  BY <1>3 DEF CellInv, AttachedCellsPrivate, HeadsHoused, Attached
<1>6. HeadsLive /\ Kept
  BY <1>3 DEF HeadsLive, Kept
<1>. QED
  BY <1>2, <1>4, <1>5, <1>6 DEF ManagerInv

\* A block that is held and not mapped lies behind the last mapped one: MapBh's walk
\* does not end before it.
LEMMA WantedIsAhead ==
  ASSUME RingIInv, Kept, call.fn = "map", call.t # JUNK,
         NEW b \in Block, blk[b].kind # "none", ~Mapped(b)
  PROVE  NextBlk(call.t) # BlkH
<1>0. /\ blks \in Seq(Block) /\ Len(blks) \in Nat /\ last \in Block \cup {BlkH, JUNK}
      /\ call.t = last /\ BlkH \notin Block
      /\ \A i, j \in 1..Len(blks) : i < j => blks[i] # blks[j] /\ (Mapped(blks[j]) => Mapped(blks[i]))
  <2>1. blks \in Seq(Block) /\ last \in Block \cup {BlkH, JUNK} /\ call.t = last
    BY DEF RingIInv, RingInv, WalkOK, TypeOK
  <2>2. \A i, j \in 1..Len(blks) :
          i < j => blks[i] # blks[j] /\ (Mapped(blks[j]) => Mapped(blks[i]))
    BY DEF RingIInv, RingInv, MappedFirst
  <2>. QED
    BY <2>1, <2>2, PoolAssumption
<1>1. PICK k \in 1..Len(blks) : blks[k] = b
  <2>1. b \in Range(blks)
    BY DEF Kept, InRing
  <2>2. DOMAIN blks = 1..Len(blks)
    BY <1>0
  <2>. QED
    BY <2>1, <2>2, Zenon DEF Range
<1>2. CASE last = BlkH
  <2>1. Place(last) = 0 /\ Len(blks) # 0
    BY <1>0, <1>1, <1>2 DEF Place
  <2>2. NextBlk(call.t) = blks[1]
    BY <1>0, <2>1 DEF NextBlk
  <2>3. blks[1] \in Block
    BY <1>0, <1>1
  <2>. QED
    BY <1>0, <2>2, <2>3
<1>3. CASE last \in Block
  <2>1. PICK i \in 1..Len(blks) : blks[i] = last /\ Mapped(last)
    BY <1>3 DEF RingIInv, RingInv, MappedFirst
  <2>2. i < k
    <3>1. SUFFICES ASSUME k <= i PROVE FALSE
      BY <1>0, <1>1, <2>1
    <3>2. Mapped(b)
      BY <1>0, <1>1, <2>1, <3>1
    <3>. QED
      BY <3>2
  <2>3. NextBlk(last) = blks[i + 1]
    <3>1. Distinct
      BY <1>0 DEF Distinct
    <3>2. NextBlk(blks[i]) = IF i = Len(blks) THEN BlkH ELSE blks[i + 1]
      BY <1>0, <2>1, <3>1, NextOf
    <3>. QED
      BY <1>0, <1>1, <2>1, <2>2, <3>2
  <2>4. i + 1 \in 1..Len(blks)
    BY <1>0, <1>1, <2>1, <2>2
  <2>. QED
    BY <1>0, <2>3, <2>4
<1>. QED
  BY <1>0, <1>2, <1>3

\* A Balloc that ends with a head gives it a place inside its block.
LEMMA BallocFits ==
  ASSUME RingIInv, RingIInv', NEW b \in Block, NEW h \in BufHead, NEW t \in BufType,
         NEW size \in Nat, BallocNew(b, h, t, size, 0, 0), head'[h].st = "live"
  PROVE  head'[h].blk \in Block /\ size <= blk'[head'[h].blk].off
<1>0. head \in [BufHead -> HeadRec] /\ head' \in [BufHead -> HeadRec] /\ blk' \in [Block -> BlkRec]
  BY DEF RingIInv, TypeOK, HeadRec, BlkRec
<1>1. head[h].st = "free"
  BY DEF BallocNew
<1>2. PICK bb : /\ head' = [head EXCEPT ![h] = [st |-> "live", blk |-> bb, off |-> size,
                                              op |-> "nil", by |-> "balloc", len |-> size]]
                /\ ~(size > blk'[bb].off)
  <2>. DEFINE blk1    == [blk EXCEPT ![b] = NewBlock(KindOf(t))]
              ring    == Inserted(b, t)
              heap1   == InitListHead(heap, b)
              fits(x) == /\ blk1[x].kind = KindOf(t)
                         /\ blk1[x].off >= size + (0 + 0) * AlignOf(t)
              first   == CHOOSE i \in 1..Len(ring) :
                           /\ fits(ring[i])
                           /\ \A j \in 1..(i - 1) : ~fits(ring[j])
              bb      == IF \E x \in Range(ring) : fits(x) THEN ring[first] ELSE b
  <2>1. ~(KindOf(t) = "DATA" /\ last = JUNK)
    <3>1. ASSUME Die("panic") PROVE FALSE
      <4>1. head' = NoHeads
        BY <3>1 DEF Die
      <4>. QED
        BY <4>1 DEF NoHeads, NoHead
    <3>. QED
      BY <3>1 DEF BallocNew
  <2>2. /\ blk' = blk1
        /\ IF size > blk1[bb].off
           THEN heap' = heap1 /\ UNCHANGED head
           ELSE /\ heap' = ListAddTail(heap1, h, bb)
                /\ head' = [head EXCEPT ![h] = [st |-> "live", blk |-> bb, off |-> size,
                                                op |-> "nil", by |-> "balloc", len |-> size]]
    BY <2>1 DEF BallocNew
  <2>. HIDE DEF bb, blk1, heap1
  <2>3. /\ head' = [head EXCEPT ![h] = [st |-> "live", blk |-> bb, off |-> size,
                                       op |-> "nil", by |-> "balloc", len |-> size]]
        /\ ~(size > blk'[bb].off)
    BY <1>1, <2>2
  <2>. QED
    BY <2>3
<1>3. head'[h].blk \in Block
  BY DEF RingIInv, RingInv, OwnersOK
<1>4. ~(size > blk'[head'[h].blk].off) /\ blk'[head'[h].blk].off \in Nat
  BY <1>0, <1>2, <1>3 DEF BlkRec
<1>. QED
  BY <1>3, <1>4
----------------------------------------------------------------------------
(***************************************************************************)
(* The invariant of the inodes.                                            *)
(***************************************************************************)

Slot == SlotSize["INODE"]

InodeRec == [st : {"none", "new", "filled", "stored", "released"}, count : Int,
             linked : BOOLEAN, file : File \cup {NoFile}, size : Nat,
             nid : 0..(Word - 1), bh : BufHead \cup {NIL}, bhData : BufHead \cup {NIL},
             addr : Address, n : Nat]

\* An inode gets its data only once, after it was filled.
Fresh(i) == inode[i].st \in {"none", "new", "filled"} => inode[i].n = 0

\* Its data lies in a mapped block that has room for it.
HasData(i) ==
  inode[i].n > 0 =>
    /\ inode[i].bhData \in BufHead /\ head[inode[i].bhData].st = "live"
    /\ Mapped(head[inode[i].bhData].blk)
    /\ inode[i].addr = blk[head[inode[i].bhData].blk].addr
    /\ inode[i].n * BlkSz <= blk[head[inode[i].bhData].blk].off

\* Its head among the metadata covers one slot, at a multiple of the slot's size.
HasSlot(i) ==
  inode[i].bh # NIL =>
    /\ head[inode[i].bh].st = "live" /\ head[inode[i].bh].by = "attach"
    /\ head[inode[i].bh].len = Slot
    /\ \E k \in Nat : head[inode[i].bh].off = Slot * k

\* Its number is the place of that head, counted in slots from the metadata's start
\* and modulo 2^64.
Numbered(i) ==
  inode[i].nid # 0 =>
    /\ inode[i].bh # NIL /\ Mapped(head[inode[i].bh].blk)
    /\ inode[i].nid * Slot = (BhTell(inode[i].bh) - Pos(opt.meta)) + Word

Sound1(i) == Fresh(i) /\ HasData(i) /\ HasSlot(i) /\ Numbered(i)

\* No head serves two inodes.
OwnSlots == \A i, j \in Ino : i # j /\ inode[i].bh # NIL => inode[i].bh # inode[j].bh

\* MapBh has been called for block b: it ended and b is mapped, or it is on its way.
MapDone(b) ==
  /\ b \in Block
  /\ \/ call = Idle /\ Mapped(b)
     \/ call.fn = "map" /\ call.want = b /\ ~Mapped(b)

\* What the operation in progress knows.
Working ==
  /\ todo.at \in {"op", "map", "take"} =>
       /\ inode[todo.i].st = "filled" /\ head[todo.h].st = "live" /\ todo.n > 0
       /\ todo.n * BlkSz <= blk[head[todo.h].blk].off
  /\ todo.at \in {"map", "take"} => inode[todo.i].bhData = todo.h
  /\ todo.at = "take" => MapDone(head[todo.h].blk)
  /\ todo.at = "number" => inode[todo.i].bh # NIL /\ MapDone(head[inode[todo.i].bh].blk)

PlacesInv ==
  /\ ManagerInv /\ InodeTypeOK /\ opt \in Setting
  /\ \A i \in Ino : Sound1(i)
  /\ OwnSlots /\ Working

\* What is not said of a head or block that changes says the same afterwards.
LEMMA InodeFacts ==
  ASSUME InodeTypeOK, NEW i \in Ino
  PROVE  /\ inode \in [Ino -> InodeRec] /\ inode[i] \in InodeRec
         /\ inode[i].n \in Nat /\ inode[i].nid \in Nat
         /\ inode[i].bh \in BufHead \cup {NIL} /\ NIL \notin BufHead
         /\ Slot \in Nat \ {0} /\ Word \in Nat \ {0} /\ BlkSz \in Nat \ {0}
<1>1. inode \in [Ino -> InodeRec]
  BY DEF InodeTypeOK, InodeRec
<1>2. Slot \in Nat \ {0} /\ Word \in Nat \ {0} /\ BlkSz \in Nat \ {0} /\ NIL \notin BufHead
  BY SizeAssumption, InodeAssumption, BlkSzAssumption, PoolAssumption DEF Slot
<1>3. inode[i] \in InodeRec
  BY <1>1
<1>4. inode[i].n \in Nat /\ inode[i].nid \in 0..(Word - 1) /\ inode[i].bh \in BufHead \cup {NIL}
  BY <1>3 DEF InodeRec
<1>. QED
  BY <1>1, <1>2, <1>3, <1>4

\* The block of a held head.
LEMMA HeldBlock ==
  ASSUME RingIInv, NEW h \in BufHead, head[h].st = "live"
  PROVE  /\ head[h].blk \in Block /\ blk[head[h].blk].kind # "none"
         /\ head[h].off \in Nat /\ head[h].len \in Nat
         /\ blk[head[h].blk].off \in Nat
         /\ Mapped(head[h].blk) => blk[head[h].blk].addr \in Nat
<1>1. head[h].blk \in Block /\ blk[head[h].blk].kind # "none" /\ TypeOK
  BY DEF RingIInv, RingInv, OwnersOK
<1>2. head[h].off \in Nat /\ head[h].len \in Nat
  BY <1>1 DEF TypeOK
<1>3. blk[head[h].blk] \in BlkRec
  BY <1>1, BlockNats
<1>4. Mapped(head[h].blk) => blk[head[h].blk].addr \in Nat
  BY <1>1, BlockNats
<1>. QED
  BY <1>1, <1>2, <1>3, <1>4 DEF BlkRec

LEMMA DataLasts ==
  ASSUME RingIInv, RingIInv', HeadsLast, BlocksLast, InodeTypeOK, NEW i \in Ino, HasData(i),
         inode'[i].n = inode[i].n, inode'[i].bhData = inode[i].bhData,
         inode'[i].addr = inode[i].addr
  PROVE  HasData(i)'
<1>. DEFINE h == inode[i].bhData
<1>1. SUFFICES ASSUME inode[i].n > 0 PROVE HasData(i)'
  BY DEF HasData
<1>2. PICK b \in Block :
        /\ b = head[h].blk /\ h \in BufHead /\ head[h].st = "live"
        /\ Mapped(b) /\ inode[i].addr = blk[b].addr
        /\ inode[i].n * BlkSz <= blk[b].off
  BY <1>1, HeldBlock DEF HasData
<1>3. b \in Block /\ blk[b].kind # "none" /\ blk[b].off \in Nat
  BY <1>2, HeldBlock
<1>4. head'[h].st = "live" /\ head'[h].blk = b
  BY <1>2 DEF HeadsLast
<1>5. Mapped(b)' /\ blk'[b].addr = blk[b].addr /\ blk'[b].off >= blk[b].off
  BY <1>2, <1>3 DEF BlocksLast
<1>6. blk'[b].off \in Nat
  <2>1. blk' \in [Block -> BlkRec]
    BY DEF RingIInv, TypeOK, BlkRec
  <2>. QED
    BY <1>3, <2>1 DEF BlkRec
<1>7. inode[i].n * BlkSz \in Nat
  BY InodeFacts
<1>. DEFINE x == inode[i].n * BlkSz
<1>8. x <= blk'[b].off
  <2>1. x \in Nat /\ x <= blk[b].off
    BY <1>2, <1>7
  <2>. HIDE DEF x
  <2>. QED
    BY <1>3, <1>5, <1>6, <2>1
<1>9. Mapped(head[h].blk)'
  BY <1>4, <1>5 DEF Mapped
<1>. QED
  BY <1>2, <1>4, <1>5, <1>8, <1>9 DEF HasData

LEMMA SlotLasts ==
  ASSUME HeadsLast, InodeTypeOK, NEW i \in Ino, HasSlot(i), inode'[i].bh = inode[i].bh
  PROVE  HasSlot(i)'
<1>1. SUFFICES ASSUME inode[i].bh # NIL PROVE HasSlot(i)'
  BY DEF HasSlot
<1>2. inode[i].bh \in BufHead
  BY <1>1, InodeFacts
<1>. QED
  BY <1>1, <1>2 DEF HasSlot, HeadsLast

LEMMA NumberLasts ==
  ASSUME RingIInv, HeadsLast, BlocksLast, InodeTypeOK, NEW i \in Ino, HasSlot(i), Numbered(i),
         inode'[i].bh = inode[i].bh, inode'[i].nid = inode[i].nid, opt' = opt
  PROVE  Numbered(i)'
<1>. DEFINE h == inode[i].bh
<1>1. SUFFICES ASSUME inode[i].nid # 0 PROVE Numbered(i)'
  BY DEF Numbered
<1>2. /\ h # NIL /\ h \in BufHead /\ head[h].st = "live" /\ Mapped(head[h].blk)
      /\ inode[i].nid * Slot = (BhTell(h) - Pos(opt.meta)) + Word
  BY <1>1, InodeFacts DEF Numbered, HasSlot
<1>3. PICK b \in Block : b = head[h].blk /\ blk[b].kind # "none" /\ Mapped(b)
  BY <1>2, HeldBlock
<1>4. head'[h].blk = b /\ head'[h].off = head[h].off
  BY <1>2, <1>3 DEF HeadsLast
<1>5. Mapped(b)' /\ blk'[b].addr = blk[b].addr
  BY <1>2, <1>3 DEF BlocksLast
<1>6. Mapped(head[h].blk)'
  BY <1>4, <1>5 DEF Mapped
<1>7. BhTell(h)' = BhTell(h)
  BY <1>2, <1>3, <1>4, <1>5, <1>6 DEF BhTell
<1>. QED
  BY <1>2, <1>6, <1>7 DEF Numbered

\* An inode whose data, head and number a step leaves alone is as sound as it was.
LEMMA SoundLasts ==
  ASSUME RingIInv, RingIInv', HeadsLast, BlocksLast, InodeTypeOK, opt' = opt,
         NEW i \in Ino, Sound1(i),
         inode'[i].n = inode[i].n, inode'[i].bhData = inode[i].bhData,
         inode'[i].addr = inode[i].addr,
         inode'[i].bh = inode[i].bh, inode'[i].nid = inode[i].nid,
         inode'[i].st \in {"none", "new", "filled"} =>
           inode[i].st \in {"none", "new", "filled"}
  PROVE  Sound1(i)'
<1>1. Fresh(i)'
  BY DEF Sound1, Fresh
<1>. QED
  BY <1>1, DataLasts, SlotLasts, NumberLasts DEF Sound1

\* A turn of a loop never takes back what MapBh promised.
LEMMA MapGoesOn ==
  ASSUME RingIInv, RingIInv', Kept, BlocksLast, NEW b \in Block, blk[b].kind # "none", MapDone(b),
         MapStep \/ Flush, status' = "run"
  PROVE  MapDone(b)'
<1>1. ~Flush
  <2>1. Flush => call.fn = "flush"
    BY DEF Flush, FlushBlock, FlushHead, FlushEnd, Flushing
  <2>2. call.fn # "flush"
    BY DEF MapDone, Idle
  <2>. QED
    BY <2>1, <2>2
<1>2. call.fn = "map" /\ call.want = b /\ ~Mapped(b)
  BY <1>1 DEF MapStep, MapDone, Idle
<1>3. ~Die("panic") /\ ~Die("bug")
  BY DEF Die
<1>4. call.t # JUNK
  BY <1>1, <1>3 DEF MapStep
<1>5. NextBlk(call.t) # BlkH
  BY <1>2, <1>4, WantedIsAhead
<1>. DEFINE t == NextBlk(call.t)
<1>6. MapBhInternal(t) /\ call' = (IF t = call.want THEN Idle ELSE [call EXCEPT !.t = t])
      /\ ~Mapped(t)
  BY <1>1, <1>3, <1>4, <1>5 DEF MapStep
<1>. HIDE DEF t
<1>7. blk \in [Block -> BlkRec] /\ tail \in Nat /\ NULL_ADDR \notin Nat
  BY SizeAssumption DEF RingIInv, TypeOK, BlkRec
<1>8. CASE t = b
  <2>1. blk'[b].addr = tail
    BY <1>6, <1>7, <1>8 DEF MapBhInternal, BlkRec
  <2>2. Mapped(b)' /\ call' = Idle
    BY <1>2, <1>6, <1>7, <1>8, <2>1 DEF Mapped
  <2>. QED
    BY <2>2 DEF MapDone
<1>9. CASE t # b
  <2>1. blk'[b] = blk[b]
    BY <1>6, <1>7, <1>9 DEF MapBhInternal
  <2>2. ~Mapped(b)'
    BY <1>2, <2>1 DEF Mapped
  <2>3. call \in [fn : {"map"}, t : Block \cup {BlkH, JUNK}, want : Block \cup {NIL}]
    <3>1. call \in Calls
      BY DEF RingIInv, TypeOK
    <3>. QED
      BY <1>2, <3>1 DEF Calls, Idle
  <2>3a. call.want = b /\ call' = [call EXCEPT !.t = t]
    BY <1>2, <1>6, <1>9
  <2>4. call'.fn = "map" /\ call'.want = b
    BY <2>3, <2>3a
  <2>. QED
    BY <2>2, <2>4 DEF MapDone
<1>. QED
  BY <1>8, <1>9
----------------------------------------------------------------------------
(***************************************************************************)
(* Every step of the inodes is one of the manager's.                       *)
(***************************************************************************)

\* The locals of an operation in progress.
LEMMA TodoFacts ==
  ASSUME InodeTypeOK
  PROVE  /\ todo.at \in {"op", "map", "take"} =>
              /\ todo.i \in Ino /\ todo.h \in BufHead /\ todo.n \in NBlocks /\ todo.n \in Nat
              /\ todo \in [at : {"op", "map", "take"}, i : Ino, h : BufHead, n : NBlocks]
         /\ todo.at = "number" => todo.i \in Ino
<1>1. \/ todo = Nothing
      \/ todo \in [at : {"op", "map", "take"}, i : Ino, h : BufHead, n : NBlocks]
      \/ todo \in [at : {"number"}, i : Ino]
  BY DEF InodeTypeOK, Todo
<1>2. CASE todo = Nothing
  BY <1>2 DEF Nothing
<1>3. CASE todo \in [at : {"op", "map", "take"}, i : Ino, h : BufHead, n : NBlocks]
  BY <1>3, InodeAssumption
<1>4. CASE todo \in [at : {"number"}, i : Ino]
  BY <1>4
<1>. QED
  BY <1>1, <1>2, <1>3, <1>4

LEMMA InodeIsManagerStep ==
  ASSUME RingIInv, InodeTypeOK, InodeNext
  PROVE  ManagerStep
<1>1. ASSUME Idling, Quiet,
             UNCHANGED <<blks, blk, head, heap, tail, metaCnt, last, call, status>>
      PROVE  ManagerStep
  BY <1>1 DEF ManagerStep, Refuse
<1>2. ASSUME Quiet, UNCHANGED <<blks, blk, head, heap, tail, metaCnt, last, call, status>>
      PROVE  ManagerStep
  BY <1>2 DEF ManagerStep, Refuse
<1>3. ASSUME Die("panic") PROVE ManagerStep
  BY <1>3 DEF ManagerStep
<1>4. ASSUME NEW h \in BufHead, MapBh(head[h].blk) PROVE ManagerStep
  <2>1. head[h].blk \in Block \cup {NIL}
    BY DEF RingIInv, TypeOK
  <2>. QED
    BY <1>4, <2>1 DEF ManagerStep
<1>5. ASSUME NEW b \in Block, NEW h \in BufHead, NEW t \in BufType, NEW size \in Nat,
             BallocNew(b, h, t, size, 0, 0)
      PROVE  ManagerStep
  BY <1>5 DEF ManagerStep
<1>6. ASSUME NEW bh \in BufHead, NEW new \in BufHead, NEW t \in BufType, NEW size \in Nat,
             Battach(bh, new, t, size)
      PROVE  ManagerStep
  BY <1>6 DEF ManagerStep
<1>7. CASE Caller
  <2>1. ASSUME NEW i, NEW made, NewInode(i, made) PROVE ManagerStep
    BY <1>2, <2>1 DEF NewInode
  <2>2. ASSUME NEW i, NEW f, FillInode(i, f) PROVE ManagerStep
    BY <1>2, <1>3, <2>2 DEF FillInode
  <2>3. ASSUME NEW i, ErofsIput(i) PROVE ManagerStep
    BY <1>2, <1>3, <2>3 DEF ErofsIput
  <2>4. ASSUME NEW i, AllocNothing(i) PROVE ManagerStep
    BY <1>2, <2>4 DEF AllocNothing
  <2>5. ASSUME NEW i, NEW n \in NBlocks, NEW b \in Block, NEW h \in BufHead,
               AllocBalloc(i, n, b, h)
        PROVE  ManagerStep
    <3>1. n * BlkSz \in Nat /\ "DATA" \in BufType
      BY InodeAssumption, BlkSzAssumption DEF BufType
    <3>2. BallocNew(b, h, "DATA", n * BlkSz, 0, 0)
      BY <2>5 DEF AllocBalloc
    <3>. QED
      BY <1>5, <3>1, <3>2
  <2>6. ASSUME NEW i, NEW bh \in BufHead, NEW new \in BufHead, PrepareInodeBuffer(i, bh, new)
        PROVE  ManagerStep
    <3>1. SlotSize["INODE"] \in Nat /\ "INODE" \in BufType
      BY SizeAssumption DEF BufType
    <3>2. Battach(bh, new, "INODE", SlotSize["INODE"])
      BY <2>6 DEF PrepareInodeBuffer
    <3>. QED
      BY <1>6, <3>1, <3>2
  <2>7. ASSUME NEW i \in Ino, LookupMap(i) PROVE ManagerStep
    <3>1. inode[i].bh \in BufHead
      BY <2>7, InodeFacts DEF LookupMap
    <3>. QED
      BY <1>4, <2>7, <3>1 DEF LookupMap
  <2>8. ASSUME ErofsNewInode PROVE ManagerStep
    BY <1>3, <2>8 DEF ErofsNewInode
  <2>. QED
    BY <1>7, <2>1, <2>2, <2>3, <2>4, <2>5, <2>6, <2>7, <2>8 DEF Caller
<1>8. CASE GoOn
  <2>1. CASE AllocBusy
    <3>1. todo.h \in BufHead /\ SetOp(todo.h, "busy")
      BY <2>1, TodoFacts DEF AllocBusy
    <3>. QED
      BY <3>1 DEF ManagerStep
  <2>2. CASE AllocMap
    <3>1. todo.h \in BufHead /\ MapBh(head[todo.h].blk)
      BY <2>2, TodoFacts DEF AllocMap
    <3>. QED
      BY <1>4, <3>1
  <2>3. CASE AllocTake
    BY <1>2, <2>3 DEF AllocTake
  <2>4. CASE LookupNumber
    BY <1>2, <1>3, <2>4 DEF LookupNumber
  <2>. QED
    BY <1>8, <2>1, <2>2, <2>3, <2>4 DEF GoOn
<1>9. CASE Turn
  BY <1>9 DEF Turn, ManagerStep
<1>10. CASE UserStep
  <2>1. User
    BY <1>10 DEF UserStep
  <2>2. ASSUME NEW b \in Block, NEW h \in BufHead, NEW t \in {"DATA", "META"},
               BallocNew(b, h, t, 0, 0, 0)
        PROVE  ManagerStep
    <3>1. 0 \in Nat /\ t \in BufType
      BY DEF BufType
    <3>. QED
      BY <1>5, <2>2, <3>1
  <2>3. ASSUME NEW bh \in BufHead, NEW new \in BufHead, NEW t \in {"DATA", "META"},
               NEW size \in UserSize[t], Battach(bh, new, t, size)
        PROVE  ManagerStep
    <3>1. size \in Nat /\ t \in BufType
      BY InodeAssumption DEF BufType
    <3>. QED
      BY <1>6, <2>3, <3>1
  <2>4. ASSUME ErofsBflush(NIL) PROVE ManagerStep
    BY <2>4 DEF ManagerStep
  <2>. QED
    BY <2>1, <2>2, <2>3, <2>4 DEF User
<1>. QED
  BY <1>7, <1>8, <1>9, <1>10 DEF InodeNext

\* The process dies in the manager or at the inodes' own dereferences and assertions,
\* and takes the inodes along.
LEMMA InodeDies ==
  ASSUME RingIInv, RingIInv', InodeNext, status' # "run"
  PROVE  InodesDie /\ \E how \in {"panic", "hang"} : Die(how)
<1>0. ~Die("bug")
  BY DEF Die, RingIInv, NoMapBug
<1>1. ASSUME Ready, UNCHANGED <<blks, blk, head, heap, tail, metaCnt, last, call, status>> PROVE FALSE
  BY <1>1 DEF Ready
<1>2. ASSUME Ready, status' = status PROVE FALSE
  BY <1>2 DEF Ready
<1>3. ASSUME NEW b, NEW h, NEW t, NEW size, BallocNew(b, h, t, size, 0, 0)
      PROVE  Die("panic")
  BY <1>2, <1>3 DEF BallocNew
<1>4. ASSUME NEW bh, NEW new, NEW t, NEW size, Battach(bh, new, t, size) PROVE FALSE
  BY <1>2, <1>4 DEF Battach, Refuse, Attach
<1>5. ASSUME NEW want, MapBh(want) \/ ErofsBflush(want) PROVE FALSE
  BY <1>2, <1>5 DEF MapBh, ErofsBflush
<1>6. ASSUME NEW h, NEW op, SetOp(h, op) PROVE FALSE
  BY <1>2, <1>6 DEF SetOp
<1>7. ASSUME MapStep \/ Flush PROVE Die("panic")
  <2>1. CASE MapStep
    BY <1>0, <2>1 DEF MapStep
  <2>2. CASE FlushBlock \/ FlushEnd
    BY <2>2 DEF FlushBlock, FlushEnd, Flushing
  <2>3. ASSUME NEW bh, FlushHead(bh) PROVE Die("panic")
    BY <2>3 DEF FlushHead, Flushing
  <2>. QED
    BY <1>7, <2>1, <2>2, <2>3 DEF Flush
<1>8. CASE Caller
  <2>1. ASSUME NEW i, NEW made, NewInode(i, made) PROVE FALSE
    BY <1>1, <2>1 DEF NewInode, Idling
  <2>2. ASSUME NEW i, NEW f, FillInode(i, f) PROVE Die("panic") /\ InodesDie
    BY <1>1, <2>2 DEF FillInode, Idling
  <2>3. ASSUME NEW i, ErofsIput(i) PROVE Die("panic") /\ InodesDie
    BY <1>1, <2>3 DEF ErofsIput, Idling
  <2>4. ASSUME NEW i, AllocNothing(i) PROVE FALSE
    BY <1>1, <2>4 DEF AllocNothing, Idling
  <2>5. ASSUME NEW i, NEW n, NEW b, NEW h, AllocBalloc(i, n, b, h)
        PROVE  Die("panic") /\ InodesDie
    BY <1>3, <2>5 DEF AllocBalloc
  <2>6. ASSUME NEW i, NEW bh, NEW new, PrepareInodeBuffer(i, bh, new) PROVE FALSE
    BY <1>4, <2>6 DEF PrepareInodeBuffer
  <2>7. ASSUME NEW i, LookupMap(i) PROVE FALSE
    BY <1>5, <2>7 DEF LookupMap
  <2>8. ASSUME ErofsNewInode PROVE Die("panic") /\ InodesDie
    BY <2>8 DEF ErofsNewInode
  <2>. QED
    BY <1>8, <2>1, <2>2, <2>3, <2>4, <2>5, <2>6, <2>7, <2>8 DEF Caller
<1>9. CASE GoOn
  <2>1. ~AllocBusy
    BY <1>6 DEF AllocBusy
  <2>2. ~AllocMap
    BY <1>5 DEF AllocMap
  <2>3. ~AllocTake
    BY <1>1 DEF AllocTake
  <2>4. LookupNumber => Die("panic") /\ InodesDie
    BY <1>1 DEF LookupNumber
  <2>. QED
    BY <1>9, <2>1, <2>2, <2>3, <2>4 DEF GoOn
<1>10. CASE Turn
  BY <1>7, <1>10 DEF Turn
<1>11. CASE UserStep
  <2>1. User => Die("panic")
    BY <1>3, <1>4, <1>5 DEF User
  <2>. QED
    BY <1>11, <2>1 DEF UserStep
<1>. QED
  BY <1>8, <1>9, <1>10, <1>11 DEF InodeNext

LEMMA NoInodesPlaced ==
  /\ NoInode \in InodeRec /\ [i \in Ino |-> NoInode] \in [Ino -> InodeRec]
  /\ [x \in Ino \cup Anchor |-> Unlinked] \in Heaps(Ino \cup Anchor)
<1>1. 0 \in 0..(Word - 1)
  BY InodeAssumption
<1>2. NoInode \in InodeRec
  BY <1>1 DEF NoInode, InodeRec, Address
<1>3. Unlinked \in [prev : Ino \cup Anchor \cup {NIL}, next : Ino \cup Anchor \cup {NIL}]
  BY DEF Unlinked
<1>. QED
  BY <1>2, <1>3 DEF Heaps

\* Nothing of the inodes is left either.
LEMMA PlacesDie ==
  ASSUME PlacesInv, NEW how \in {"panic", "hang"}, Die(how), InodesDie
  PROVE  PlacesInv'
<1>1. ManagerInv'
  BY ManagerDies
<1>2. /\ inode' = [i \in Ino |-> NoInode] /\ todo' = Nothing /\ opt' = opt
      /\ ihash' = [x \in Ino \cup Anchor |-> Unlinked]
  BY DEF InodesDie
<1>3. InodeTypeOK'
  BY <1>2, NoInodesPlaced DEF InodeTypeOK, InodeRec, Todo
<1>4. ASSUME NEW i \in Ino PROVE Sound1(i)'
  <2>1. inode'[i].n = 0 /\ inode'[i].nid = 0 /\ inode'[i].bh = NIL
    BY <1>2 DEF NoInode
  <2>. QED
    BY <2>1 DEF Sound1, Fresh, HasData, HasSlot, Numbered
<1>5. OwnSlots'
  BY <1>2 DEF OwnSlots, NoInode
<1>6. Working'
  BY <1>2 DEF Working, Nothing
<1>. QED
  BY <1>1, <1>2, <1>3, <1>4, <1>5, <1>6 DEF PlacesInv
----------------------------------------------------------------------------
(***************************************************************************)
(* The steps of a process that lives on.                                   *)
(***************************************************************************)

Alive ==
  /\ PlacesInv /\ ManagerInv' /\ HeadsLast /\ BlocksLast
  /\ status' = "run" /\ opt' = opt

\* One inode changes at most, and it is shown to be sound.
LEMMA OneInode ==
  ASSUME Alive, NEW i \in Ino, inode' \in [Ino -> InodeRec],
         \A j \in Ino \ {i} : inode'[j] = inode[j],
         Sound1(i)',
         inode'[i].bh \in {NIL, inode[i].bh} \/ \A j \in Ino \ {i} : inode'[i].bh # inode[j].bh,
         ihash' \in Heaps(Ino \cup Anchor), todo' \in Todo, Working'
  PROVE  PlacesInv'
<1>0. /\ RingIInv /\ RingIInv' /\ InodeTypeOK /\ OwnSlots /\ \A j \in Ino : Sound1(j)
  BY DEF Alive, PlacesInv, ManagerInv
<1>1. InodeTypeOK'
  BY DEF Alive, InodeTypeOK, InodeRec
<1>2. ASSUME NEW j \in Ino PROVE Sound1(j)'
  <2>1. CASE j = i
    BY <2>1
  <2>2. CASE j # i
    <3>1. inode'[j] = inode[j]
      BY <2>2
    <3>. QED
      BY <1>0, <3>1, SoundLasts DEF Alive
  <2>. QED
    BY <2>1, <2>2
<1>3. OwnSlots'
  <2>1. SUFFICES ASSUME NEW x \in Ino, NEW y \in Ino, x # y, inode'[x].bh # NIL
                 PROVE  inode'[x].bh # inode'[y].bh
    BY DEF OwnSlots
  <2>2. CASE inode'[i].bh \in {NIL, inode[i].bh}
    <3>1. inode'[x].bh = inode[x].bh /\ inode'[y].bh \in {NIL, inode[y].bh}
      BY <2>1, <2>2
    <3>. QED
      BY <1>0, <2>1, <3>1 DEF OwnSlots
  <2>3. CASE \A j \in Ino \ {i} : inode'[i].bh # inode[j].bh
    <3>1. CASE x = i
      BY <2>1, <2>3, <3>1
    <3>2. CASE y = i
      BY <2>1, <2>3, <3>2
    <3>3. CASE x # i /\ y # i
      BY <1>0, <2>1, <3>3 DEF OwnSlots
    <3>. QED
      BY <3>1, <3>2, <3>3
  <2>. QED
    BY <2>2, <2>3
<1>. QED
  BY <1>1, <1>2, <1>3 DEF Alive, PlacesInv

\* No inode changes.
LEMMA SameInodes ==
  ASSUME Alive, inode' = inode, ihash' = ihash, todo' \in Todo, Working'
  PROVE  PlacesInv'
<1>0. /\ RingIInv /\ RingIInv' /\ InodeTypeOK /\ OwnSlots /\ \A j \in Ino : Sound1(j)
  BY DEF Alive, PlacesInv, ManagerInv
<1>1. InodeTypeOK'
  BY <1>0 DEF Alive, InodeTypeOK
<1>2. ASSUME NEW j \in Ino PROVE Sound1(j)'
  <2>1. inode'[j] = inode[j]
    OBVIOUS
  <2>. QED
    BY <1>0, <2>1, SoundLasts DEF Alive
<1>3. OwnSlots'
  BY <1>0 DEF OwnSlots
<1>. QED
  BY <1>1, <1>2, <1>3 DEF Alive, PlacesInv

LEMMA NothingWorks == ASSUME todo' = Nothing PROVE Working' /\ todo' \in Todo
  BY DEF Working, Nothing, Todo

LEMMA AliveFacts ==
  ASSUME Alive, NEW i \in Ino
  PROVE  /\ ManagerInv /\ RingIInv /\ RingIInv' /\ TypeOK /\ InodeTypeOK /\ Kept /\ opt \in Setting
         /\ inode \in [Ino -> InodeRec] /\ inode[i] \in InodeRec
         /\ ihash \in Heaps(Ino \cup Anchor) /\ todo \in Todo
         /\ Sound1(i) /\ Working
<1>1. InodeTypeOK /\ ManagerInv /\ ManagerInv' /\ Working /\ Sound1(i) /\ opt \in Setting
  BY DEF Alive, PlacesInv
<1>2. inode \in [Ino -> InodeRec] /\ inode[i] \in InodeRec
  BY <1>1, InodeFacts
<1>3. ihash \in Heaps(Ino \cup Anchor) /\ todo \in Todo
  BY <1>1 DEF InodeTypeOK
<1>4. RingIInv /\ RingIInv' /\ TypeOK /\ Kept
  BY <1>1 DEF ManagerInv, RingIInv
<1>. QED
  BY <1>1, <1>2, <1>3, <1>4

\* An inode whose data, head and number stay is sound still.
LEMMA StillSound ==
  ASSUME Alive, NEW i \in Ino,
         inode'[i].n = inode[i].n, inode'[i].bhData = inode[i].bhData,
         inode'[i].addr = inode[i].addr,
         inode'[i].bh = inode[i].bh, inode'[i].nid = inode[i].nid,
         inode'[i].st \in {"none", "new", "filled"} =>
           inode[i].st \in {"none", "new", "filled"}
  PROVE  Sound1(i)'
  BY AliveFacts, SoundLasts DEF Alive

LEMMA NewInodePlaces ==
  ASSUME Alive, NEW i \in Ino, NEW made \in Made, NewInode(i, made)
  PROVE  PlacesInv'
<1>0. /\ inode \in [Ino -> InodeRec] /\ ihash \in Heaps(Ino \cup Anchor)
      /\ made.count \in Int /\ made.linked \in BOOLEAN /\ todo' = Nothing
  <2>1. made \in [count : Nat, linked : BOOLEAN]
    BY InodeAssumption
  <2>2. todo' = Nothing
    BY DEF NewInode, Idling
  <2>3. made.count \in Int /\ made.linked \in BOOLEAN
    BY <2>1
  <2>4. inode \in [Ino -> InodeRec] /\ ihash \in Heaps(Ino \cup Anchor)
    BY AliveFacts
  <2>. QED
    BY <2>2, <2>3, <2>4
<1>. DEFINE r == [NoInode EXCEPT !.st = "new", !.count = made.count, !.linked = made.linked]
<1>1. /\ r \in InodeRec /\ r.n = 0 /\ r.bh = NIL /\ r.nid = 0
  <2>1. 0 \in 0..(Word - 1) /\ made.count \in Int
    BY <1>0, InodeAssumption
  <2>2. NoInode \in InodeRec /\ NoInode.n = 0 /\ NoInode.bh = NIL /\ NoInode.nid = 0
    BY NoInodesPlaced DEF NoInode
  <2>. QED
    BY <1>0, <2>1, <2>2 DEF InodeRec
<1>2. inode' = [inode EXCEPT ![i] = r]
  BY DEF NewInode
<1>. HIDE DEF r
<1>3. inode' \in [Ino -> InodeRec] /\ inode'[i] = r /\ \A j \in Ino \ {i} : inode'[j] = inode[j]
  BY <1>0, <1>1, <1>2
<1>4. Sound1(i)'
  BY <1>1, <1>3 DEF Sound1, Fresh, HasData, HasSlot, Numbered
<1>5. inode'[i].bh \in {NIL, inode[i].bh}
  BY <1>1, <1>3
<1>6. ihash' \in Heaps(Ino \cup Anchor)
  <2>1. InitListHead(ihash, i) \in Heaps(Ino \cup Anchor)
    BY <1>0, InitTyped
  <2>. QED
    BY <1>0, <2>1 DEF NewInode
<1>. QED
  BY <1>0, <1>3, <1>4, <1>5, <1>6, NothingWorks, OneInode

\* A step that keeps an inode's data, head and number leaves the whole as sound.
LEMMA OneStays ==
  ASSUME Alive, NEW i \in Ino, inode' \in [Ino -> InodeRec],
         \A j \in Ino \ {i} : inode'[j] = inode[j],
         inode'[i].n = inode[i].n, inode'[i].bhData = inode[i].bhData,
         inode'[i].addr = inode[i].addr,
         inode'[i].bh = inode[i].bh, inode'[i].nid = inode[i].nid,
         inode'[i].st \in {"none", "new", "filled"} =>
           inode[i].st \in {"none", "new", "filled"},
         ihash' \in Heaps(Ino \cup Anchor), todo' = Nothing
  PROVE  PlacesInv'
<1>1. Sound1(i)'
  BY StillSound
<1>2. Working' /\ todo' \in Todo
  BY NothingWorks
<1>. QED
  BY <1>1, <1>2, OneInode

LEMMA FillInodePlaces ==
  ASSUME Alive, NEW i \in Ino, NEW f \in File, FillInode(i, f)
  PROVE  PlacesInv'
<1>0. /\ inode \in [Ino -> InodeRec] /\ ihash \in Heaps(Ino \cup Anchor)
      /\ f.size \in Nat /\ f.anchor \in Anchor /\ todo' = Nothing
  <2>1. f \in [type : FileType, size : Nat, anchor : Anchor, wide : BOOLEAN]
    BY InodeAssumption
  <2>2. f.size \in Nat /\ f.anchor \in Anchor
    BY <2>1
  <2>3. todo' = Nothing
    BY DEF FillInode, Idling, InodesDie
  <2>4. inode \in [Ino -> InodeRec] /\ ihash \in Heaps(Ino \cup Anchor)
    BY AliveFacts
  <2>. QED
    BY <2>2, <2>3, <2>4
<1>. DEFINE refused == f.type = "other" \/ (Extended(i, f) /\ opt.force = "compact")
            sz == IF f.type = "other" THEN inode[i].size ELSE FilledSize(i, f)
            s  == IF refused THEN "new" ELSE "filled"
            g  == IF refused THEN inode[i].file ELSE f
<1>1. /\ inode[i].st = "new"
      /\ inode' = [inode EXCEPT ![i].size = sz, ![i].st = s, ![i].file = g]
      /\ ihash' \in {ihash, InsertIhash(i, f.anchor)}
  BY DEF FillInode, Die, Alive
<1>2. sz \in Nat /\ s \in {"new", "filled"} /\ g \in File \cup {NoFile}
  <2>1. inode[i].size \in Nat /\ inode[i].file \in File \cup {NoFile}
    BY <1>0 DEF InodeRec
  <2>2. FilledSize(i, f) \in Nat
    BY <1>0, <2>1 DEF FilledSize
  <2>. QED
    BY <2>1, <2>2
<1>. HIDE DEF sz, s, g, refused
<1>3. /\ inode' \in [Ino -> InodeRec] /\ \A j \in Ino \ {i} : inode'[j] = inode[j]
      /\ inode'[i].n = inode[i].n /\ inode'[i].bhData = inode[i].bhData
      /\ inode'[i].addr = inode[i].addr
      /\ inode'[i].bh = inode[i].bh /\ inode'[i].nid = inode[i].nid
  <2>. DEFINE r == [inode[i] EXCEPT !.size = sz, !.st = s, !.file = g]
  <2>1. inode[i] \in InodeRec
    BY <1>0
  <2>2. /\ r \in InodeRec /\ r.n = inode[i].n /\ r.bhData = inode[i].bhData
        /\ r.addr = inode[i].addr /\ r.bh = inode[i].bh /\ r.nid = inode[i].nid
        /\ r.st = s
    BY <1>2, <2>1 DEF InodeRec
  <2>3. inode' = [inode EXCEPT ![i] = r]
    BY <1>0, <1>1
  <2>. HIDE DEF r
  <2>. QED
    BY <1>0, <2>2, <2>3
<1>4. ihash' \in Heaps(Ino \cup Anchor)
  <2>. DEFINE N == Ino \cup Anchor
  <2>1. ihash \in Heaps(N) /\ i \in N /\ f.anchor \in N
    BY <1>0
  <2>2. ihash[f.anchor].next \in N \cup {NIL}
    BY <2>1 DEF Heaps
  <2>3. ListInsert(ihash, i, f.anchor, ihash[f.anchor].next) \in Heaps(N)
    BY <2>1, <2>2, InsertTyped
  <2>. QED
    BY <1>0, <1>1, <2>3 DEF InsertIhash, ListAdd
<1>. QED
  BY <1>0, <1>1, <1>3, <1>4, OneStays

LEMMA ErofsIputPlaces ==
  ASSUME Alive, NEW i \in Ino, ErofsIput(i)
  PROVE  PlacesInv'
<1>0. /\ inode \in [Ino -> InodeRec] /\ ihash \in Heaps(Ino \cup Anchor)
      /\ todo' = Nothing
  <2>1. todo' = Nothing
    BY DEF ErofsIput, Idling, InodesDie
  <2>2. inode \in [Ino -> InodeRec] /\ ihash \in Heaps(Ino \cup Anchor)
    BY AliveFacts
  <2>. QED
    BY <2>1, <2>2
<1>. DEFINE c == inode[i].count - 1
            s == IF PutReleases(i) THEN "released" ELSE inode[i].st
<1>1. /\ inode' = [inode EXCEPT ![i].count = c, ![i].st = s]
      /\ ihash' \in {ihash, ListDel(ihash, i)}
  BY DEF ErofsIput, Die, Alive
<1>2. c \in Int /\ s \in {"none", "new", "filled", "stored", "released"}
      /\ s \in {"released", inode[i].st}
  <2>1. inode[i].count \in Int
        /\ inode[i].st \in {"none", "new", "filled", "stored", "released"}
    BY <1>0 DEF InodeRec
  <2>. QED
    BY <2>1
<1>. HIDE DEF c, s
<1>3. /\ inode' \in [Ino -> InodeRec] /\ \A j \in Ino \ {i} : inode'[j] = inode[j]
      /\ inode'[i].n = inode[i].n /\ inode'[i].bhData = inode[i].bhData
      /\ inode'[i].addr = inode[i].addr
      /\ inode'[i].bh = inode[i].bh /\ inode'[i].nid = inode[i].nid
      /\ inode'[i].st = s
  <2>. DEFINE r == [inode[i] EXCEPT !.count = c, !.st = s]
  <2>1. inode[i] \in InodeRec
    BY <1>0
  <2>2. /\ r \in InodeRec /\ r.n = inode[i].n /\ r.bhData = inode[i].bhData
        /\ r.addr = inode[i].addr /\ r.bh = inode[i].bh /\ r.nid = inode[i].nid
        /\ r.st = s
    BY <1>2, <2>1 DEF InodeRec
  <2>3. inode' = [inode EXCEPT ![i] = r]
    BY <1>0, <1>1
  <2>. HIDE DEF r
  <2>. QED
    BY <1>0, <2>2, <2>3
<1>4. ihash' \in Heaps(Ino \cup Anchor)
  BY <1>0, <1>1, DelTyped
<1>. QED
  BY <1>0, <1>2, <1>3, <1>4, OneStays

LEMMA AllocNothingPlaces ==
  ASSUME Alive, NEW i \in Ino, AllocNothing(i)
  PROVE  PlacesInv'
<1>0. /\ inode \in [Ino -> InodeRec] /\ ihash \in Heaps(Ino \cup Anchor)
      /\ inode[i] \in InodeRec /\ Sound1(i)
  BY AliveFacts
<1>1. /\ inode[i].st = "filled" /\ todo' = Nothing /\ ihash' = ihash
      /\ inode' = [inode EXCEPT ![i].st = "stored", ![i].addr = NULL_ADDR]
  BY DEF AllocNothing, Idling
<1>2. inode[i].n = 0
  BY <1>0, <1>1 DEF Sound1, Fresh
<1>3. /\ inode' \in [Ino -> InodeRec] /\ \A j \in Ino \ {i} : inode'[j] = inode[j]
      /\ inode'[i].n = 0 /\ inode'[i].st = "stored"
      /\ inode'[i].bh = inode[i].bh /\ inode'[i].nid = inode[i].nid
  BY <1>0, <1>1, <1>2 DEF InodeRec, Address
<1>4. HasSlot(i)' /\ Numbered(i)'
  <2>1. RingIInv /\ HeadsLast /\ BlocksLast /\ InodeTypeOK /\ opt' = opt
    BY AliveFacts DEF Alive
  <2>2. HasSlot(i) /\ Numbered(i)
    BY <1>0 DEF Sound1
  <2>. QED
    BY <1>3, <2>1, <2>2, SlotLasts, NumberLasts
<1>5. Sound1(i)'
  BY <1>3, <1>4 DEF Sound1, Fresh, HasData
<1>. QED
  BY <1>0, <1>1, <1>3, <1>5, NothingWorks, OneInode

LEMMA AllocBallocPlaces ==
  ASSUME Alive, NEW i \in Ino, NEW n \in NBlocks, n > 0, NEW b \in Block, NEW h \in BufHead,
         AllocBalloc(i, n, b, h)
  PROVE  PlacesInv'
<1>0. RingIInv /\ RingIInv' /\ n \in Nat /\ n * BlkSz \in Nat /\ "DATA" \in BufType
  BY AliveFacts, InodeAssumption, BlkSzAssumption DEF BufType
<1>1. /\ inode[i].st = "filled" /\ BallocNew(b, h, "DATA", n * BlkSz, 0, 0)
      /\ todo' = IF head'[h].st = "live" THEN [at |-> "op", i |-> i, h |-> h, n |-> n]
                 ELSE Nothing
      /\ inode' = inode /\ ihash' = ihash
  BY DEF AllocBalloc, Alive
<1>2. CASE head'[h].st = "live"
  <2>1. todo' = [at |-> "op", i |-> i, h |-> h, n |-> n]
    BY <1>1, <1>2
  <2>2. todo'.at = "op" /\ todo'.i = i /\ todo'.h = h /\ todo'.n = n /\ todo' \in Todo
    BY <2>1 DEF Todo
  <2>3. n * BlkSz <= blk'[head'[h].blk].off
    BY <1>0, <1>1, <1>2, BallocFits
  <2>4. Working'
    BY <1>1, <1>2, <2>2, <2>3 DEF Working
  <2>. QED
    BY <1>1, <2>2, <2>4, SameInodes
<1>3. CASE head'[h].st # "live"
  BY <1>1, <1>3, NothingWorks, SameInodes
<1>. QED
  BY <1>2, <1>3

\* The locals of ErofsAllocateInodeBhData, and what they still know after the step.
LEMMA AllocLasts ==
  ASSUME Alive, todo.at \in {"op", "map", "take"}
  PROVE  /\ todo.i \in Ino /\ todo.h \in BufHead /\ todo.n \in Nat
         /\ todo \in [at : {"op", "map", "take"}, i : Ino, h : BufHead, n : NBlocks]
         /\ inode[todo.i].st = "filled" /\ inode[todo.i].n = 0
         /\ head[todo.h].st = "live" /\ head'[todo.h].st = "live" /\ todo.n > 0
         /\ head'[todo.h].blk = head[todo.h].blk
         /\ todo.n * BlkSz <= blk[head[todo.h].blk].off
         /\ todo.n * BlkSz <= blk'[head[todo.h].blk].off
<1>1. /\ todo.i \in Ino /\ todo.h \in BufHead /\ todo.n \in Nat
      /\ todo \in [at : {"op", "map", "take"}, i : Ino, h : BufHead, n : NBlocks]
  BY TodoFacts DEF Alive, PlacesInv
<1>2. /\ inode[todo.i].st = "filled" /\ head[todo.h].st = "live" /\ todo.n > 0
      /\ todo.n * BlkSz <= blk[head[todo.h].blk].off
  BY DEF Alive, PlacesInv, Working
<1>3. inode[todo.i].n = 0
  BY <1>1, <1>2 DEF Alive, PlacesInv, Sound1, Fresh
<1>4. head'[todo.h].st = "live" /\ head'[todo.h].blk = head[todo.h].blk
  BY <1>1, <1>2 DEF Alive, HeadsLast
<1>5. todo.n * BlkSz <= blk'[head[todo.h].blk].off
  <2>1. RingIInv /\ RingIInv'
    BY DEF Alive, PlacesInv, ManagerInv
  <2>2. PICK b \in Block : b = head[todo.h].blk /\ blk[b].kind # "none" /\ blk[b].off \in Nat
    BY <1>1, <1>2, <2>1, HeldBlock
  <2>3. blk'[b].off >= blk[b].off
    BY <2>2 DEF Alive, BlocksLast
  <2>4. blk'[b].off \in Nat
    <3>1. blk' \in [Block -> BlkRec]
      BY <2>1 DEF RingIInv, TypeOK, BlkRec
    <3>. QED
      BY <2>2, <3>1 DEF BlkRec
  <2>. DEFINE x == todo.n * BlkSz
  <2>5. x \in Nat /\ x <= blk[b].off
    BY <1>1, <1>2, <2>2, BlkSzAssumption
  <2>. HIDE DEF x
  <2>6. x <= blk'[b].off
    BY <2>2, <2>3, <2>4, <2>5
  <2>. QED
    BY <2>2, <2>6 DEF x
<1>. QED
  BY <1>1, <1>2, <1>3, <1>4, <1>5

LEMMA AllocBusyPlaces ==
  ASSUME Alive, AllocBusy
  PROVE  PlacesInv'
<1>1. /\ todo.at = "op" /\ todo' = [todo EXCEPT !.at = "map"] /\ ihash' = ihash
      /\ inode' = [inode EXCEPT ![todo.i].bhData = todo.h]
  BY DEF AllocBusy
<1>2. PICK i \in Ino, h \in BufHead, n \in Nat :
        /\ i = todo.i /\ h = todo.h /\ n = todo.n
        /\ todo \in [at : {"op", "map", "take"}, i : Ino, h : BufHead, n : NBlocks]
        /\ inode[i].st = "filled" /\ inode[i].n = 0 /\ head'[h].st = "live" /\ n > 0
        /\ head'[h].blk = head[h].blk /\ n * BlkSz <= blk'[head[h].blk].off
  BY <1>1, AllocLasts
<1>3. /\ inode \in [Ino -> InodeRec] /\ ihash \in Heaps(Ino \cup Anchor)
      /\ inode[i] \in InodeRec /\ Sound1(i)
  BY AliveFacts
<1>4. /\ inode' \in [Ino -> InodeRec] /\ \A j \in Ino \ {i} : inode'[j] = inode[j]
      /\ inode'[i].n = 0 /\ inode'[i].st = "filled" /\ inode'[i].bhData = h
      /\ inode'[i].bh = inode[i].bh /\ inode'[i].nid = inode[i].nid
  <2>. DEFINE r == [inode[i] EXCEPT !.bhData = h]
  <2>1. /\ r \in InodeRec /\ r.n = 0 /\ r.st = "filled" /\ r.bhData = h
        /\ r.bh = inode[i].bh /\ r.nid = inode[i].nid
    BY <1>2, <1>3 DEF InodeRec
  <2>2. inode' = [inode EXCEPT ![i] = r]
    BY <1>1, <1>2, <1>3
  <2>. HIDE DEF r
  <2>. QED
    BY <1>3, <2>1, <2>2
<1>5. HasSlot(i)' /\ Numbered(i)'
  <2>1. RingIInv /\ HeadsLast /\ BlocksLast /\ InodeTypeOK /\ opt' = opt
    BY AliveFacts DEF Alive
  <2>2. HasSlot(i) /\ Numbered(i)
    BY <1>3 DEF Sound1
  <2>. QED
    BY <1>4, <2>1, <2>2, SlotLasts, NumberLasts
<1>6. Sound1(i)'
  BY <1>4, <1>5 DEF Sound1, Fresh, HasData
<1>7. todo'.at = "map" /\ todo'.i = i /\ todo'.h = h /\ todo'.n = n /\ todo' \in Todo
  BY <1>1, <1>2 DEF Todo
<1>8. Working'
  BY <1>2, <1>4, <1>7 DEF Working
<1>. QED
  BY <1>1, <1>3, <1>4, <1>6, <1>7, <1>8, OneInode

\* MapBh promises to map a block that somebody holds a head of.
LEMMA MapPromises ==
  ASSUME RingIInv, NEW b \in Block, MapBh(b)
  PROVE  MapDone(b)'
<1>1. /\ b # NIL /\ blk' = blk
      /\ call' = IF Mapped(b) THEN Idle ELSE [fn |-> "map", t |-> last, want |-> b]
  BY PoolAssumption DEF MapBh
<1>2. Mapped(b)' <=> Mapped(b)
  BY <1>1 DEF Mapped
<1>3. CASE Mapped(b)
  BY <1>1, <1>2, <1>3 DEF MapDone, Idle
<1>4. CASE ~Mapped(b)
  BY <1>1, <1>2, <1>4 DEF MapDone, Idle
<1>. QED
  BY <1>3, <1>4

LEMMA AllocMapPlaces ==
  ASSUME Alive, AllocMap
  PROVE  PlacesInv'
<1>1. /\ todo.at = "map" /\ todo' = [todo EXCEPT !.at = "take"] /\ ihash' = ihash
      /\ inode' = inode /\ MapBh(head[todo.h].blk)
  BY DEF AllocMap
<1>2. PICK i \in Ino, h \in BufHead, n \in Nat :
        /\ i = todo.i /\ h = todo.h /\ n = todo.n
        /\ todo \in [at : {"op", "map", "take"}, i : Ino, h : BufHead, n : NBlocks]
        /\ inode[i].st = "filled" /\ head[h].st = "live" /\ head'[h].st = "live" /\ n > 0
        /\ head'[h].blk = head[h].blk /\ n * BlkSz <= blk'[head[h].blk].off
  BY <1>1, AllocLasts
<1>3. inode[i].bhData = h /\ RingIInv
  BY <1>1, <1>2 DEF Alive, PlacesInv, Working, ManagerInv
<1>4. PICK b \in Block : b = head[h].blk
  BY <1>2, <1>3, HeldBlock
<1>5. MapDone(b)'
  BY <1>1, <1>2, <1>3, <1>4, MapPromises
<1>6. todo'.at = "take" /\ todo'.i = i /\ todo'.h = h /\ todo'.n = n /\ todo' \in Todo
  BY <1>1, <1>2 DEF Todo
<1>7. head'[h].blk = b
  BY <1>2, <1>4
<1>8. Working'
  BY <1>1, <1>2, <1>3, <1>5, <1>6, <1>7 DEF Working, MapDone
<1>. QED
  BY <1>1, <1>6, <1>8, SameInodes

LEMMA AllocTakePlaces ==
  ASSUME Alive, AllocTake
  PROVE  PlacesInv'
<1>1. /\ todo.at = "take" /\ todo' = Nothing /\ ihash' = ihash /\ Ready
      /\ inode' = [inode EXCEPT ![todo.i].st = "stored", ![todo.i].n = todo.n,
                                ![todo.i].addr = blk[head[todo.h].blk].addr]
      /\ head' = head /\ blk' = blk
  BY DEF AllocTake
<1>2. PICK i \in Ino, h \in BufHead, n \in Nat :
        /\ i = todo.i /\ h = todo.h /\ n = todo.n
        /\ head[h].st = "live" /\ n > 0 /\ n * BlkSz <= blk[head[h].blk].off
  BY <1>1, AllocLasts
<1>3. /\ inode \in [Ino -> InodeRec] /\ ihash \in Heaps(Ino \cup Anchor)
      /\ inode[i] \in InodeRec /\ Sound1(i) /\ RingIInv
  BY AliveFacts
<1>4. inode[i].bhData = h /\ MapDone(head[h].blk)
  BY <1>1, <1>2 DEF Alive, PlacesInv, Working
<1>5. PICK b \in Block : b = head[h].blk /\ Mapped(b) /\ blk[b].addr \in Nat
  <2>1. Mapped(head[h].blk)
    BY <1>1, <1>4 DEF MapDone, Ready, Idle
  <2>. QED
    BY <1>2, <1>3, <2>1, HeldBlock
<1>6. /\ inode' \in [Ino -> InodeRec] /\ \A j \in Ino \ {i} : inode'[j] = inode[j]
      /\ inode'[i].n = n /\ inode'[i].st = "stored" /\ inode'[i].bhData = h
      /\ inode'[i].addr = blk[b].addr
      /\ inode'[i].bh = inode[i].bh /\ inode'[i].nid = inode[i].nid
  <2>. DEFINE r == [inode[i] EXCEPT !.st = "stored", !.n = n, !.addr = blk[b].addr]
  <2>1. /\ r \in InodeRec /\ r.n = n /\ r.st = "stored" /\ r.bhData = h /\ r.addr = blk[b].addr
        /\ r.bh = inode[i].bh /\ r.nid = inode[i].nid
    BY <1>2, <1>3, <1>4, <1>5 DEF InodeRec, Address
  <2>2. inode' = [inode EXCEPT ![i] = r]
    BY <1>1, <1>2, <1>3, <1>5
  <2>. HIDE DEF r
  <2>. QED
    BY <1>3, <2>1, <2>2
<1>7. HasSlot(i)' /\ Numbered(i)'
  <2>1. RingIInv /\ HeadsLast /\ BlocksLast /\ InodeTypeOK /\ opt' = opt
    BY AliveFacts DEF Alive
  <2>2. HasSlot(i) /\ Numbered(i)
    BY <1>3 DEF Sound1
  <2>. QED
    BY <1>6, <2>1, <2>2, SlotLasts, NumberLasts
<1>8. HasData(i)'
  <2>1. head'[h].blk = b /\ head'[h].st = "live" /\ blk'[b] = blk[b] /\ Mapped(b)'
    BY <1>1, <1>2, <1>5 DEF Mapped
  <2>. QED
    BY <1>2, <1>5, <1>6, <2>1 DEF HasData, Mapped
<1>9. Sound1(i)'
  BY <1>6, <1>7, <1>8 DEF Sound1, Fresh
<1>. QED
  BY <1>1, <1>3, <1>6, <1>9, NothingWorks, OneInode

\* Battach answers with a head of one slot at a multiple of the slot's size, or not at all.
LEMMA SlotAttached ==
  ASSUME RingIInv, NEW bh \in BufHead, NEW new \in BufHead, Battach(bh, new, "INODE", Slot),
         head'[new].st = "live"
  PROVE  /\ head'[new].by = "attach" /\ head'[new].len = Slot
         /\ \E k \in Nat : head'[new].off = Slot * k
<1>0. /\ head \in [BufHead -> HeadRec] /\ blk \in [Block -> BlkRec] /\ Slot \in Nat \ {0}
      /\ head[new].st = "free" /\ head[bh].st = "live"
  BY SizeAssumption DEF RingIInv, TypeOK, HeadRec, BlkRec, Slot, Battach, Usable
<1>1. PICK b \in Block : b = head[bh].blk /\ blk[b].off \in Nat
  BY <1>0, HeldBlock
<1>. DEFINE x == blk[b].off
            k == (x + (Slot - 1)) \div Slot
<1>2. AlignOf("INODE") = Slot
  BY DEF AlignOf, Slot
<1>3. ~Refuse
  BY <1>0 DEF Refuse
<1>4. Attach(b, new, Slot, Slot, "nil", "attach")
  BY <1>1, <1>2, <1>3 DEF Battach
<1>5. head' = [head EXCEPT ![new] = [st |-> "live", blk |-> b, off |-> RoundUp(x, Slot),
                                     op |-> "nil", by |-> "attach", len |-> Slot]]
  BY <1>4 DEF Attach
<1>6. head'[new].by = "attach" /\ head'[new].len = Slot /\ head'[new].off = RoundUp(x, Slot)
  BY <1>0, <1>5
<1>7. k \in Nat /\ RoundUp(x, Slot) = Slot * k
  <2>. DEFINE z == x + (Slot - 1)
  <2>1. z \in Nat /\ Slot \in Nat \ {0}
    BY <1>0, <1>1
  <2>2. z \div Slot \in Nat
    <3>. HIDE DEF z
    <3>. QED
      BY <2>1
  <2>3. k \in Nat
    BY <2>2
  <2>4. RoundUp(x, Slot) = k * Slot
    BY DEF RoundUp
  <2>. HIDE DEF k
  <2>. QED
    BY <2>1, <2>3, <2>4
<1>. HIDE DEF k
<1>. QED
  BY <1>6, <1>7

LEMMA PrepareInodeBufferPlaces ==
  ASSUME Alive, NEW i \in Ino, NEW bh \in BufHead, NEW new \in BufHead,
         PrepareInodeBuffer(i, bh, new)
  PROVE  PlacesInv'
<1>. DEFINE got == IF head'[new].st = "live" THEN new ELSE NIL
<1>1. /\ inode[i].bh = NIL /\ inode[i].st = "stored" /\ todo' = Nothing /\ ihash' = ihash
      /\ inode' = [inode EXCEPT ![i].bh = got]
      /\ Battach(bh, new, "INODE", Slot) /\ head[new].st = "free"
  BY DEF PrepareInodeBuffer, Idling, Slot, Battach
<1>2. /\ inode \in [Ino -> InodeRec] /\ ihash \in Heaps(Ino \cup Anchor)
      /\ inode[i] \in InodeRec /\ Sound1(i) /\ RingIInv /\ RingIInv' /\ InodeTypeOK
      /\ HeadsLast /\ BlocksLast /\ NIL \notin BufHead
  BY AliveFacts, InodeFacts DEF Alive
<1>3. inode[i].nid = 0
  BY <1>1, <1>2 DEF Sound1, Numbered
<1>4. /\ inode' \in [Ino -> InodeRec] /\ \A j \in Ino \ {i} : inode'[j] = inode[j]
      /\ inode'[i].n = inode[i].n /\ inode'[i].bhData = inode[i].bhData
      /\ inode'[i].addr = inode[i].addr /\ inode'[i].st = "stored"
      /\ inode'[i].bh = got /\ inode'[i].nid = 0
  <2>. DEFINE r == [inode[i] EXCEPT !.bh = got]
  <2>1. /\ r \in InodeRec /\ r.n = inode[i].n /\ r.bhData = inode[i].bhData
        /\ r.addr = inode[i].addr /\ r.bh = got /\ r.nid = 0 /\ r.st = "stored"
    BY <1>1, <1>2, <1>3 DEF InodeRec
  <2>2. inode' = [inode EXCEPT ![i] = r]
    BY <1>1, <1>2
  <2>. HIDE DEF r
  <2>. QED
    BY <1>2, <2>1, <2>2
<1>5. HasData(i)'
  BY <1>2, <1>4, DataLasts DEF Sound1
<1>6. HasSlot(i)'
  BY <1>1, <1>2, <1>4, SlotAttached DEF HasSlot
<1>7. Sound1(i)'
  BY <1>4, <1>5, <1>6 DEF Sound1, Fresh, Numbered
<1>8. inode'[i].bh \in {NIL, inode[i].bh} \/ \A j \in Ino \ {i} : inode'[i].bh # inode[j].bh
  <2>1. \A j \in Ino : inode[j].bh # new
    <3>1. SUFFICES ASSUME NEW j \in Ino, inode[j].bh = new PROVE FALSE
      OBVIOUS
    <3>2. HasSlot(j)
      BY DEF Alive, PlacesInv, Sound1
    <3>. QED
      BY <1>1, <1>2, <3>1, <3>2 DEF HasSlot
  <2>. QED
    BY <1>4, <2>1
<1>. QED
  BY <1>1, <1>2, <1>4, <1>7, <1>8, NothingWorks, OneInode

LEMMA LookupMapPlaces ==
  ASSUME Alive, NEW i \in Ino, LookupMap(i)
  PROVE  PlacesInv'
<1>1. /\ inode[i].bh # NIL /\ inode' = inode /\ ihash' = ihash
      /\ todo' = [at |-> "number", i |-> i] /\ MapBh(head[inode[i].bh].blk)
  BY DEF LookupMap
<1>2. /\ inode[i].bh \in BufHead /\ RingIInv /\ HeadsLast /\ HasSlot(i)
  BY <1>1, AliveFacts, InodeFacts DEF Alive, Sound1
<1>3. PICK b \in Block : b = head[inode[i].bh].blk /\ head[inode[i].bh].st = "live"
  BY <1>1, <1>2, HeldBlock DEF HasSlot
<1>4. MapDone(b)' /\ head'[inode[i].bh].blk = b
  BY <1>1, <1>2, <1>3, MapPromises DEF HeadsLast
<1>5. todo'.at = "number" /\ todo'.i = i /\ todo' \in Todo
  BY <1>1 DEF Todo
<1>6. Working'
  BY <1>1, <1>4, <1>5 DEF Working, MapDone
<1>. QED
  BY <1>1, <1>5, <1>6, SameInodes

\* ErofsLookupNid's arithmetic: below the metadata's start the subtraction wraps, once.
LEMMA NidAtBelow ==
  ASSUME opt \in Setting, NEW off \in Nat, NEW k \in Nat, off = Slot * k, off < Pos(opt.meta)
  PROVE  /\ NidAt(off) \in 0..(Word - 1)
         /\ NidAt(off) * Slot = (off - Pos(opt.meta)) + Word
<1>1. /\ Slot \in Nat \ {0} /\ Word \in Nat \ {0} /\ BlkSz \in Nat \ {0}
      /\ BlkSz % Slot = 0 /\ Word % Slot = 0
  BY SizeAssumption, InodeAssumption, BlkSzAssumption DEF Slot
<1>2. opt.meta \in Nat /\ Pos(opt.meta) <= Word
  BY InodeAssumption DEF Settings
<1>. DEFINE cb == BlkSz \div Slot
            cw == Word \div Slot
            P == Pos(opt.meta)
            m == opt.meta
<1>3. cb \in Nat /\ cw \in Nat /\ BlkSz = Slot * cb /\ Word = Slot * cw
  BY <1>1
<1>4. P = m * BlkSz
  BY DEF Pos
<1>. HIDE DEF cb, cw, P, m
<1>5. m \in Nat /\ P \in Nat /\ P <= Word /\ off < P
  <2>1. m \in Nat /\ P <= Word /\ off < P
    BY <1>2 DEF m, P
  <2>2. P \in Nat
    BY <1>1, <1>4, <2>1
  <2>. QED
    BY <2>1, <2>2
<1>. DEFINE x == (off - P) + Word
            q == (k - m * cb) + cw
<1>6. x \in 0..(Word - 1)
  BY <1>1, <1>5
<1>7. q \in Int /\ x = Slot * q
  <2>1. P = Slot * (m * cb)
    BY <1>1, <1>3, <1>4, <1>5
  <2>2. m * cb \in Nat
    BY <1>3, <1>5
  <2>. DEFINE u == m * cb
  <2>. HIDE DEF u
  <2>3. u \in Nat /\ P = Slot * u /\ q = (k - u) + cw
    BY <2>1, <2>2 DEF u
  <2>4. Slot * ((k - u) + cw) = (Slot * k - Slot * u) + Slot * cw
    BY <1>1, <1>3, <2>3
  <2>5. q \in Int
    BY <1>3, <2>3
  <2>. HIDE DEF q
  <2>. QED
    BY <1>1, <1>3, <2>3, <2>4, <2>5
<1>. HIDE DEF x, q
<1>8. (off - P) % Word = x
  <2>. DEFINE y == off - P
  <2>1. y \in Int /\ x = y + Word
    BY <1>5 DEF x
  <2>. HIDE DEF y
  <2>2. y = Word * (-1) + x
    BY <1>1, <1>6, <2>1
  <2>3. y % Word = x
    BY <1>1, <1>6, <2>1, <2>2, DivUnique
  <2>. QED
    BY <2>3 DEF y
<1>9. x \div Slot = q
  <2>1. 0 \in 0..(Slot - 1) /\ x \in Int /\ x = Slot * q + 0
    BY <1>1, <1>6, <1>7
  <2>. QED
    BY <1>1, <1>7, <2>1, DivUnique
<1>10. NidAt(off) = q
  BY <1>8, <1>9 DEF NidAt, P, Slot
<1>11. q \in 0..(Word - 1)
  <2>1. q >= 0
    <3>1. SUFFICES ASSUME q <= -1 PROVE FALSE
      BY <1>7
    <3>2. Slot * q <= -Slot
      BY <1>1, <1>7, <3>1
    <3>. QED
      BY <1>1, <1>6, <1>7, <3>2
  <2>2. q <= Slot * q
    BY <1>1, <1>7, <2>1
  <2>. QED
    BY <1>1, <1>6, <1>7, <2>1, <2>2
<1>. QED
  <2>1. q * Slot = x
    BY <1>1, <1>7
  <2>2. x = (off - Pos(opt.meta)) + Word
    BY DEF x, P
  <2>. QED
    BY <1>10, <1>11, <2>1, <2>2

\* A slot begins at a multiple of the slot's size in the image, too.
LEMMA SlotPlace ==
  ASSUME RingIInv, NEW h \in BufHead, head[h].st = "live", Mapped(head[h].blk),
         \E k \in Nat : head[h].off = Slot * k
  PROVE  BhTell(h) \in Nat /\ \E k \in Nat : BhTell(h) = Slot * k
<1>1. PICK a \in Nat, k \in Nat : a = blk[head[h].blk].addr /\ head[h].off = Slot * k
  BY HeldBlock
<1>2. BhTell(h) = a * BlkSz + Slot * k
  BY <1>1 DEF BhTell, Pos
<1>. DEFINE c == BlkSz \div Slot
            u == a * c
<1>3. c \in Nat /\ BlkSz = Slot * c /\ Slot \in Nat
  BY SizeAssumption, BlkSzAssumption DEF Slot
<1>. HIDE DEF c
<1>4. u \in Nat /\ a * BlkSz = Slot * u
  BY <1>1, <1>3
<1>. HIDE DEF u
<1>5. BhTell(h) = Slot * (u + k) /\ u + k \in Nat
  BY <1>1, <1>2, <1>3, <1>4
<1>6. Slot * (u + k) \in Nat
  BY <1>3, <1>5
<1>. QED
  BY <1>5, <1>6

LEMMA LookupNumberPlaces ==
  ASSUME Alive, LookupNumber
  PROVE  PlacesInv'
<1>0. /\ inode \in [Ino -> InodeRec] /\ ihash \in Heaps(Ino \cup Anchor) /\ RingIInv
      /\ RingIInv' /\ InodeTypeOK /\ HeadsLast /\ BlocksLast /\ opt \in Setting
      /\ Ready /\ todo.at = "number" /\ todo.i \in Ino
  <2>1. InodeTypeOK /\ ManagerInv /\ ManagerInv' /\ opt \in Setting
    BY DEF Alive, PlacesInv
  <2>2. inode \in [Ino -> InodeRec] /\ ihash \in Heaps(Ino \cup Anchor)
    BY <2>1 DEF InodeTypeOK, InodeRec
  <2>3. Ready /\ todo.at = "number"
    BY DEF LookupNumber
  <2>4. todo.i \in Ino
    BY <2>1, <2>3, TodoFacts
  <2>. QED
    BY <2>1, <2>2, <2>3, <2>4 DEF ManagerInv, Alive
<1>1. PICK i \in Ino : i = todo.i
  BY <1>0
<1>2. inode[i] \in InodeRec /\ Sound1(i)
  BY <1>0 DEF Alive, PlacesInv
<1>3. inode[i].bh # NIL /\ MapDone(head[inode[i].bh].blk)
  BY <1>0, <1>1 DEF Alive, PlacesInv, Working
<1>. DEFINE off == BhTell(inode[i].bh)
            nid == NidAt(off)
<1>4. off < Pos(opt.meta) /\ inode' = [inode EXCEPT ![i].nid = nid]
  <2>1. ~Die("panic")
    BY DEF Die, Alive
  <2>. QED
    BY <1>1, <2>1 DEF LookupNumber
<1>5. /\ todo' = Nothing /\ ihash' = ihash /\ head' = head /\ blk' = blk /\ opt' = opt
  <2>1. ~Die("panic")
    BY DEF Die, Alive
  <2>. QED
    BY <2>1 DEF LookupNumber
<1>6. inode[i].bh \in BufHead /\ head[inode[i].bh].st = "live" /\ Mapped(head[inode[i].bh].blk)
      /\ \E k \in Nat : head[inode[i].bh].off = Slot * k
  BY <1>0, <1>2, <1>3, InodeFacts DEF Sound1, HasSlot, MapDone, Ready, Idle
<1>7. off \in Nat /\ \E k \in Nat : off = Slot * k
  BY <1>0, <1>6, SlotPlace
<1>. HIDE DEF off
<1>8. nid \in 0..(Word - 1) /\ nid * Slot = (off - Pos(opt.meta)) + Word
  BY <1>0, <1>4, <1>7, NidAtBelow
<1>. HIDE DEF nid
<1>9. /\ inode' \in [Ino -> InodeRec] /\ \A j \in Ino \ {i} : inode'[j] = inode[j]
      /\ inode'[i].n = inode[i].n /\ inode'[i].bhData = inode[i].bhData
      /\ inode'[i].addr = inode[i].addr /\ inode'[i].st = inode[i].st
      /\ inode'[i].bh = inode[i].bh /\ inode'[i].nid = nid
  <2>. DEFINE r == [inode[i] EXCEPT !.nid = nid]
  <2>1. /\ r \in InodeRec /\ r.n = inode[i].n /\ r.bhData = inode[i].bhData
        /\ r.addr = inode[i].addr /\ r.bh = inode[i].bh /\ r.nid = nid /\ r.st = inode[i].st
    BY <1>2, <1>8 DEF InodeRec
  <2>2. inode' = [inode EXCEPT ![i] = r]
    BY <1>0, <1>4
  <2>. HIDE DEF r
  <2>. QED
    BY <1>0, <2>1, <2>2
<1>10. Fresh(i)'
  BY <1>2, <1>9 DEF Sound1, Fresh
<1>11. HasData(i)' /\ HasSlot(i)'
  BY <1>0, <1>2, <1>9, DataLasts, SlotLasts DEF Sound1
<1>12. Numbered(i)'
  <2>1. PICK h \in BufHead, b \in Block : h = inode[i].bh /\ b = head[h].blk
    BY <1>0, <1>6, HeldBlock
  <2>2. head'[h].blk = b /\ Mapped(b)' /\ head'[h].off = head[h].off /\ blk'[b] = blk[b]
    BY <1>5, <1>6, <2>1 DEF Mapped
  <2>3. BhTell(h)' = off
    BY <1>6, <2>1, <2>2 DEF BhTell, Mapped, off
  <2>4. Mapped(head[h].blk)'
    BY <2>2 DEF Mapped
  <2>5. Pos(opt.meta)' = Pos(opt.meta)
    BY <1>5
  <2>6. inode'[i].bh = h /\ inode'[i].nid = nid
    BY <1>9, <2>1
  <2>7. BhTell(inode[i].bh)' = off /\ Mapped(head[inode[i].bh].blk)'
    BY <2>3, <2>4, <2>6 DEF BhTell, Mapped
  <2>. QED
    BY <1>3, <1>8, <2>1, <2>5, <2>6, <2>7 DEF Numbered
<1>13. Sound1(i)'
  BY <1>10, <1>11, <1>12 DEF Sound1
<1>. QED
  BY <1>0, <1>5, <1>9, <1>13, NothingWorks, OneInode

\* The operation in progress knows as much after a turn of the manager's loops.
LEMMA TurnPlaces ==
  ASSUME Alive, Turn
  PROVE  PlacesInv'
<1>1. MapStep \/ Flush
  BY DEF Turn
<1>2. inode' = inode /\ ihash' = ihash /\ todo' = todo
  BY DEF Turn, Alive, ivars
<1>3. /\ InodeTypeOK /\ Working /\ RingIInv /\ RingIInv' /\ Kept /\ BlocksLast /\ HeadsLast
      /\ todo \in Todo /\ \A i \in Ino : Sound1(i)
  BY DEF Alive, PlacesInv, ManagerInv, InodeTypeOK
<1>4. ASSUME NEW h \in BufHead, head[h].st = "live", MapDone(head[h].blk)
      PROVE  MapDone(head[h].blk)'
  <2>1. PICK b \in Block : b = head[h].blk /\ blk[b].kind # "none"
    BY <1>3, <1>4, HeldBlock
  <2>2. MapDone(b)'
    BY <1>1, <1>3, <1>4, <2>1, MapGoesOn DEF Alive
  <2>3. head'[h].blk = b
    BY <1>3, <1>4, <2>1 DEF HeadsLast
  <2>. QED
    BY <2>2, <2>3 DEF MapDone
<1>5. CASE todo.at \in {"op", "map", "take"}
  <2>1. PICK i \in Ino, h \in BufHead, n \in Nat :
          /\ i = todo.i /\ h = todo.h /\ n = todo.n
          /\ inode[i].st = "filled" /\ head[h].st = "live" /\ head'[h].st = "live" /\ n > 0
          /\ head'[h].blk = head[h].blk /\ n * BlkSz <= blk'[head[h].blk].off
    BY <1>5, AllocLasts
  <2>2. todo'.at \in {"map", "take"} => inode'[todo'.i].bhData = todo'.h
    BY <1>2, <1>3 DEF Working
  <2>3. todo'.at = "take" => MapDone(head[h].blk)'
    <3>1. todo'.at = "take" => MapDone(head[h].blk)
      BY <1>2, <1>3, <2>1 DEF Working
    <3>. QED
      BY <1>4, <2>1, <3>1
  <2>4. todo'.i = i /\ todo'.h = h /\ todo'.n = n /\ todo'.at # "number"
    BY <1>2, <1>5, <2>1
  <2>5. todo'.at = "take" => MapDone(head[todo.h].blk)'
    BY <2>3, <2>4 DEF MapDone
  <2>. QED
    <3>1. Working'
      BY <1>2, <2>1, <2>2, <2>4, <2>5 DEF Working
    <3>. QED
      BY <1>2, <1>3, <3>1, SameInodes
<1>6. CASE todo.at = "number"
  <2>1. PICK i \in Ino : i = todo.i /\ inode[i].bh # NIL /\ MapDone(head[inode[i].bh].blk)
    BY <1>3, <1>6, TodoFacts DEF Working
  <2>2. PICK h \in BufHead : h = inode[i].bh /\ head[h].st = "live"
    BY <1>3, <2>1, InodeFacts DEF Sound1, HasSlot
  <2>3. MapDone(head[h].blk)'
    BY <1>4, <2>1, <2>2
  <2>4. inode'[todo'.i].bh = h /\ h # NIL /\ todo'.at = "number"
    BY <1>2, <1>6, <2>1, <2>2
  <2>5. MapDone(head[inode[todo.i].bh].blk)'
    BY <2>3, <2>4 DEF MapDone
  <2>6. Working'
    BY <2>4, <2>5 DEF Working
  <2>. QED
    BY <1>2, <1>3, <2>6, SameInodes
<1>7. CASE todo.at \notin {"op", "map", "take", "number"}
  <2>1. Working'
    BY <1>2, <1>7 DEF Working
  <2>. QED
    BY <1>2, <1>3, <2>1, SameInodes
<1>. QED
  BY <1>5, <1>6, <1>7

LEMMA UserPlaces ==
  ASSUME Alive, UserStep
  PROVE  PlacesInv'
<1>1. inode' = inode /\ ihash' = ihash /\ todo' = Nothing
  BY DEF UserStep, Alive, ivars
<1>. QED
  BY <1>1, NothingWorks, SameInodes

\* The inodes, their data and their numbers after any step of a process that lives on.
LEMMA InodePlaces ==
  ASSUME Alive, InodeNext
  PROVE  PlacesInv'
<1>1. CASE Caller
  <2>1. ErofsNewInode => FALSE
    BY DEF ErofsNewInode, Die, Alive
  <2>. QED
    BY <1>1, <2>1, NewInodePlaces, FillInodePlaces, ErofsIputPlaces, AllocNothingPlaces,
       AllocBallocPlaces, PrepareInodeBufferPlaces, LookupMapPlaces DEF Caller
<1>2. CASE GoOn
  BY <1>2, AllocBusyPlaces, AllocMapPlaces, AllocTakePlaces, LookupNumberPlaces DEF GoOn
<1>. QED
  BY <1>1, <1>2, TurnPlaces, UserPlaces DEF InodeNext
----------------------------------------------------------------------------
(***************************************************************************)
(* The hash table.                                                         *)
(***************************************************************************)

InTable(i) == inode[i].st \in {"filled", "stored"}

\* An inode in the table has a file whose anchor is linked, and an inode that left the
\* table never comes to the count at which it would leave it again.
TableOK ==
  \A i \in Ino :
    /\ InTable(i) => /\ inode[i].file \in File
                     /\ ihash[inode[i].file.anchor].next # NIL
    /\ inode[i].st = "released" => inode[i].count <= 0

\* The pointers lead from an inode to older ones and at last to an anchor: no inodes
\* form a ring of their own.
Ranked ==
  \E r \in [Ino -> Nat], m \in Nat : \A i \in Ino : InTable(i) =>
    /\ r[i] < m
    /\ \/ ihash[i].next \in Anchor
       \/ ihash[i].next \in Ino /\ r[ihash[i].next] < r[i]

\* The IHash of an inode that was never filled is without pointers or a ring of its own.
Single ==
  \A i \in Ino : inode[i].st \in {"none", "new"} =>
    ihash[i] \in {Unlinked, [prev |-> i, next |-> i]}

HashInv == HashRings /\ TableOK /\ Ranked /\ Single

\* A step that moves no inode into or out of the table.
LEMMA SameTable ==
  ASSUME HashInv, InodeTypeOK, ihash' = ihash,
         \A i \in Ino :
           /\ inode'[i].st \in {"filled", "stored"} <=> inode[i].st \in {"filled", "stored"}
           /\ inode[i].st \in {"filled", "stored"} => inode'[i].file = inode[i].file
           /\ inode'[i].st = "released" =>
                /\ inode[i].st = "released" /\ inode'[i].count \in Int
                /\ inode'[i].count <= inode[i].count
           /\ inode'[i].st \in {"none", "new"} => inode[i].st \in {"none", "new"}
  PROVE  HashInv'
<1>1. ASSUME NEW a \in Anchor PROVE Bucketed(a)' = Bucketed(a)
  BY DEF Bucketed
<1>2. HashRings'
  BY <1>1 DEF HashInv, HashRings, Linked
<1>3. TableOK'
  <2>1. ASSUME NEW i \in Ino, inode'[i].st \in {"filled", "stored"}
        PROVE  inode'[i].file \in File /\ ihash[inode'[i].file.anchor].next # NIL
    BY <2>1 DEF HashInv, TableOK, InTable
  <2>2. ASSUME NEW i \in Ino, inode'[i].st = "released" PROVE inode'[i].count <= 0
    <3>1. inode[i].st = "released" => inode[i].count <= 0
      BY DEF HashInv, TableOK
    <3>2. /\ inode[i].st = "released" /\ inode'[i].count \in Int
          /\ inode'[i].count <= inode[i].count
      BY <2>2
    <3>3. inode[i].count \in Int
      BY DEF InodeTypeOK
    <3>. QED
      BY <3>1, <3>2, <3>3
  <2>. QED
    BY <2>1, <2>2 DEF TableOK, InTable
<1>4. Ranked'
  <2>1. PICK r \in [Ino -> Nat], m \in Nat : \A i \in Ino : InTable(i) =>
          /\ r[i] < m
          /\ \/ ihash[i].next \in Anchor
             \/ ihash[i].next \in Ino /\ r[ihash[i].next] < r[i]
    BY DEF HashInv, Ranked
  <2>2. \A i \in Ino : inode'[i].st \in {"filled", "stored"} =>
          /\ r[i] < m
          /\ \/ ihash'[i].next \in Anchor
             \/ ihash'[i].next \in Ino /\ r[ihash'[i].next] < r[i]
    BY <2>1 DEF InTable
  <2>. QED
    BY <2>2 DEF Ranked, InTable
<1>5. Single'
  BY DEF HashInv, Single
<1>. QED
  BY <1>2, <1>3, <1>4, <1>5 DEF HashInv

\* One inode changes, and neither enters nor leaves the table.
LEMMA OneSameTable ==
  ASSUME HashInv, InodeTypeOK, ihash' = ihash, NEW i \in Ino,
         \A j \in Ino \ {i} : inode'[j] = inode[j],
         inode'[i].st \in {"filled", "stored"} <=> inode[i].st \in {"filled", "stored"},
         inode[i].st \in {"filled", "stored"} => inode'[i].file = inode[i].file,
         inode'[i].st = "released" =>
           /\ inode[i].st = "released" /\ inode'[i].count \in Int
           /\ inode'[i].count <= inode[i].count,
         inode'[i].st \in {"none", "new"} => inode[i].st \in {"none", "new"}
  PROVE  HashInv'
<1>1. ASSUME NEW j \in Ino
      PROVE  /\ inode'[j].st \in {"filled", "stored"} <=> inode[j].st \in {"filled", "stored"}
             /\ inode[j].st \in {"filled", "stored"} => inode'[j].file = inode[j].file
             /\ inode'[j].st = "released" =>
                  /\ inode[j].st = "released" /\ inode'[j].count \in Int
                  /\ inode'[j].count <= inode[j].count
             /\ inode'[j].st \in {"none", "new"} => inode[j].st \in {"none", "new"}
  <2>1. CASE j = i
    BY <2>1
  <2>2. CASE j # i
    <3>1. inode'[j] = inode[j] /\ inode[j].count \in Int
      BY <2>2 DEF InodeTypeOK
    <3>. QED
      BY <3>1
  <2>. QED
    BY <2>1, <2>2
<1>. QED
  BY <1>1, SameTable

\* The ring of an anchor and the inodes that hash to it.
HashRing(a) == {a} \cup Bucketed(a)

LEMMA RingsApart ==
  ASSUME HashInv, InodeTypeOK, NEW a \in Anchor
  PROVE  /\ HashRing(a) \subseteq Ino \cup Anchor /\ a \in HashRing(a) /\ NIL \notin Ino \cup Anchor
         /\ ihash[a].next # NIL => Linked(ihash, HashRing(a))
         /\ \A c \in Anchor : c # a => HashRing(a) \cap HashRing(c) = {}
<1>1. Ino \cap Anchor = {} /\ NIL \notin Ino \cup Anchor
  BY InodeAssumption
<1>. QED
  BY <1>1 DEF HashInv, HashRings, HashRing, Bucketed

LEMMA NewInodeTable ==
  ASSUME HashInv, InodeTypeOK, NEW i \in Ino, NEW made \in Made, NewInode(i, made)
  PROVE  HashInv'
<1>1. /\ inode \in [Ino -> InodeRec] /\ ihash \in Heaps(Ino \cup Anchor) /\ inode[i].st = "none"
      /\ ihash' \in {ihash, InitListHead(ihash, i)}
  BY DEF InodeTypeOK, InodeRec, NewInode
<1>2. \A x \in (Ino \cup Anchor) \ {i} : ihash'[x] = ihash[x]
  <2>. DEFINE N == Ino \cup Anchor
  <2>1. i \in N /\ ihash \in Heaps(N)
    BY <1>1
  <2>2. \A x \in N \ {i} : InitListHead(ihash, i)[x] = ihash[x]
    BY <2>1, InitLinked
  <2>. QED
    BY <1>1, <2>2
<1>3. /\ inode'[i].st = "new" /\ \A j \in Ino \ {i} : inode'[j] = inode[j]
  BY <1>1 DEF NewInode, NoInode
<1>4. ASSUME NEW a \in Anchor PROVE Bucketed(a)' = Bucketed(a) /\ i \notin HashRing(a)
  BY <1>1, <1>3, InodeAssumption DEF Bucketed, HashRing
<1>5. HashRings'
  <2>1. SUFFICES ASSUME NEW a \in Anchor, ihash'[a].next # NIL
                 PROVE  Linked(ihash', {a} \cup Bucketed(a)')
    BY DEF HashRings
  <2>2. ihash'[a] = ihash[a]
    BY <1>2, InodeAssumption
  <2>3. Linked(ihash, HashRing(a)) /\ HashRing(a) \subseteq Ino \cup Anchor
    BY <2>1, <2>2, RingsApart
  <2>4. \A x \in HashRing(a) : ihash'[x] = ihash[x]
    BY <1>2, <1>4, <2>3
  <2>5. Linked(ihash', HashRing(a))
    BY <2>3, <2>4, LinkedAlike
  <2>. QED
    BY <1>4, <2>5 DEF HashRing
<1>6. TableOK'
  <2>1. ASSUME NEW j \in Ino, inode'[j].st \in {"filled", "stored"}
        PROVE  inode'[j].file \in File /\ ihash'[inode'[j].file.anchor].next # NIL
    <3>1. j # i /\ inode'[j] = inode[j]
      BY <1>3, <2>1
    <3>2. inode[j].file \in File /\ ihash[inode[j].file.anchor].next # NIL
      BY <2>1, <3>1 DEF HashInv, TableOK, InTable
    <3>3. inode[j].file.anchor \in Anchor
      BY <3>2, InodeAssumption
    <3>. QED
      BY <1>2, <3>1, <3>2, <3>3, InodeAssumption
  <2>2. ASSUME NEW j \in Ino, inode'[j].st = "released" PROVE inode'[j].count <= 0
    <3>1. j # i /\ inode'[j] = inode[j]
      BY <1>3, <2>2
    <3>. QED
      BY <2>2, <3>1 DEF HashInv, TableOK
  <2>. QED
    BY <2>1, <2>2 DEF TableOK, InTable
<1>7. Ranked'
  <2>1. PICK r \in [Ino -> Nat], m \in Nat : \A j \in Ino : InTable(j) =>
          /\ r[j] < m
          /\ \/ ihash[j].next \in Anchor
             \/ ihash[j].next \in Ino /\ r[ihash[j].next] < r[j]
    BY DEF HashInv, Ranked
  <2>2. ASSUME NEW j \in Ino, inode'[j].st \in {"filled", "stored"}
        PROVE  /\ r[j] < m
               /\ \/ ihash'[j].next \in Anchor
                  \/ ihash'[j].next \in Ino /\ r[ihash'[j].next] < r[j]
    <3>1. j # i /\ inode'[j] = inode[j] /\ ihash'[j] = ihash[j]
      BY <1>2, <1>3, <2>2
    <3>2. InTable(j)
      BY <2>2, <3>1 DEF InTable
    <3>. QED
      BY <2>1, <3>1, <3>2
  <2>. QED
    BY <2>2 DEF Ranked, InTable
<1>8. Single'
  <2>1. ihash'[i] \in {ihash[i], [prev |-> i, next |-> i]}
    BY <1>1 DEF Heaps, InitListHead
  <2>2. ihash[i] \in {Unlinked, [prev |-> i, next |-> i]}
    BY <1>1 DEF HashInv, Single
  <2>3. ASSUME NEW j \in Ino \ {i}, inode'[j].st \in {"none", "new"}
        PROVE  ihash'[j] \in {Unlinked, [prev |-> j, next |-> j]}
    BY <1>2, <1>3, <2>3 DEF HashInv, Single
  <2>. QED
    BY <2>1, <2>2, <2>3 DEF Single
<1>. QED
  BY <1>5, <1>6, <1>7, <1>8 DEF HashInv

LEMMA FillInodeTable ==
  ASSUME HashInv, InodeTypeOK, InodeTypeOK', NEW i \in Ino, NEW f \in File, FillInode(i, f),
         status' = "run"
  PROVE  HashInv'
<1>. DEFINE N == Ino \cup Anchor
            a == f.anchor
            R == HashRing(a)
            refused == f.type = "other" \/ (Extended(i, f) /\ opt.force = "compact")
            sz == IF f.type = "other" THEN inode[i].size ELSE FilledSize(i, f)
            s  == IF refused THEN "new" ELSE "filled"
            g  == IF refused THEN inode[i].file ELSE f
<1>1. /\ inode \in [Ino -> InodeRec] /\ ihash \in Heaps(N) /\ a \in Anchor /\ NIL \notin N
      /\ Ino \cap Anchor = {}
  BY InodeAssumption DEF InodeTypeOK, InodeRec
<1>2. /\ inode[i].st = "new" /\ inode' = [inode EXCEPT ![i].size = sz, ![i].st = s, ![i].file = g]
      /\ ihash' = IF refused THEN ihash ELSE ListAdd(ihash, i, a)
      /\ refused \/ ihash[a].next # NIL
  BY DEF FillInode, Die, InsertIhash, InsertPanics
<1>3. inode'[i].st = s /\ inode'[i].file = g /\ \A j \in Ino \ {i} : inode'[j] = inode[j]
  <2>. DEFINE r == [inode[i] EXCEPT !.size = sz, !.st = s, !.file = g]
  <2>. HIDE DEF sz, s, g
  <2>1. inode[i] \in InodeRec
    BY <1>1
  <2>2. r.st = s /\ r.file = g
    BY <2>1 DEF InodeRec
  <2>3. inode' = [inode EXCEPT ![i] = r]
    BY <1>1, <1>2
  <2>. HIDE DEF r
  <2>. QED
    BY <1>1, <2>2, <2>3
<1>4. CASE refused
  <2>1. inode'[i].st = "new" /\ ihash' = ihash
    BY <1>2, <1>3, <1>4
  <2>. QED
    BY <1>2, <1>3, <2>1, OneSameTable
<1>5. CASE ~refused
  <2>0. inode'[i].st = "filled" /\ inode'[i].file = f /\ ihash' = ListAdd(ihash, i, a)
        /\ ihash[a].next # NIL
    BY <1>2, <1>3, <1>5
  <2>. HIDE DEF refused, s, g, sz, R, a
  <2>1. R \subseteq N /\ a \in R /\ i \in N \ R /\ Linked(ihash, R)
    <3>1. i \notin R
      BY <1>1, <1>2 DEF R, HashRing, Bucketed
    <3>. QED
      BY <1>1, <2>0, <3>1, RingsApart DEF R
  <2>2. /\ Linked(ihash', R \cup {i})
        /\ \A y \in N \ (R \cup {i}) : ihash'[y] = ihash[y]
        /\ ihash'[i].next = ihash[a].next
        /\ \A y \in N \ {i, a} : ihash'[y].next = ihash[y].next
    BY <1>1, <2>0, <2>1, AddLinked
  <2>3. R \cup {i} = {a} \cup Bucketed(a)'
    BY <1>2, <1>3, <2>0 DEF Bucketed, R, HashRing, a
  <2>4. ASSUME NEW c \in Anchor, c # a PROVE Bucketed(c)' = Bucketed(c) /\ i \notin HashRing(c)
    BY <1>1, <1>2, <1>3, <2>0, <2>4 DEF Bucketed, HashRing, a
  <2>5. HashRings'
    <3>1. SUFFICES ASSUME NEW c \in Anchor, ihash'[c].next # NIL
                   PROVE  Linked(ihash', {c} \cup Bucketed(c)')
      BY DEF HashRings
    <3>2. CASE c = a
      BY <2>2, <2>3, <3>2
    <3>3. CASE c # a
      <4>1. HashRing(c) \cap R = {} /\ HashRing(c) \subseteq N /\ c \in HashRing(c)
        BY <1>1, <3>3, RingsApart DEF R
      <4>2. \A x \in HashRing(c) : ihash'[x] = ihash[x]
        BY <2>2, <2>4, <3>3, <4>1
      <4>3. Linked(ihash, HashRing(c))
        BY <3>1, <4>1, <4>2, RingsApart
      <4>4. Linked(ihash', HashRing(c))
        BY <4>2, <4>3, LinkedAlike
      <4>. QED
        BY <2>4, <3>3, <4>4 DEF HashRing
    <3>. QED
      BY <3>2, <3>3
  <2>6. ASSUME NEW c \in Anchor, ihash[c].next # NIL PROVE ihash'[c].next # NIL
    <3>1. CASE c = a
      <4>1. ihash'[a].next \in R \cup {i}
        BY <2>1, <2>2 DEF Linked
      <4>. QED
        BY <1>1, <2>1, <3>1, <4>1
    <3>2. CASE c # a
      BY <1>1, <2>2, <2>6, <3>2
    <3>. QED
      BY <3>1, <3>2
  <2>7. TableOK'
    <3>1. ASSUME NEW j \in Ino, inode'[j].st \in {"filled", "stored"}
          PROVE  inode'[j].file \in File /\ ihash'[inode'[j].file.anchor].next # NIL
      <4>1. CASE j = i
        BY <1>1, <2>0, <2>6, <4>1 DEF a
      <4>2. CASE j # i
        <5>1. inode'[j] = inode[j] /\ InTable(j)
          BY <1>3, <3>1, <4>2 DEF InTable
        <5>2. inode[j].file \in File /\ ihash[inode[j].file.anchor].next # NIL
          BY <5>1 DEF HashInv, TableOK
        <5>3. inode[j].file.anchor \in Anchor
          BY <5>2, InodeAssumption
        <5>. QED
          BY <2>6, <5>1, <5>2, <5>3
      <4>. QED
        BY <4>1, <4>2
    <3>2. ASSUME NEW j \in Ino, inode'[j].st = "released" PROVE inode'[j].count <= 0
      <4>1. j # i /\ inode'[j] = inode[j]
        BY <1>3, <2>0, <3>2
      <4>. QED
        BY <3>2, <4>1 DEF HashInv, TableOK
    <3>. QED
      BY <3>1, <3>2 DEF TableOK, InTable
  <2>8. Ranked'
    <3>1. PICK r \in [Ino -> Nat], m \in Nat : \A j \in Ino : InTable(j) =>
            /\ r[j] < m
            /\ \/ ihash[j].next \in Anchor
               \/ ihash[j].next \in Ino /\ r[ihash[j].next] < r[j]
      BY DEF HashInv, Ranked
    <3>. DEFINE q == [r EXCEPT ![i] = m]
    <3>2. q \in [Ino -> Nat] /\ q[i] = m /\ \A j \in Ino \ {i} : q[j] = r[j]
      OBVIOUS
    <3>. HIDE DEF q
    \* Whoever is in a bucket points at an anchor or at somebody in a bucket.
    <3>3. ASSUME NEW j \in Ino, InTable(j)
          PROVE  ihash[j].next \in Anchor \/ (ihash[j].next \in Ino /\ ihash[j].next # i)
      <4>1. inode[j].file.anchor \in Anchor /\ ihash[inode[j].file.anchor].next # NIL
        BY <3>3, InodeAssumption DEF HashInv, TableOK
      <4>2. PICK c \in Anchor : c = inode[j].file.anchor /\ Linked(ihash, HashRing(c))
        BY <4>1, RingsApart
      <4>3. j \in HashRing(c)
        BY <3>3, <4>2 DEF HashRing, Bucketed, InTable
      <4>4. ihash[j].next \in HashRing(c)
        BY <4>2, <4>3 DEF Linked
      <4>5. i \notin HashRing(c)
        BY <1>1, <1>2 DEF HashRing, Bucketed
      <4>. QED
        BY <4>4, <4>5 DEF HashRing, Bucketed
    <3>4. ASSUME NEW j \in Ino, j # i, inode'[j].st \in {"filled", "stored"}
          PROVE  /\ q[j] < m + 1
                 /\ \/ ihash'[j].next \in Anchor
                    \/ ihash'[j].next \in Ino /\ q[ihash'[j].next] < q[j]
      <4>1. InTable(j) /\ ihash'[j].next = ihash[j].next
        <5>1. j \in N \ {i, a}
          BY <1>1, <3>4
        <5>. QED
          BY <1>3, <2>2, <3>4, <5>1 DEF InTable
      <4>2. q[j] = r[j] /\ r[j] \in Nat /\ r[j] < m
        BY <3>1, <3>2, <3>4, <4>1
      <4>3. CASE ihash[j].next \in Anchor
        BY <4>1, <4>2, <4>3
      <4>4. CASE ihash[j].next \in Ino /\ ihash[j].next # i /\ ihash[j].next \notin Anchor
        <5>1. r[ihash[j].next] < r[j] /\ q[ihash[j].next] = r[ihash[j].next]
          BY <3>1, <3>2, <4>1, <4>4
        <5>. QED
          BY <4>1, <4>2, <4>4, <5>1
      <4>. QED
        BY <3>3, <4>1, <4>3, <4>4
    <3>5. /\ q[i] < m + 1
          /\ \/ ihash'[i].next \in Anchor
             \/ ihash'[i].next \in Ino /\ q[ihash'[i].next] < q[i]
      <4>1. ihash'[i].next \in R
        BY <2>1, <2>2 DEF Linked
      <4>2. CASE ihash'[i].next = a
        BY <1>1, <3>2, <4>2
      <4>3. CASE ihash'[i].next # a
        <5>1. PICK j \in Ino : j = ihash'[i].next /\ InTable(j) /\ j # i
          BY <1>2, <4>1, <4>3 DEF R, HashRing, Bucketed, InTable
        <5>2. r[j] < m /\ q[j] = r[j]
          BY <3>1, <3>2, <5>1
        <5>. QED
          BY <3>2, <5>1, <5>2
      <4>. QED
        BY <4>2, <4>3
    <3>6. m + 1 \in Nat
      OBVIOUS
    <3>. QED
      BY <3>2, <3>4, <3>5, <3>6 DEF Ranked, InTable
  <2>9. Single'
    <3>1. SUFFICES ASSUME NEW j \in Ino, inode'[j].st \in {"none", "new"}
                   PROVE  ihash'[j] \in {Unlinked, [prev |-> j, next |-> j]}
      BY DEF Single
    <3>2. j # i /\ inode'[j] = inode[j]
      BY <1>3, <2>0, <3>1
    <3>3. j \in N \ (R \cup {i})
      BY <1>1, <3>1, <3>2 DEF R, HashRing, Bucketed
    <3>4. ihash'[j] = ihash[j]
      BY <2>2, <3>3
    <3>. QED
      BY <3>1, <3>2, <3>4 DEF HashInv, Single
  <2>. QED
    BY <2>5, <2>7, <2>8, <2>9 DEF HashInv
<1>. QED
  BY <1>4, <1>5

LEMMA ErofsIputTable ==
  ASSUME HashInv, InodeTypeOK, NEW i \in Ino, ErofsIput(i), status' = "run"
  PROVE  HashInv'
<1>. DEFINE N == Ino \cup Anchor
            s == IF PutReleases(i) THEN "released" ELSE inode[i].st
<1>1. /\ inode \in [Ino -> InodeRec] /\ ihash \in Heaps(N) /\ NIL \notin N
      /\ Ino \cap Anchor = {} /\ inode[i].count \in Int
  BY InodeAssumption DEF InodeTypeOK, InodeRec
<1>2. /\ inode[i].st # "none"
      /\ inode' = [inode EXCEPT ![i].count = @ - 1, ![i].st = s]
      /\ ihash' = IF PutReleases(i) THEN ListDel(ihash, i) ELSE ihash
      /\ PutReleases(i) => ~ListDelPanics(ihash, i)
  BY DEF ErofsIput, Die
<1>3. /\ inode'[i].st = s /\ inode'[i].file = inode[i].file
      /\ inode'[i].count = inode[i].count - 1
      /\ \A j \in Ino \ {i} : inode'[j] = inode[j]
  <2>. DEFINE r == [inode[i] EXCEPT !.count = @ - 1, !.st = s]
  <2>. HIDE DEF s
  <2>1. inode[i] \in InodeRec
    BY <1>1
  <2>2. r.st = s /\ r.file = inode[i].file /\ r.count = inode[i].count - 1
    BY <2>1 DEF InodeRec
  <2>3. inode' = [inode EXCEPT ![i] = r]
    BY <1>1, <1>2
  <2>. HIDE DEF r
  <2>. QED
    BY <1>1, <2>2, <2>3
<1>4. CASE ~PutReleases(i)
  <2>1. inode'[i].st = inode[i].st /\ ihash' = ihash
    BY <1>2, <1>3, <1>4
  <2>2. inode'[i].count \in Int /\ inode'[i].count <= inode[i].count
    BY <1>1, <1>3
  <2>. QED
    BY <1>3, <2>1, <2>2, OneSameTable
\* An inode that was never filled leaves a ring that nobody else is in.
<1>5. CASE PutReleases(i) /\ inode[i].st = "new"
  <2>1. inode'[i].st = "released" /\ inode'[i].count = 0 /\ ihash' = ListDel(ihash, i)
    BY <1>2, <1>3, <1>5 DEF PutReleases
  <2>2. ihash[i] = [prev |-> i, next |-> i]
    BY <1>2, <1>5 DEF HashInv, Single, ListDelPanics, Unlinked
  <2>3. \A x \in N \ {i} : ihash'[x] = ihash[x]
    BY <1>1, <2>1, <2>2 DEF ListDel, Heaps
  <2>4. ASSUME NEW a \in Anchor
        PROVE  /\ Bucketed(a)' = Bucketed(a) /\ i \notin HashRing(a)
               /\ ihash'[a] = ihash[a]
    BY <1>1, <1>3, <1>5, <2>1, <2>3 DEF Bucketed, HashRing
  <2>5. HashRings'
    <3>1. SUFFICES ASSUME NEW a \in Anchor, ihash'[a].next # NIL
                   PROVE  Linked(ihash', {a} \cup Bucketed(a)')
      BY DEF HashRings
    <3>2. Linked(ihash, HashRing(a)) /\ HashRing(a) \subseteq N
      BY <2>4, <3>1, RingsApart
    <3>3. \A x \in HashRing(a) : ihash'[x] = ihash[x]
      BY <2>3, <2>4, <3>2
    <3>4. Linked(ihash', HashRing(a))
      BY <3>2, <3>3, LinkedAlike
    <3>. QED
      BY <2>4, <3>4 DEF HashRing
  <2>6. ASSUME NEW j \in Ino, j # i PROVE inode'[j] = inode[j] /\ ihash'[j] = ihash[j]
    BY <1>3, <2>3, <2>6
  <2>7. TableOK'
    <3>1. ASSUME NEW j \in Ino, inode'[j].st \in {"filled", "stored"}
          PROVE  inode'[j].file \in File /\ ihash'[inode'[j].file.anchor].next # NIL
      <4>1. j # i /\ inode'[j] = inode[j]
        BY <2>1, <2>6, <3>1
      <4>2. inode[j].file \in File /\ ihash[inode[j].file.anchor].next # NIL
        BY <3>1, <4>1 DEF HashInv, TableOK, InTable
      <4>3. inode[j].file.anchor \in Anchor
        BY <4>2, InodeAssumption
      <4>. QED
        BY <2>4, <4>1, <4>2, <4>3
    <3>2. ASSUME NEW j \in Ino, inode'[j].st = "released" PROVE inode'[j].count <= 0
      <4>1. CASE j = i
        BY <2>1, <4>1
      <4>2. CASE j # i
        BY <2>6, <3>2, <4>2 DEF HashInv, TableOK
      <4>. QED
        BY <4>1, <4>2
    <3>. QED
      BY <3>1, <3>2 DEF TableOK, InTable
  <2>8. Ranked'
    <3>1. PICK r \in [Ino -> Nat], m \in Nat : \A j \in Ino : InTable(j) =>
            /\ r[j] < m
            /\ \/ ihash[j].next \in Anchor
               \/ ihash[j].next \in Ino /\ r[ihash[j].next] < r[j]
      BY DEF HashInv, Ranked
    <3>2. ASSUME NEW j \in Ino, inode'[j].st \in {"filled", "stored"}
          PROVE  /\ r[j] < m
                 /\ \/ ihash'[j].next \in Anchor
                    \/ ihash'[j].next \in Ino /\ r[ihash'[j].next] < r[j]
      <4>1. j # i /\ inode'[j] = inode[j] /\ ihash'[j] = ihash[j]
        BY <2>1, <2>6, <3>2
      <4>2. InTable(j)
        BY <3>2, <4>1 DEF InTable
      <4>. QED
        BY <3>1, <4>1, <4>2
    <3>. QED
      BY <3>2 DEF Ranked, InTable
  <2>9. Single'
    <3>1. SUFFICES ASSUME NEW j \in Ino, inode'[j].st \in {"none", "new"}
                   PROVE  ihash'[j] \in {Unlinked, [prev |-> j, next |-> j]}
      BY DEF Single
    <3>2. j # i
      BY <2>1, <3>1
    <3>. QED
      BY <2>6, <3>1, <3>2 DEF HashInv, Single
  <2>. QED
    BY <2>5, <2>7, <2>8, <2>9 DEF HashInv
<1>6. CASE PutReleases(i) /\ inode[i].st # "new"
  <2>0. inode'[i].st = "released" /\ inode'[i].count = 0 /\ ihash' = ListDel(ihash, i)
        /\ inode[i].count = 1
    BY <1>2, <1>3, <1>6 DEF PutReleases
  <2>. HIDE DEF s
  <2>1. InTable(i)
    <3>1. inode[i].st # "released"
      BY <2>0 DEF HashInv, TableOK
    <3>2. inode[i].st \in {"none", "new", "filled", "stored", "released"}
      BY <1>1 DEF InodeRec
    <3>. QED
      BY <1>2, <1>6, <3>1, <3>2 DEF InTable
  <2>2. PICK a \in Anchor : a = inode[i].file.anchor /\ ihash[a].next # NIL
    BY <2>1, InodeAssumption DEF HashInv, TableOK
  <2>. DEFINE R == {a} \cup Bucketed(a)
  <2>3. R \subseteq N /\ a \in R /\ i \in R /\ Linked(ihash, R)
    <3>1. i \in R
      BY <2>1, <2>2 DEF Bucketed, InTable
    <3>. QED
      BY <2>2, <3>1, RingsApart DEF HashRing
  <2>. HIDE DEF R
  <2>4. PICK r \in [Ino -> Nat], m \in Nat : \A j \in Ino : InTable(j) =>
          /\ r[j] < m
          /\ \/ ihash[j].next \in Anchor
             \/ ihash[j].next \in Ino /\ r[ihash[j].next] < r[j]
    BY DEF HashInv, Ranked
  <2>. DEFINE pr == ihash[i].prev
              nx == ihash[i].next
  <2>5. nx # i
    <3>1. SUFFICES ASSUME nx = i PROVE FALSE
      OBVIOUS
    <3>2. r[i] < r[i] /\ r[i] \in Nat
      BY <1>1, <2>1, <2>4, <3>1
    <3>. QED
      BY <3>2
  <2>6. pr \in R \ {i} /\ nx \in R \ {i} /\ ihash[pr].next = i
    BY <2>3, <2>5 DEF Linked
  <2>7. /\ Linked(ihash', R \ {i})
        /\ \A y \in N \ R : ihash'[y] = ihash[y]
    <3>1. R \in SUBSET N /\ ihash[i].next # i
      BY <2>3, <2>5
    <3>2. /\ Linked(ListDel(ihash, i), R \ {i})
          /\ \A y \in N \ R : ListDel(ihash, i)[y] = ihash[y]
      <4>1. ihash \in Heaps(N) /\ NIL \notin N /\ R \in SUBSET N /\ i \in R /\ ihash[i].next # i
            /\ Linked(ihash, R)
        BY <1>1, <2>3, <3>1
      <4>. HIDE DEF N
      <4>2. /\ ~ListDelPanics(ihash, i)
            /\ Linked(ListDel(ihash, i), R \ {i})
            /\ \A y \in N \ R : ListDel(ihash, i)[y] = ihash[y]
        BY <4>1, DelLinked
      <4>. QED
        BY <4>2
    <3>. QED
      BY <2>0, <3>2
  <2>8. ihash'[pr].next = nx /\ \A y \in N \ {i, pr} : ihash'[y].next = ihash[y].next
    <3>1. pr \in N \ {i} /\ nx \in N \ {i} /\ i \in N
      BY <2>3, <2>6
    <3>2. /\ ListDel(ihash, i)[pr].next = nx
          /\ \A y \in N \ {i, pr} : ListDel(ihash, i)[y].next = ihash[y].next
      BY <1>1, <3>1, DelNexts
    <3>. QED
      BY <2>0, <3>2
  <2>. HIDE DEF pr, nx
  <2>9. R \ {i} = {a} \cup Bucketed(a)'
    BY <1>1, <1>3, <2>0, <2>2 DEF Bucketed, R
  <2>10. ASSUME NEW c \in Anchor, c # a PROVE Bucketed(c)' = Bucketed(c)
    BY <1>1, <1>3, <2>0, <2>2, <2>10 DEF Bucketed
  <2>11. HashRings'
    <3>1. SUFFICES ASSUME NEW c \in Anchor, ihash'[c].next # NIL
                   PROVE  Linked(ihash', {c} \cup Bucketed(c)')
      BY DEF HashRings
    <3>2. CASE c = a
      BY <2>7, <2>9, <3>2
    <3>3. CASE c # a
      <4>1. HashRing(c) \cap R = {} /\ HashRing(c) \subseteq N /\ c \in HashRing(c)
        BY <1>1, <2>2, <3>3, RingsApart DEF R, HashRing
      <4>2. \A x \in HashRing(c) : ihash'[x] = ihash[x]
        BY <2>7, <4>1
      <4>3. Linked(ihash, HashRing(c))
        BY <3>1, <4>1, <4>2, RingsApart
      <4>4. Linked(ihash', HashRing(c))
        BY <4>2, <4>3, LinkedAlike
      <4>. QED
        BY <2>10, <3>3, <4>4 DEF HashRing
    <3>. QED
      BY <3>2, <3>3
  <2>12. ASSUME NEW c \in Anchor, ihash[c].next # NIL PROVE ihash'[c].next # NIL
    <3>1. CASE c = pr
      BY <1>1, <2>3, <2>6, <2>8, <3>1
    <3>2. CASE c # pr
      BY <1>1, <2>8, <2>12, <3>2
    <3>. QED
      BY <3>1, <3>2
  <2>13. TableOK'
    <3>1. ASSUME NEW j \in Ino, inode'[j].st \in {"filled", "stored"}
          PROVE  inode'[j].file \in File /\ ihash'[inode'[j].file.anchor].next # NIL
      <4>1. j # i /\ inode'[j] = inode[j] /\ InTable(j)
        BY <1>3, <2>0, <3>1 DEF InTable
      <4>2. inode[j].file \in File /\ ihash[inode[j].file.anchor].next # NIL
        BY <4>1 DEF HashInv, TableOK
      <4>3. inode[j].file.anchor \in Anchor
        BY <4>2, InodeAssumption
      <4>. QED
        BY <2>12, <4>1, <4>2, <4>3
    <3>2. ASSUME NEW j \in Ino, inode'[j].st = "released" PROVE inode'[j].count <= 0
      <4>1. CASE j = i
        BY <2>0, <4>1
      <4>2. CASE j # i
        <5>1. inode'[j] = inode[j]
          BY <1>3, <4>2
        <5>. QED
          BY <3>2, <5>1 DEF HashInv, TableOK
      <4>. QED
        BY <4>1, <4>2
    <3>. QED
      BY <3>1, <3>2 DEF TableOK, InTable
  <2>14. Ranked'
    <3>1. ASSUME NEW j \in Ino, inode'[j].st \in {"filled", "stored"}
          PROVE  /\ r[j] < m
                 /\ \/ ihash'[j].next \in Anchor
                    \/ ihash'[j].next \in Ino /\ r[ihash'[j].next] < r[j]
      <4>1. j # i /\ InTable(j)
        BY <1>3, <2>0, <3>1 DEF InTable
      <4>2. CASE j # pr
        BY <2>4, <2>8, <4>1, <4>2
      \* The predecessor takes over the released inode's pointer, and its rank is higher.
      <4>3. CASE j = pr
        <5>1. r[j] < m /\ r[i] < r[j] /\ r[i] \in Nat /\ r[j] \in Nat
          BY <1>1, <2>4, <2>6, <4>1, <4>3
        <5>2. nx \in Anchor \/ (nx \in Ino /\ r[nx] < r[i] /\ r[nx] \in Nat)
          BY <2>1, <2>4 DEF nx
        <5>3. ihash'[j].next = nx
          BY <2>8, <4>3
        <5>. QED
          BY <5>1, <5>2, <5>3
      <4>. QED
        BY <4>2, <4>3
    <3>. QED
      BY <3>1 DEF Ranked, InTable
  <2>15. Single'
    <3>1. SUFFICES ASSUME NEW j \in Ino, inode'[j].st \in {"none", "new"}
                   PROVE  ihash'[j] \in {Unlinked, [prev |-> j, next |-> j]}
      BY DEF Single
    <3>2. j # i /\ inode'[j] = inode[j]
      BY <1>3, <2>0, <3>1
    <3>3. j \in N \ R
      BY <1>1, <3>1, <3>2 DEF R, Bucketed
    <3>4. ihash'[j] = ihash[j]
      BY <2>7, <3>3
    <3>. QED
      BY <3>1, <3>2, <3>4 DEF HashInv, Single
  <2>. QED
    BY <2>11, <2>13, <2>14, <2>15 DEF HashInv
<1>. QED
  BY <1>4, <1>5, <1>6

\* The other steps move nobody into or out of the table.
LEMMA AllocTable ==
  ASSUME HashInv, Alive, AllocBusy \/ AllocTake \/ LookupNumber
  PROVE  HashInv'
<1>1. /\ InodeTypeOK /\ inode \in [Ino -> InodeRec] /\ Working /\ ~Die("panic")
  BY DEF Alive, PlacesInv, InodeTypeOK, InodeRec, Die
<1>2. PICK i \in Ino : i = todo.i
  BY <1>1, TodoFacts DEF AllocBusy, AllocTake, LookupNumber
<1>3. ihash' = ihash
  BY <1>1 DEF AllocBusy, AllocTake, LookupNumber
<1>4. /\ \A j \in Ino \ {i} : inode'[j] = inode[j]
      /\ inode'[i].file = inode[i].file /\ inode'[i].count = inode[i].count
      /\ inode'[i].st = inode[i].st \/ (inode[i].st = "filled" /\ inode'[i].st = "stored")
  <2>1. CASE AllocBusy
    <3>1. inode' = [inode EXCEPT ![i].bhData = todo.h]
      BY <1>2, <2>1 DEF AllocBusy
    <3>. QED
      BY <1>1, <3>1 DEF InodeRec
  <2>2. CASE AllocTake
    <3>1. inode[i].st = "filled"
      BY <1>1, <1>2, <2>2 DEF AllocTake, Working
    <3>2. PICK n, x : inode' = [inode EXCEPT ![i].st = "stored", ![i].n = n, ![i].addr = x]
      BY <1>2, <2>2 DEF AllocTake
    <3>. DEFINE r == [inode[i] EXCEPT !.st = "stored", !.n = n, !.addr = x]
    <3>3. inode[i] \in InodeRec
      BY <1>1
    <3>4. r.file = inode[i].file /\ r.count = inode[i].count /\ r.st = "stored"
      BY <3>3 DEF InodeRec
    <3>5. inode' = [inode EXCEPT ![i] = r]
      BY <1>1, <3>2
    <3>. HIDE DEF r
    <3>. QED
      BY <1>1, <3>1, <3>4, <3>5
  <2>3. CASE LookupNumber
    <3>1. PICK x : inode' = [inode EXCEPT ![i].nid = x]
      BY <1>1, <1>2, <2>3 DEF LookupNumber
    <3>. QED
      BY <1>1, <3>1 DEF InodeRec
  <2>. QED
    BY <2>1, <2>2, <2>3
<1>5. inode[i].count \in Int
  BY <1>1 DEF InodeRec
<1>. QED
  BY <1>1, <1>3, <1>4, <1>5, OneSameTable

LEMMA StoreTable ==
  ASSUME HashInv, InodeTypeOK, NEW i \in Ino,
         AllocNothing(i) \/ \E bh, new \in BufHead : PrepareInodeBuffer(i, bh, new)
  PROVE  HashInv'
<1>1. inode \in [Ino -> InodeRec] /\ inode[i] \in InodeRec /\ ihash' = ihash
  BY DEF InodeTypeOK, InodeRec, AllocNothing, PrepareInodeBuffer
<1>2. /\ \A j \in Ino \ {i} : inode'[j] = inode[j]
      /\ inode'[i].file = inode[i].file /\ inode'[i].count = inode[i].count
      /\ inode'[i].st = inode[i].st \/ (inode[i].st = "filled" /\ inode'[i].st = "stored")
  <2>1. CASE AllocNothing(i)
    <3>. DEFINE r == [inode[i] EXCEPT !.st = "stored", !.addr = NULL_ADDR]
    <3>1. r.file = inode[i].file /\ r.count = inode[i].count /\ r.st = "stored"
      BY <1>1 DEF InodeRec
    <3>2. inode' = [inode EXCEPT ![i] = r] /\ inode[i].st = "filled"
      BY <1>1, <2>1 DEF AllocNothing
    <3>. HIDE DEF r
    <3>. QED
      BY <1>1, <3>1, <3>2
  <2>2. CASE \E bh, new \in BufHead : PrepareInodeBuffer(i, bh, new)
    <3>1. PICK x : inode' = [inode EXCEPT ![i].bh = x]
      BY <2>2 DEF PrepareInodeBuffer
    <3>. QED
      BY <1>1, <3>1 DEF InodeRec
  <2>. QED
    BY <2>1, <2>2
<1>3. inode[i].count \in Int
  BY <1>1 DEF InodeRec
<1>. QED
  BY <1>1, <1>2, <1>3, OneSameTable

LEMMA UnmovedTable ==
  ASSUME HashInv, InodeTypeOK, ihash' = ihash, inode' = inode
  PROVE  HashInv'
<1>1. \A i \in Ino : inode[i].count \in Int
  BY DEF InodeTypeOK
<1>. QED
  BY <1>1, SameTable

\* The table after any step of a process that lives on.
LEMMA InodeTable ==
  ASSUME HashInv, Alive, InodeTypeOK', InodeNext
  PROVE  HashInv'
<1>1. InodeTypeOK /\ status' = "run" /\ ~Die("panic")
  BY DEF Alive, PlacesInv, Die
<1>2. CASE Caller
  <2>1. ASSUME NEW i \in Ino, NEW made \in Made, NewInode(i, made) PROVE HashInv'
    BY <1>1, <2>1, NewInodeTable
  <2>2. ASSUME NEW i \in Ino, NEW f \in File, FillInode(i, f) PROVE HashInv'
    BY <1>1, <2>2, FillInodeTable
  <2>3. ASSUME NEW i \in Ino, ErofsIput(i) PROVE HashInv'
    BY <1>1, <2>3, ErofsIputTable
  <2>4. ASSUME NEW i \in Ino, AllocNothing(i) PROVE HashInv'
    BY <1>1, <2>4, StoreTable
  <2>5. ASSUME NEW i \in Ino, NEW n, NEW b, NEW h, AllocBalloc(i, n, b, h) PROVE HashInv'
    BY <1>1, <2>5, UnmovedTable DEF AllocBalloc
  <2>6. ASSUME NEW i \in Ino, NEW bh \in BufHead, NEW new \in BufHead,
               PrepareInodeBuffer(i, bh, new)
        PROVE  HashInv'
    BY <1>1, <2>6, StoreTable
  <2>7. ASSUME NEW i \in Ino, LookupMap(i) PROVE HashInv'
    BY <1>1, <2>7, UnmovedTable DEF LookupMap
  <2>8. ErofsNewInode => FALSE
    BY <1>1 DEF ErofsNewInode
  <2>. QED
    BY <1>2, <2>1, <2>2, <2>3, <2>4, <2>5, <2>6, <2>7, <2>8 DEF Caller
<1>3. CASE GoOn
  <2>1. AllocMap => HashInv'
    BY <1>1, UnmovedTable DEF AllocMap
  <2>. QED
    BY <1>3, <2>1, AllocTable DEF GoOn
<1>4. CASE Turn
  BY <1>1, <1>4, UnmovedTable DEF Turn, ivars
<1>5. CASE UserStep
  BY <1>1, <1>5, UnmovedTable DEF UserStep, ivars
<1>. QED
  BY <1>2, <1>3, <1>4, <1>5 DEF InodeNext

\* Without inodes the table has nothing to keep, and its anchors are as they should be.
LEMMA EmptyTable ==
  ASSUME inode = [i \in Ino |-> NoInode],
         \A a \in Anchor : ihash[a].next \in {NIL, a} /\ ihash[a].prev = ihash[a].next,
         \A i \in Ino : ihash[i] = Unlinked
  PROVE  HashInv
<1>1. \A i \in Ino : inode[i].st = "none" /\ ~InTable(i)
  BY DEF InTable, NoInode
<1>2. HashRings
  <2>1. SUFFICES ASSUME NEW a \in Anchor, ihash[a].next # NIL
                 PROVE  Linked(ihash, {a} \cup Bucketed(a))
    BY DEF HashRings
  <2>2. {a} \cup Bucketed(a) = {a}
    BY <1>1 DEF Bucketed
  <2>3. Linked(ihash, {a})
    BY <2>1 DEF Linked
  <2>. QED
    BY <2>2, <2>3
<1>3. TableOK
  BY <1>1 DEF TableOK
<1>4. Ranked
  <2>1. [i \in Ino |-> 0] \in [Ino -> Nat] /\ 0 \in Nat
    OBVIOUS
  <2>. QED
    BY <1>1, <2>1 DEF Ranked
<1>5. Single
  BY DEF Single
<1>. QED
  BY <1>2, <1>3, <1>4, <1>5 DEF HashInv

\* The same after a step.
LEMMA EmptyTableNext ==
  ASSUME inode' = [i \in Ino |-> NoInode],
         \A a \in Anchor : ihash'[a].next = NIL /\ ihash'[a].prev = NIL,
         \A i \in Ino : ihash'[i] = Unlinked
  PROVE  HashInv'
<1>1. \A i \in Ino : inode'[i].st = "none"
  BY DEF NoInode
<1>2. HashRings'
  BY DEF HashRings
<1>3. TableOK'
  BY <1>1 DEF TableOK, InTable
<1>4. Ranked'
  <2>1. [i \in Ino |-> 0] \in [Ino -> Nat] /\ 0 \in Nat
    OBVIOUS
  <2>. QED
    BY <1>1, <2>1 DEF Ranked, InTable
<1>5. Single'
  BY DEF Single
<1>. QED
  BY <1>2, <1>3, <1>4, <1>5 DEF HashInv
----------------------------------------------------------------------------
(***************************************************************************)
(* The whole.                                                              *)
(***************************************************************************)

InodeInv == PlacesInv /\ HashInv

LEMMA InodeStarts == InodeInit => InodeInv
<1>1. SUFFICES ASSUME InodeInit PROVE InodeInv
  OBVIOUS
<1>2. /\ Init /\ opt \in Setting /\ inode = [i \in Ino |-> NoInode] /\ todo = Nothing
      /\ ihash = [x \in Ino \cup Anchor |-> IF opt.table /\ x \in Anchor
                                            THEN [prev |-> x, next |-> x] ELSE Unlinked]
  BY <1>1 DEF InodeInit
<1>3. ManagerInv /\ status = "run"
  BY <1>2, ManagerStarts DEF Init
<1>4. InodeTypeOK
  <2>1. ihash \in Heaps(Ino \cup Anchor)
    BY <1>2 DEF Heaps, Unlinked
  <2>. QED
    BY <1>2, <1>3, <2>1, NoInodesPlaced DEF InodeTypeOK, InodeRec, Todo
<1>5. ASSUME NEW i \in Ino PROVE Sound1(i) /\ inode[i].bh = NIL
  <2>1. inode[i].n = 0 /\ inode[i].nid = 0 /\ inode[i].bh = NIL
    BY <1>2 DEF NoInode
  <2>. QED
    BY <2>1 DEF Sound1, Fresh, HasData, HasSlot, Numbered
<1>6. OwnSlots /\ Working
  BY <1>2, <1>5 DEF OwnSlots, Working, Nothing
<1>7. HashInv
  <2>1. \A a \in Anchor : ihash[a].next \in {NIL, a} /\ ihash[a].prev = ihash[a].next
    BY <1>2 DEF Unlinked
  <2>2. \A i \in Ino : ihash[i] = Unlinked
    BY <1>2, InodeAssumption
  <2>. QED
    BY <1>2, <2>1, <2>2, EmptyTable
<1>. QED
  BY <1>2, <1>3, <1>4, <1>5, <1>6, <1>7 DEF InodeInv, PlacesInv

LEMMA InodeStep ==
  ASSUME InodeInv, [InodeNext]_allvars
  PROVE  InodeInv'
<1>1. /\ PlacesInv /\ HashInv /\ ManagerInv /\ RingIInv /\ InodeTypeOK
  BY DEF InodeInv, PlacesInv, ManagerInv
<1>2. CASE UNCHANGED allvars
  <2>1. vars' = vars /\ inode' = inode /\ ihash' = ihash /\ opt' = opt /\ todo' = todo
    BY <1>2 DEF allvars, ivars
  <2>2. CASE status = "run"
    <3>1. ManagerStep /\ status' = "run"
      BY <2>1, <2>2 DEF ManagerStep, vars
    <3>2. Alive
      BY <1>1, <2>1, <3>1, ManagerInvKept DEF Alive
    <3>3. Working'
      BY <1>1, <2>1 DEF PlacesInv, Working, MapDone, Mapped, vars
    <3>4. PlacesInv'
      BY <1>1, <2>1, <3>2, <3>3, SameInodes DEF InodeTypeOK
    <3>. QED
      BY <1>1, <2>1, <3>4, UnmovedTable DEF InodeInv
  <2>3. CASE status # "run"
    <3>1. ManagerInv'
      BY <1>1, <2>1, ManagerStays
    <3>2. inode' = [i \in Ino |-> NoInode]
      BY <1>1, <2>1, <2>3 DEF InodeTypeOK
    <3>3. InodeTypeOK'
      BY <1>1, <2>1, <3>2 DEF InodeTypeOK
    <3>4. ASSUME NEW i \in Ino PROVE Sound1(i)' /\ inode'[i].bh = NIL
      <4>1. inode'[i].n = 0 /\ inode'[i].nid = 0 /\ inode'[i].bh = NIL
        BY <3>2 DEF NoInode
      <4>. QED
        BY <4>1 DEF Sound1, Fresh, HasData, HasSlot, Numbered
    <3>5. OwnSlots'
      BY <3>4 DEF OwnSlots
    <3>6. Working'
      BY <1>1, <2>1 DEF PlacesInv, Working, MapDone, Mapped, vars
    <3>7. opt' \in Setting
      BY <1>1, <2>1 DEF PlacesInv
    <3>8. HashInv'
      BY <1>1, <2>1, UnmovedTable
    <3>. QED
      BY <3>1, <3>3, <3>4, <3>5, <3>6, <3>7, <3>8 DEF InodeInv, PlacesInv
  <2>. QED
    BY <2>2, <2>3
<1>3. CASE InodeNext /\ status' # "run"
  <2>1. RingIInv'
    BY <1>1, <1>3, InodeIsManagerStep, ManagerRing
  <2>2. InodesDie /\ \E how \in {"panic", "hang"} : Die(how)
    BY <1>1, <1>3, <2>1, InodeDies
  <2>3. PlacesInv'
    BY <1>1, <2>2, PlacesDie
  <2>4. /\ inode' = [i \in Ino |-> NoInode]
        /\ \A a \in Anchor : ihash'[a].next = NIL /\ ihash'[a].prev = NIL
        /\ \A i \in Ino : ihash'[i] = Unlinked
    BY <2>2 DEF InodesDie, Unlinked
  <2>5. HashInv'
    BY <2>4, EmptyTableNext
  <2>. QED
    BY <2>3, <2>5 DEF InodeInv
<1>4. CASE InodeNext /\ status' = "run"
  <2>1. ManagerStep
    BY <1>1, <1>4, InodeIsManagerStep
  <2>2. ManagerInv' /\ HeadsLast /\ BlocksLast
    BY <1>1, <1>4, <2>1, ManagerInvKept
  <2>3. opt' = opt
    <3>1. Caller => opt' = opt
      <4>1. InodesDie => opt' = opt
        BY DEF InodesDie
      <4>2. ErofsNewInode => opt' = opt
        BY <4>1 DEF ErofsNewInode
      <4>3. ASSUME NEW i, NEW x, NEW y, NEW z,
                   \/ NewInode(i, x) \/ FillInode(i, x) \/ ErofsIput(i) \/ AllocNothing(i)
                   \/ AllocBalloc(i, x, y, z) \/ PrepareInodeBuffer(i, x, y) \/ LookupMap(i)
            PROVE  opt' = opt
        BY <4>1, <4>3
        DEF NewInode, FillInode, ErofsIput, AllocNothing, AllocBalloc, PrepareInodeBuffer, LookupMap
      <4>. QED
        BY <4>2, <4>3 DEF Caller
    <3>2. GoOn => opt' = opt
      BY DEF GoOn, AllocBusy, AllocMap, AllocTake, LookupNumber, InodesDie
    <3>3. Turn \/ UserStep => opt' = opt
      BY DEF Turn, UserStep, InodesDie, ivars
    <3>. QED
      BY <1>4, <3>1, <3>2, <3>3 DEF InodeNext
  <2>4. Alive
    BY <1>1, <1>4, <2>2, <2>3 DEF Alive
  <2>5. PlacesInv'
    BY <1>4, <2>4, InodePlaces
  <2>6. HashInv'
    BY <1>1, <1>4, <2>4, <2>5, InodeTable DEF PlacesInv
  <2>. QED
    BY <2>5, <2>6 DEF InodeInv
<1>. QED
  BY <1>2, <1>3, <1>4

LEMMA InodeInvHolds == InodeSpec => []InodeInv
<1>1. InodeInit => InodeInv
  BY InodeStarts
<1>2. InodeInv /\ [InodeNext]_allvars => InodeInv'
  BY InodeStep
<1>. QED
  BY <1>1, <1>2, PTL DEF InodeSpec

\* Whatever callers, the manager's loops and the other users of the manager do, every
\* field of an inode and every pointer of inodeHashtable holds a value of its Go type, and
\* a number that ErofsLookupNid computed by wrapping subtraction is a 64-bit one.
THEOREM InodesAreTyped == InodeSpec => []InodeTypeOK
<1>1. InodeInv => InodeTypeOK
  BY DEF InodeInv, PlacesInv
<1>. QED
  BY <1>1, InodeInvHolds, PTL

\* What an inode's number says of its head.
LEMMA SamePlace ==
  ASSUME InodeInv, NEW i \in Ino, inode[i].nid # 0
  PROVE  /\ inode[i].bh \in BufHead /\ head[inode[i].bh].st = "live"
         /\ head[inode[i].bh].by = "attach" /\ head[inode[i].bh].len = Slot
         /\ Mapped(head[inode[i].bh].blk)
         /\ BhTell(inode[i].bh) \in Nat
         /\ inode[i].nid * Slot = (BhTell(inode[i].bh) - Pos(opt.meta)) + Word
<1>1. RingIInv /\ InodeTypeOK /\ HasSlot(i) /\ Numbered(i)
  BY DEF InodeInv, PlacesInv, ManagerInv, Sound1
<1>2. /\ inode[i].bh \in BufHead /\ head[inode[i].bh].st = "live"
      /\ head[inode[i].bh].by = "attach" /\ head[inode[i].bh].len = Slot
      /\ Mapped(head[inode[i].bh].blk)
      /\ \E k \in Nat : head[inode[i].bh].off = Slot * k
      /\ inode[i].nid * Slot = (BhTell(inode[i].bh) - Pos(opt.meta)) + Word
  BY <1>1, InodeFacts DEF HasSlot, Numbered
<1>3. BhTell(inode[i].bh) \in Nat
  BY <1>1, <1>2, SlotPlace
<1>. QED
  BY <1>2, <1>3

\* The start of the metadata and the bounds it keeps.
LEMMA MetaFacts ==
  ASSUME InodeInv
  PROVE  /\ Pos(opt.meta) \in Nat /\ Word \in Nat \ {0} /\ Slot \in Nat \ {0}
         /\ \A i \in Ino : inode[i].nid \in Nat
<1>1. opt \in Setting /\ InodeTypeOK
  BY DEF InodeInv, PlacesInv
<1>2. opt.meta \in Nat /\ BlkSz \in Nat /\ Word \in Nat \ {0} /\ Slot \in Nat \ {0}
  BY <1>1, InodeAssumption, BlkSzAssumption, SizeAssumption DEF Settings, Slot
<1>3. \A i \in Ino : inode[i].nid \in 0..(Word - 1)
  BY <1>1 DEF InodeTypeOK
<1>. QED
  BY <1>2, <1>3 DEF Pos

\* erofsIloc (inode.go) gives back the place ErofsLookupNid (inode1.go) was asked for, for
\* as long as the inode has its head: modulo 2^64 the number is that place, counted in
\* slots from the metadata, and neither the manager nor its other users move the head.
THEOREM NumbersLocate == InodeSpec => []NumberLocates
<1>1. ASSUME InodeInv, NEW i \in Ino, inode[i].nid # 0
      PROVE  /\ Mapped(head[inode[i].bh].blk)
             /\ Iloc(i) = BhTell(inode[i].bh) % Word
  <2>. DEFINE B == BhTell(inode[i].bh)
              P == Pos(opt.meta)
              x == inode[i].nid * Slot
  <2>1. Mapped(head[inode[i].bh].blk) /\ B \in Nat /\ x = (B - P) + Word
    BY <1>1, SamePlace
  <2>2. P \in Nat /\ Word \in Nat \ {0}
    BY <1>1, MetaFacts
  <2>3. Iloc(i) = (P + x) % Word
    BY DEF Iloc, Slot
  <2>. HIDE DEF B, P, x
  <2>. DEFINE q == B \div Word
              r == B % Word
  <2>4. q \in Int /\ r \in 0..(Word - 1) /\ B = Word * q + r
    BY <2>1, <2>2
  <2>. HIDE DEF q, r
  <2>. DEFINE y == P + x
  <2>5. y \in Int /\ y = B + Word
    BY <2>1, <2>2
  <2>. HIDE DEF y
  <2>6. y = Word * (q + 1) + r /\ q + 1 \in Int
    BY <2>1, <2>2, <2>4, <2>5
  <2>7. y % Word = r
    BY <2>2, <2>4, <2>5, <2>6, DivUnique
  <2>8. Iloc(i) = r
    BY <2>3, <2>7 DEF y
  <2>. QED
    BY <2>1, <2>8 DEF r, B
<1>2. InodeInv => NumberLocates
  BY <1>1 DEF NumberLocates
<1>. QED
  BY <1>2, InodeInvHolds, PTL

\* What lies in a block that ends before another begins, lies before what lies in that one.
LEMMA RoomBefore ==
  ASSUME NEW a \in Nat, NEW n \in Nat, NEW b \in Nat, NEW o \in Nat, NEW u \in Nat,
         NEW p \in Nat, o < u, u <= BlkSz * n, a + n <= b
  PROVE  a * BlkSz + o < b * BlkSz + p
<1>1. BlkSz \in Nat /\ (a + n) * BlkSz <= b * BlkSz
  <2>1. a + n \in Nat
    OBVIOUS
  <2>. QED
    BY <2>1, Times, BlkSzAssumption
<1>2. (a + n) * BlkSz = a * BlkSz + BlkSz * n
  BY <1>1
<1>. DEFINE s == a * BlkSz
            t == BlkSz * n
            w == b * BlkSz
<1>3. s \in Nat /\ t \in Nat /\ w \in Nat /\ s + t <= w /\ u <= t
  BY <1>1, <1>2
<1>4. s + o < w + p
  <2>. HIDE DEF s, t, w
  <2>. QED
    BY <1>3
<1>. QED
  BY <1>4

\* ErofsLookupNid never gives two inodes the same number: their heads are Battach's, whose
\* cells no other such head shares, and blocks never overlap in the image, so no two heads
\* begin at the same place; and the subtraction wraps exactly once, so equal numbers would
\* be equal places.
THEOREM InodeNumbersDiffer == InodeSpec => []NumbersDiffer
<1>1. ASSUME InodeInv, NEW i \in Ino, NEW j \in Ino, i # j, inode[i].nid # 0,
             inode[i].nid = inode[j].nid
      PROVE  FALSE
  <2>1. PICK g \in BufHead, h \in BufHead :
          /\ g = inode[i].bh /\ h = inode[j].bh /\ g # h
          /\ BhTell(g) = BhTell(h)
          /\ head[g].st = "live" /\ head[g].by = "attach" /\ head[g].len = Slot
          /\ head[h].st = "live" /\ head[h].by = "attach" /\ head[h].len = Slot
          /\ Mapped(head[g].blk) /\ Mapped(head[h].blk)
    <3>. DEFINE P == Pos(opt.meta)
                x == inode[i].nid * Slot
                B == BhTell(inode[i].bh)
                C == BhTell(inode[j].bh)
    <3>1. x = (B - P) + Word /\ x = (C - P) + Word /\ B \in Nat /\ C \in Nat
      BY <1>1, SamePlace
    <3>2. P \in Nat /\ Word \in Nat
      BY <1>1, MetaFacts
    <3>3. B = C
      <4>. HIDE DEF P, x, B, C
      <4>. QED
        BY <3>1, <3>2
    <3>. HIDE DEF P, x
    <3>4. inode[i].bh \in BufHead /\ inode[j].bh \in BufHead /\ inode[i].bh # NIL
      BY <1>1, SamePlace, PoolAssumption
    <3>5. inode[i].bh # inode[j].bh
      BY <1>1, <3>4 DEF InodeInv, PlacesInv, OwnSlots
    <3>. QED
      BY <1>1, <3>3, <3>4, <3>5, SamePlace
  <2>2. RingIInv /\ ExtentsDisjoint /\ AttachedCellsPrivate /\ Slot \in Nat \ {0}
    BY <1>1, MetaFacts DEF InodeInv, PlacesInv, ManagerInv, LayoutInv, CellInv
  <2>3. PICK b \in Block, c \in Block :
          /\ b = head[g].blk /\ c = head[h].blk
          /\ blk[b].addr \in Nat /\ blk[c].addr \in Nat
          /\ blk[b].off \in Nat /\ blk[c].off \in Nat
          /\ head[g].off \in Nat /\ head[h].off \in Nat
    BY <2>1, <2>2, HeldBlock
  <2>. DEFINE o == head[g].off
              p == head[h].off
              u == blk[b].off
              v == blk[c].off
              a == blk[b].addr
              d == blk[c].addr
  <2>4. a * BlkSz + o = d * BlkSz + p
    BY <2>1, <2>3 DEF BhTell, Pos
  <2>5. o + Slot <= u /\ p + Slot <= v
    BY <2>1, <2>2, <2>3 DEF AttachedCellsPrivate, Attached, Hi
  <2>6. b # c \/ o + Slot <= p \/ p + Slot <= o
    BY <2>1, <2>2, <2>3 DEF AttachedCellsPrivate, Attached, Apart, Hi, Lo
  <2>7. CASE b = c
    <3>1. a = d /\ a * BlkSz \in Nat
      BY <2>3, <2>7, BlkSzAssumption
    <3>. DEFINE s == a * BlkSz
    <3>2. s \in Nat /\ s + o = s + p /\ (o + Slot <= p \/ p + Slot <= o)
      BY <2>4, <2>6, <2>7, <3>1
    <3>. HIDE DEF s, a, d, o, p
    <3>3. o \in Nat /\ p \in Nat
      BY <2>3 DEF o, p
    <3>. QED
      BY <2>2, <3>2, <3>3
  <2>8. CASE b # c
    <3>1. /\ NBlk(u) \in Nat /\ u <= BlkSz * NBlk(u)
          /\ NBlk(v) \in Nat /\ v <= BlkSz * NBlk(v)
      BY <2>3, NBlkBounds
    <3>2. Mapped(b) /\ Mapped(c)
      BY <2>1, <2>3
    <3>3. DisjointRuns(a, NBlk(u), d, NBlk(v))
      BY <2>2, <2>3, <2>8, <3>2 DEF ExtentsDisjoint
    <3>. DEFINE n == NBlk(u)
                k == NBlk(v)
    <3>. HIDE DEF n, k
    <3>4. o < u /\ p < v
      BY <2>2, <2>3, <2>5
    <3>5. n = 0 \/ k = 0 \/ a + n <= d \/ d + k <= a
      BY <3>3 DEF DisjointRuns, n, k
    <3>6. n \in Nat /\ k \in Nat /\ u <= BlkSz * n /\ v <= BlkSz * k /\ n # 0 /\ k # 0
      <4>1. n \in Nat /\ k \in Nat /\ u <= BlkSz * n /\ v <= BlkSz * k
        BY <3>1 DEF n, k
      <4>2. n # 0
        <5>1. SUFFICES ASSUME n = 0 PROVE FALSE
          OBVIOUS
        <5>. QED
          BY <2>3, <3>4, <4>1, <5>1, BlkSzAssumption
      <4>3. k # 0
        <5>1. SUFFICES ASSUME k = 0 PROVE FALSE
          OBVIOUS
        <5>. QED
          BY <2>3, <3>4, <4>1, <5>1, BlkSzAssumption
      <4>. QED
        BY <4>1, <4>2, <4>3
    <3>7. a * BlkSz + o < d * BlkSz + p \/ d * BlkSz + p < a * BlkSz + o
      <4>1. CASE a + n <= d
        BY <2>3, <3>4, <3>6, <4>1, RoomBefore
      <4>2. CASE d + k <= a
        BY <2>3, <3>4, <3>6, <4>2, RoomBefore
      <4>. QED
        BY <3>5, <3>6, <4>1, <4>2
    <3>8. a * BlkSz + o \in Nat /\ d * BlkSz + p \in Nat
      BY <2>3, BlkSzAssumption
    <3>. QED
      BY <2>4, <3>7, <3>8
  <2>. QED
    BY <2>7, <2>8
<1>2. InodeInv => NumbersDiffer
  BY <1>1 DEF NumbersDiffer
<1>. QED
  BY <1>2, InodeInvHolds, PTL

\* The blocks of an inode's data, which erofsAllocateInodeBhData (inode1.go) takes from
\* MapBh's word alone, stay inside the room of one buffer block and before the tail.
THEOREM InodeDataInside == InodeSpec => []DataInsideImage
<1>1. ASSUME InodeInv, NEW i \in Ino, inode[i].n > 0
      PROVE  LET b == head[inode[i].bhData].blk IN
             /\ RoomOf(b).at = inode[i].addr
             /\ inode[i].n <= RoomOf(b).n
             /\ inode[i].addr + inode[i].n <= tail
  <2>1. /\ RingIInv /\ InodeTypeOK /\ ExtentsDisjoint /\ HasData(i)
    BY <1>1 DEF InodeInv, PlacesInv, ManagerInv, LayoutInv, Sound1
  <2>2. PICK b \in Block :
          /\ b = head[inode[i].bhData].blk /\ Mapped(b) /\ blk[b].addr \in Nat
          /\ blk[b].off \in Nat /\ inode[i].addr = blk[b].addr
          /\ inode[i].n * BlkSz <= blk[b].off
    BY <1>1, <2>1, HeldBlock DEF HasData
  <2>. DEFINE u == blk[b].off
              k == NBlk(u)
              n == inode[i].n
              a == blk[b].addr
  <2>3. k \in Nat /\ u <= BlkSz * k
    BY <2>2, NBlkBounds
  <2>4. n \in Nat /\ tail \in Nat /\ BlkSz \in Nat \ {0} /\ u \in Nat /\ a \in Nat
        /\ n * BlkSz <= u
    BY <2>1, <2>2, InodeFacts DEF RingIInv, TypeOK
  <2>5. a + k <= tail
    BY <2>1, <2>2 DEF ExtentsDisjoint, EndBlk
  <2>6. RoomOf(b).at = a /\ RoomOf(b).n = k
    BY <2>2 DEF RoomOf
  <2>. HIDE DEF u, k, n, a
  <2>7. n <= k
    <3>1. SUFFICES ASSUME k + 1 <= n PROVE FALSE
      BY <2>3, <2>4
    <3>2. (k + 1) * BlkSz <= n * BlkSz
      <4>1. k + 1 \in Nat
        BY <2>3
      <4>. QED
        BY <2>4, <3>1, <4>1, Times
    <3>3. (k + 1) * BlkSz = BlkSz * k + BlkSz
      BY <2>3, <2>4
    <3>. DEFINE x == BlkSz * k
                y == n * BlkSz
    <3>4. x \in Nat /\ y \in Nat /\ x + BlkSz <= y /\ y <= u /\ u <= x
      BY <2>3, <2>4, <3>2, <3>3
    <3>. HIDE DEF x, y
    <3>. QED
      BY <2>4, <3>4
  <2>8. a + n <= tail
    BY <2>3, <2>4, <2>5, <2>7
  <2>. QED
    BY <2>2, <2>6, <2>7, <2>8 DEF a, n
<1>2. InodeInv => DataInsideImage
  BY <1>1 DEF DataInsideImage
<1>. QED
  BY <1>2, InodeInvHolds, PTL

\* ErofsInsertIhash and ErofsIput (inode1.go) keep every bucket of inodeHashtable a well
\* linked ring of exactly the inodes that are filled and not released, in whatever order
\* they come and go.
THEOREM HashBuckets == InodeSpec => []HashRings
<1>1. InodeInv => HashRings
  BY DEF InodeInv, HashInv
<1>. QED
  BY <1>1, InodeInvHolds, PTL
=============================================================================
