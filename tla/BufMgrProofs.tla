---------------------------- MODULE BufMgrProofs ----------------------------
(***************************************************************************)
(* What holds of the buffer manager for every pool of blocks and heads,    *)
(* every block size and every set of requests.                             *)
(***************************************************************************)
EXTENDS BufMgr, Lemmas

Node == Block \cup BufHead

\* The constants are what the client and the allocator use them for.
LEMMA Alignment ==
  ASSUME NEW t \in BufType
  PROVE  AlignOf(t) \in Nat \ {0} /\ BlkSz % AlignOf(t) = 0
<1>1. BlkSz \in Nat \ {0} /\ BlkSz % BlkSz = 0 /\ BlkSz % 1 = 0
  BY BlkSzAssumption
<1>2. ASSUME NEW u \in {"INODE", "XATTR", "DEVT"}
      PROVE  SlotSize[u] \in Nat \ {0} /\ BlkSz % SlotSize[u] = 0
  BY SizeAssumption
<1>3. CASE t \in {"DATA", "DIRA"}
  BY <1>1, <1>3 DEF AlignOf
<1>4. CASE t = "META"
  BY <1>1, <1>4 DEF AlignOf
<1>5. CASE t \in {"INODE", "XATTR", "DEVT"}
  BY <1>2, <1>5 DEF AlignOf
<1>. QED
  BY <1>3, <1>4, <1>5 DEF BufType

\* GetAlignSize maps every buffer type to DATA or META.
LEMMA KindTyped == ASSUME NEW t \in BufType PROVE KindOf(t) \in Kind
  BY DEF KindOf, Kind

\* A block of the ring has a position in it.
LEMMA IndexOf ==
  ASSUME NEW S, NEW s \in Seq(S), NEW b \in Range(s)
  PROVE  /\ (CHOOSE i \in 1..Len(s) : s[i] = b) \in 1..Len(s)
         /\ s[CHOOSE i \in 1..Len(s) : s[i] = b] = b
<1>1. \E i \in 1..Len(s) : s[i] = b
  BY DEF Range
<1>. QED
  BY <1>1

Distinct == \A i, j \in 1..Len(blks) : i < j => blks[i] # blks[j]

\* The position is unique, so the walk over the ring goes from i to i + 1.
LEMMA NextOf ==
  ASSUME blks \in Seq(Block), Distinct, NEW i \in 1..Len(blks)
  PROVE  /\ Index(blks[i]) = i
         /\ NextBlk(blks[i]) = IF i = Len(blks) THEN BlkH ELSE blks[i + 1]
<1>1. InRing(blks[i])
  BY DEF InRing, Range
<1>2. Index(blks[i]) \in 1..Len(blks) /\ blks[Index(blks[i])] = blks[i]
  BY <1>1, IndexOf DEF Index, InRing
<1>3. Index(blks[i]) = i
  BY <1>2 DEF Distinct
<1>4. blks[i] # BlkH
  BY PoolAssumption
<1>. QED
  BY <1>3, <1>4 DEF NextBlk, Place

\* BlkH.List.Next is the first block of the list, or BlkH again.
LEMMA FirstOf ==
  ASSUME blks \in Seq(Block)
  PROVE  NextBlk(BlkH) = IF blks = <<>> THEN BlkH ELSE blks[1]
  BY DEF NextBlk, Place
----------------------------------------------------------------------------
(***************************************************************************)
(* The types and the ring, together: a walk is well typed only as long as  *)
(* the block it stands at is in the ring.                                  *)
(***************************************************************************)

RingIInv == TypeOK /\ RingInv /\ NoMapBug

\* The records that TypeOK gives blocks and heads.
BlkRec  == [kind : Kind \cup {"none"}, addr : Address, off : Nat, bkt : Nat \cup {NIL}]
HeadRec == [st : {"free", "live", "gone"}, blk : Block \cup {NIL}, off : Nat,
            op : Op \cup {"nil"}, by : {"none", "balloc", "attach", "balloon"}, len : Nat]

\* What a step does to the ring when it neither inserts, removes, maps nor
\* moves a walk.
RingStutter ==
  /\ UNCHANGED <<blks, last, call>>
  /\ \A b \in Block : blk'[b].addr = blk[b].addr /\ blk'[b].kind = blk[b].kind

\* A step that moves no block, maps none and calls nothing new keeps the ring, as long as
\* the heads it creates belong to blocks of the ring.
LEMMA RingStutterKeeps ==
  ASSUME TypeOK, RingInv, RingStutter,
         \A h \in BufHead : head'[h].st = "live" =>
           \/ head[h].st = "live" /\ head'[h].blk = head[h].blk
           \/ head'[h].blk \in Block /\ InRing(head'[h].blk)
  PROVE  RingInv'
<1>0. \A i \in 1..Len(blks) : /\ blks[i] \in Block
                              /\ blk'[blks[i]].addr = blk[blks[i]].addr
  BY DEF TypeOK, RingStutter
<1>1. MappedFirst'
  <2>1. \A i, j \in 1..Len(blks) :
          i < j => blks[i] # blks[j] /\ (Mapped(blks[j])' => Mapped(blks[i])')
    BY <1>0 DEF RingInv, MappedFirst, RingStutter, Mapped
  <2>2. last \in Block =>
          \E i \in 1..Len(blks) :
            /\ blks[i] = last /\ Mapped(last)'
            /\ \A j \in (i + 1)..Len(blks) : ~Mapped(blks[j])'
    <3>1. SUFFICES ASSUME last \in Block
                   PROVE  \E i \in 1..Len(blks) :
                            /\ blks[i] = last /\ Mapped(last)'
                            /\ \A j \in (i + 1)..Len(blks) : ~Mapped(blks[j])'
      OBVIOUS
    <3>2. PICK i \in 1..Len(blks) :
            /\ blks[i] = last /\ Mapped(last)
            /\ \A j \in (i + 1)..Len(blks) : ~Mapped(blks[j])
      BY <3>1 DEF RingInv, MappedFirst
    <3>3. \A j \in (i + 1)..Len(blks) : j \in 1..Len(blks)
      BY DEF TypeOK
    <3>. QED
      BY <1>0, <3>1, <3>2, <3>3 DEF RingStutter, Mapped
  <2>3. last = BlkH => \A i \in 1..Len(blks) : ~Mapped(blks[i])'
    BY <1>0 DEF RingInv, MappedFirst, RingStutter, Mapped
  <2>. QED
    BY <2>1, <2>2, <2>3 DEF MappedFirst, RingStutter, Mapped
<1>2. WalkOK'
  <2>1. CASE call.fn = "flush"
    <3>1. PICK i \in 1..Len(blks) :
            /\ blks[i] = call.p
            /\ \A j \in 1..(i - 1) : Mapped(blks[j])
            /\ call.at # "block" =>
                 /\ Mapped(call.p)
                 /\ \/ call.n = NIL /\ i = Len(blks)
                    \/ i < Len(blks) /\ call.n = blks[i + 1]
      BY <2>1 DEF RingInv, WalkOK
    <3>2. \A j \in 1..(i - 1) : j \in 1..Len(blks)
      BY DEF TypeOK
    <3>3. \A j \in 1..(i - 1) : Mapped(blks[j])'
      BY <1>0, <3>1, <3>2 DEF RingStutter, Mapped
    <3>4. Mapped(call.p) => Mapped(call.p)'
      BY <1>0, <3>1 DEF RingStutter, Mapped
    <3>. QED
      BY <2>1, <3>1, <3>3, <3>4 DEF WalkOK, RingStutter, Mapped
  <2>2. CASE call.fn # "flush"
    BY <2>2 DEF TypeOK, RingInv, WalkOK, RingStutter
  <2>. QED
    BY <2>1, <2>2
<1>3. OwnersOK'
  BY DEF TypeOK, RingInv, OwnersOK, RingStutter, InRing
<1>. QED
  BY <1>1, <1>2, <1>3 DEF RingInv

\* What ErofsBufferInit builds satisfies the invariant.
LEMMA InitRing == Init => RingIInv
<1>. SUFFICES ASSUME Init PROVE RingIInv
  OBVIOUS
<1>1. TypeOK
  BY SizeAssumption
  DEF Init, TypeOK, NoBlocks, NoHeads, NoLinks, NoBlock, NoHead, NoFill, Unlinked,
      Heaps, Calls, Idle, Address
<1>2. RingInv
  BY PoolAssumption
  DEF Init, RingInv, MappedFirst, WalkOK, OwnersOK, InRing, Range, Idle, NoHeads, NoHead
<1>. QED
  BY <1>1, <1>2 DEF RingIInv, NoMapBug, Init

\* A process that has died has no ring left to break, and a new one has none yet.
LEMMA DieKeepsRing ==
  ASSUME NEW how \in {"run", "panic", "hang"}, Die(how)
  PROVE  RingIInv'
<1>1. TypeOK'
  BY SizeAssumption
  DEF Die, Quiet, TypeOK, NoBlocks, NoHeads, NoLinks, NoBlock, NoHead, NoFill, Unlinked,
      Heaps, Calls, Idle, Address
<1>2. RingInv'
  BY PoolAssumption
  DEF Die, RingInv, MappedFirst, WalkOK, OwnersOK, InRing, Range, Idle, NoHeads, NoHead
<1>. QED
  BY <1>1, <1>2 DEF RingIInv, NoMapBug, Die

\* A step that ends no flush and fills nothing leaves well-typed results.
LEMMA QuietTyped == Quiet => ret' \in {"none", "0", "-EBUSY"} /\ fill' \in [lo : Nat, hi : Nat]
  BY DEF Quiet, NoFill

\* An error return changes nothing.
LEMMA RefuseKeepsRing ==
  ASSUME RingIInv, Refuse
  PROVE  RingIInv'
<1>1. TypeOK'
  BY QuietTyped DEF RingIInv, TypeOK, Refuse
<1>2. RingInv'
  <2>1. RingStutter
    BY DEF RingStutter, Refuse
  <2>2. head' = head
    BY DEF Refuse
  <2>. QED
    BY <2>1, <2>2, RingStutterKeeps DEF RingIInv
<1>. QED
  BY <1>1, <1>2 DEF RingIInv, NoMapBug, Refuse

\* Setting a head's operations touches neither the ring nor the walks.
LEMMA SetOpKeepsRing ==
  ASSUME RingIInv, NEW bh \in BufHead, NEW op \in Op, SetOp(bh, op)
  PROVE  RingIInv'
<1>1. TypeOK'
  <2>1. op \in Op
    OBVIOUS
  <2>2. head' \in [BufHead -> HeadRec]
    <3>1. head \in [BufHead -> HeadRec]
      BY DEF RingIInv, TypeOK, HeadRec
    <3>2. [head[bh] EXCEPT !.op = op] \in HeadRec
      BY <2>1, <3>1 DEF HeadRec
    <3>3. head' = [head EXCEPT ![bh] = [head[bh] EXCEPT !.op = op]]
      BY DEF SetOp
    <3>. QED
      BY <3>1, <3>2, <3>3
  <2>. QED
    BY <2>2, QuietTyped DEF RingIInv, TypeOK, SetOp, HeadRec
<1>2. RingInv'
  <2>1. RingStutter
    BY DEF RingStutter, SetOp
  <2>2. \A h \in BufHead : head'[h].st = head[h].st /\ head'[h].blk = head[h].blk
    BY DEF SetOp, RingIInv, TypeOK
  <2>. QED
    BY <2>1, <2>2, RingStutterKeeps DEF RingIInv
<1>. QED
  BY <1>1, <1>2 DEF RingIInv, NoMapBug, SetOp

\* BattachInternal changes where a block ends, not where it is.
LEMMA AttachKeepsRing ==
  ASSUME RingIInv, NEW b \in Block, InRing(b), NEW h \in BufHead,
         NEW incr \in Nat, NEW align \in Nat \ {0},
         NEW op \in Op \cup {"nil"}, NEW by \in {"attach", "balloon"},
         Attach(b, h, incr, align, op, by)
  PROVE  RingIInv'
<1>. DEFINE at == RoundUp(blk[b].off, align)
            off == at + incr
<1>1. at \in Nat /\ off \in Nat
  <2>1. blk[b].off \in Nat
    BY DEF RingIInv, TypeOK
  <2>2. at \in Nat
    BY <2>1, RoundUpBounds
  <2>. QED
    BY <2>2
<1>2. NBlk(off) \in Nat /\ Bucket(off) \in Nat
  <2>1. NBlk(off) \in Nat
    BY <1>1, NBlkBounds
  <2>2. off % BlkSz \in Nat
    BY <1>1, BlkSzAssumption
  <2>. QED
    BY <2>1, <2>2 DEF Bucket
<1>. HIDE DEF at, off
<1>3. heap' \in Heaps(Node)
  BY AddTailTyped DEF RingIInv, TypeOK, Attach, Node
<1>4. head' = [head EXCEPT ![h] = [st |-> "live", blk |-> b, off |-> at, op |-> op,
                                   by |-> by, len |-> incr]]
  BY DEF Attach, at
<1>5. blk' = [blk EXCEPT ![b].off = off,
                         ![b].bkt = IF Mapped(b) THEN Bucket(off) ELSE @]
  BY DEF Attach, at, off
<1>6. tail' \in Nat
  <2>1. Mapped(b) => blk[b].addr \in Nat
    BY DEF RingIInv, TypeOK, Mapped, Address
  <2>2. CASE TailUpdate(b, incr, align)
    <3>1. tail' = blk[b].addr + NBlk(off)
      BY <2>2 DEF Attach, at, off
    <3>. QED
      BY <1>2, <2>1, <2>2, <3>1 DEF TailUpdate
  <2>3. CASE ~TailUpdate(b, incr, align)
    BY <2>3 DEF Attach, RingIInv, TypeOK
  <2>. QED
    BY <2>2, <2>3
<1>7. TypeOK'
  <2>1. blk' \in [Block -> BlkRec]
    <3>1. blk \in [Block -> BlkRec]
      BY DEF RingIInv, TypeOK, BlkRec
    <3>2. CASE Mapped(b)
      <4>1. blk' = [blk EXCEPT ![b].off = off, ![b].bkt = Bucket(off)]
        BY <1>5, <3>2
      <4>. QED
        BY <1>1, <1>2, <3>1, <4>1 DEF BlkRec
    <3>3. CASE ~Mapped(b)
      <4>1. blk' = [blk EXCEPT ![b].off = off]
        BY <1>5, <3>1, <3>3 DEF BlkRec
      <4>. QED
        BY <1>1, <3>1, <4>1 DEF BlkRec
    <3>. QED
      BY <3>2, <3>3
  <2>2. head' \in [BufHead -> HeadRec]
    <3>1. head \in [BufHead -> HeadRec]
      BY DEF RingIInv, TypeOK, HeadRec
    <3>2. [st |-> "live", blk |-> b, off |-> at, op |-> op,
           by |-> by, len |-> incr] \in HeadRec
      BY <1>1 DEF HeadRec
    <3>. QED
      BY <1>4, <3>1, <3>2
  <2>. QED
    BY <1>3, <1>6, <2>1, <2>2, QuietTyped
    DEF RingIInv, TypeOK, Attach, Node, BlkRec, HeadRec
<1>8. RingInv'
  <2>1. RingStutter
    BY <1>5 DEF RingIInv, TypeOK, Attach, RingStutter
  <2>2. \A g \in BufHead : head'[g].st = "live" =>
           \/ head[g].st = "live" /\ head'[g].blk = head[g].blk
           \/ head'[g].blk \in Block /\ InRing(head'[g].blk)
    BY <1>4 DEF RingIInv, TypeOK
  <2>. QED
    BY <2>1, <2>2, RingStutterKeeps DEF RingIInv
<1>. QED
  BY <1>7, <1>8 DEF RingIInv, NoMapBug, Attach
----------------------------------------------------------------------------
(***************************************************************************)
(* Mapping: the block that is mapped is the first that is not.             *)
(***************************************************************************)

\* Bucket and block count of a block are natural numbers.
LEMMA BlockNats ==
  ASSUME TypeOK, NEW b \in Block
  PROVE  /\ blk[b] \in BlkRec /\ NBlk(blk[b].off) \in Nat /\ Bucket(blk[b].off) \in Nat
         /\ Mapped(b) => blk[b].addr \in Nat /\ EndBlk(b) \in Nat
         /\ ~Mapped(b) => blk[b].addr = NULL_ADDR
<1>1. blk[b] \in BlkRec /\ blk[b].off \in Nat
  BY DEF TypeOK, BlkRec
<1>2. NBlk(blk[b].off) \in Nat
  BY <1>1, NBlkBounds
<1>3. Bucket(blk[b].off) \in Nat
  BY <1>1, BlkSzAssumption DEF Bucket
<1>4. Mapped(b) => blk[b].addr \in Nat
  BY <1>1 DEF Mapped, BlkRec, Address
<1>. QED
  BY <1>1, <1>2, <1>3, <1>4 DEF Mapped, EndBlk

\* Mapping the first unmapped block of the ring, or a mapped one again, keeps the mapped
\* blocks first and makes LastMappedBlock the last of them.
LEMMA MapKeeps ==
  ASSUME TypeOK, MappedFirst, NEW i \in 1..Len(blks),
         \A j \in 1..(i - 1) : Mapped(blks[j]),
         MapBhInternal(blks[i]), blks' = blks
  PROVE  /\ blk' \in [Block -> BlkRec] /\ tail' \in Nat /\ last' \in Block \cup {BlkH, JUNK}
         /\ \A c \in Block : blk'[c].kind = blk[c].kind
         /\ MappedFirst'
         /\ \A j \in 1..i : Mapped(blks[j])'
<1>. DEFINE b == blks[i]
<1>1. /\ b \in Block /\ blk \in [Block -> BlkRec] /\ tail \in Nat
      /\ \A j \in 1..Len(blks) : blks[j] \in Block
  BY DEF TypeOK, BlkRec
<1>2. /\ NBlk(blk[b].off) \in Nat /\ Bucket(blk[b].off) \in Nat
      /\ Mapped(b) => blk[b].addr \in Nat
  BY <1>1, BlockNats
<1>3. tail' \in Nat
  BY <1>1, <1>2 DEF MapBhInternal
<1>4. CASE Mapped(b)
  <2>1. blk' = blk /\ last' = last
    <3>1. blk' = [blk EXCEPT ![b].addr = blk[b].addr, ![b].bkt = blk[b].bkt]
      BY <1>1, <1>4 DEF MapBhInternal, BlkRec
    <3>2. last' = last
      BY <1>4 DEF MapBhInternal
    <3>. QED
      BY <1>1, <3>1, <3>2 DEF BlkRec
  <2>2. MappedFirst'
    BY <2>1 DEF MappedFirst, Mapped
  <2>3. \A j \in 1..i : Mapped(blks[j])'
    <3>1. ASSUME NEW j \in 1..i PROVE Mapped(blks[j])
      <4>1. j = i \/ j \in 1..(i - 1)
        BY DEF TypeOK
      <4>. QED
        BY <1>4, <4>1
    <3>. QED
      BY <2>1, <3>1 DEF Mapped
  <2>. QED
    BY <1>1, <1>3, <2>1, <2>2, <2>3 DEF TypeOK
<1>5. CASE ~Mapped(b)
  <2>1. /\ blk' = [blk EXCEPT ![b].addr = tail, ![b].bkt = Bucket(blk[b].off)]
        /\ last' = b
    BY <1>1, <1>5 DEF MapBhInternal, BlkRec
  <2>2. tail \in Address /\ tail # NULL_ADDR
    BY <1>1, SizeAssumption DEF Address
  <2>3. blk' \in [Block -> BlkRec]
    BY <1>1, <1>2, <2>1, <2>2 DEF BlkRec
  <2>4. \A c \in Block : /\ blk'[c].kind = blk[c].kind
                         /\ Mapped(c)' <=> (Mapped(c) \/ c = b)
    BY <1>1, <2>1, <2>2 DEF BlkRec, Mapped
  <2>. HIDE DEF b
  <2>5. \A j \in 1..i : Mapped(blks[j])'
    <3>1. ASSUME NEW j \in 1..i PROVE Mapped(blks[j])'
      <4>1. j \in 1..Len(blks) /\ (j = i \/ j \in 1..(i - 1))
        BY DEF TypeOK
      <4>2. CASE j = i
        BY <1>1, <2>4, <4>2 DEF b
      <4>3. CASE j \in 1..(i - 1)
        BY <1>1, <2>4, <4>1, <4>3
      <4>. QED
        BY <4>1, <4>2, <4>3
    <3>. QED
      BY <3>1
  <2>6. ASSUME NEW j \in 1..Len(blks), NEW k \in 1..Len(blks), j < k
        PROVE  blks[j] # blks[k] /\ (Mapped(blks[k])' => Mapped(blks[j])')
    <3>1. blks[j] # blks[k] /\ (Mapped(blks[k]) => Mapped(blks[j]))
      BY <2>6 DEF MappedFirst
    <3>2. CASE blks[k] = b
      <4>1. ~(k < i) /\ ~(i < k)
        BY <3>2 DEF MappedFirst, b
      <4>2. k = i
        BY <4>1 DEF TypeOK
      <4>3. j \in 1..i
        BY <2>6, <4>2 DEF TypeOK
      <4>. QED
        BY <2>5, <3>1, <4>3
    <3>3. CASE blks[k] # b
      BY <1>1, <2>4, <3>1, <3>3
    <3>. QED
      BY <3>2, <3>3
  <2>7. \E k \in 1..Len(blks) :
          /\ blks[k] = last' /\ Mapped(last)'
          /\ \A j \in (k + 1)..Len(blks) : ~Mapped(blks[j])'
    <3>1. ASSUME NEW j \in (i + 1)..Len(blks)
          PROVE  ~Mapped(blks[j])'
      <4>1. j \in 1..Len(blks) /\ i < j
        BY DEF TypeOK
      <4>2. blks[j] # b /\ ~Mapped(blks[j])
        BY <1>5, <4>1 DEF MappedFirst, b
      <4>. QED
        BY <1>1, <2>4, <4>1, <4>2
    <3>2. blks[i] = last' /\ Mapped(last)'
      BY <1>1, <2>1, <2>4 DEF b, Mapped
    <3>. QED
      BY <3>1, <3>2
  <2>8. MappedFirst'
    BY <1>1, <2>1, <2>6, <2>7, PoolAssumption DEF MappedFirst, Mapped
  <2>. QED
    BY <1>1, <1>3, <2>1, <2>3, <2>4, <2>5, <2>8
<1>. QED
  BY <1>4, <1>5
----------------------------------------------------------------------------
(***************************************************************************)
(* The ring with one block fewer, and with one more.                       *)
(***************************************************************************)

\* Taking a block out of the ring keeps the order of the others; LastMappedBlock is lost
\* when it was that block.
LEMMA RemoveKeeps ==
  ASSUME TypeOK, MappedFirst, NEW i \in 1..Len(blks), blks' = RemoveAt(blks, i),
         last' = IF last = blks[i] THEN JUNK ELSE last,
         \A c \in Block : blk'[c].addr = blk[c].addr
  PROVE  blks' \in Seq(Block) /\ Len(blks') = Len(blks) - 1 /\ MappedFirst'
<1>. DEFINE up(j) == IF j < i THEN j ELSE j + 1
<1>1. blks \in Seq(Block) /\ Len(blks) \in Nat /\ \A j \in 1..Len(blks) : blks[j] \in Block
  BY DEF TypeOK
<1>2. /\ blks' \in Seq(Block) /\ Len(blks') = Len(blks) - 1
      /\ \A j \in 1..(i - 1) : blks'[j] = blks[j]
      /\ \A j \in i..(Len(blks) - 1) : blks'[j] = blks[j + 1]
  BY <1>1, RemoveProps
<1>3. ASSUME NEW j \in 1..Len(blks')
      PROVE  up(j) \in 1..Len(blks) /\ up(j) # i /\ blks'[j] = blks[up(j)]
  <2>1. CASE j < i
    BY <1>1, <1>2, <2>1
  <2>2. CASE ~(j < i)
    BY <1>1, <1>2, <2>2
  <2>. QED
    BY <2>1, <2>2
<1>4. ASSUME NEW j \in 1..Len(blks'), NEW k \in 1..Len(blks'), j < k
      PROVE  up(j) < up(k)
  BY <1>1, <1>2, <1>4
<1>5. ASSUME NEW m \in 1..Len(blks), m # i
      PROVE  \E j \in 1..Len(blks') : up(j) = m
  <2>1. CASE m < i
    <3>1. m \in 1..Len(blks') /\ up(m) = m
      BY <1>1, <1>2, <2>1
    <3>. QED
      BY <3>1
  <2>2. CASE m > i
    <3>1. m - 1 \in 1..Len(blks') /\ up(m - 1) = m
      BY <1>1, <1>2, <2>2
    <3>. QED
      BY <3>1
  <2>3. m < i \/ m > i
    BY <1>1, <1>5
  <2>. QED
    BY <2>1, <2>2, <2>3
<1>6. \A c \in Block : Mapped(c)' <=> Mapped(c)
  BY DEF Mapped
<1>. HIDE DEF up
<1>7. ASSUME NEW j \in 1..Len(blks'), NEW k \in 1..Len(blks'), j < k
      PROVE  blks'[j] # blks'[k] /\ (Mapped(blks[k])' => Mapped(blks[j])')
  <2>1. /\ up(j) \in 1..Len(blks) /\ up(k) \in 1..Len(blks) /\ up(j) < up(k)
        /\ blks'[j] = blks[up(j)] /\ blks'[k] = blks[up(k)]
    BY <1>3, <1>4, <1>7
  <2>2. blks'[j] # blks'[k] /\ (Mapped(blks[up(k)]) => Mapped(blks[up(j)]))
    BY <2>1 DEF MappedFirst
  <2>. QED
    BY <1>1, <1>6, <2>1, <2>2
<1>8. ASSUME last' \in Block
      PROVE  \E k \in 1..Len(blks') :
               /\ blks'[k] = last' /\ Mapped(last)'
               /\ \A j \in (k + 1)..Len(blks') : ~Mapped(blks[j])'
  <2>1. last \in Block /\ last' = last /\ last # blks[i]
    BY <1>8, PoolAssumption
  <2>2. PICK m \in 1..Len(blks) :
          /\ blks[m] = last /\ Mapped(last)
          /\ \A j \in (m + 1)..Len(blks) : ~Mapped(blks[j])
    BY <2>1 DEF MappedFirst
  <2>3. m # i
    BY <2>1, <2>2
  <2>4. PICK k \in 1..Len(blks') : up(k) = m
    BY <1>5, <2>3
  <2>5. blks'[k] = last'
    BY <1>3, <2>1, <2>2, <2>4
  <2>6. Mapped(last)'
    BY <2>1, <2>2 DEF Mapped
  <2>7. ASSUME NEW j \in (k + 1)..Len(blks') PROVE ~Mapped(blks[j])'
    <3>1. j \in 1..Len(blks') /\ k < j
      BY <1>1, <1>2
    <3>2. up(j) \in 1..Len(blks) /\ m < up(j) /\ blks'[j] = blks[up(j)]
      BY <1>3, <1>4, <2>4, <3>1
    <3>3. ~Mapped(blks[up(j)])
      BY <1>1, <2>2, <3>2
    <3>. QED
      BY <1>1, <1>6, <3>2, <3>3
  <2>. QED
    BY <2>5, <2>6, <2>7
<1>9. ASSUME last' = BlkH, NEW j \in 1..Len(blks') PROVE ~Mapped(blks[j])'
  <2>1. last = BlkH
    BY <1>9, PoolAssumption
  <2>2. up(j) \in 1..Len(blks) /\ blks'[j] = blks[up(j)]
    BY <1>3
  <2>. QED
    BY <1>1, <1>6, <2>1, <2>2 DEF MappedFirst
<1>. QED
  BY <1>2, <1>7, <1>8, <1>9 DEF MappedFirst, Mapped

\* An unmapped block may be put anywhere behind the last mapped one.
LEMMA InsertKeeps ==
  ASSUME TypeOK, MappedFirst, NEW i \in 1..(Len(blks) + 1), NEW b \in Block, ~InRing(b),
         \A j \in i..Len(blks) : ~Mapped(blks[j]),
         blks' \in Seq(Block), Len(blks') = Len(blks) + 1, blks'[i] = b,
         \A j \in 1..(i - 1) : blks'[j] = blks[j],
         \A j \in (i + 1)..(Len(blks) + 1) : blks'[j] = blks[j - 1],
         last' = last, ~Mapped(b)',
         \A c \in Block \ {b} : blk'[c].addr = blk[c].addr
  PROVE  MappedFirst'
<1>. DEFINE dn(j) == IF j < i THEN j ELSE j - 1
<1>1. /\ blks \in Seq(Block) /\ Len(blks) \in Nat
      /\ \A j \in 1..Len(blks) : blks[j] \in Block /\ blks[j] # b
  BY DEF TypeOK, InRing, Range
<1>2. ASSUME NEW j \in 1..Len(blks'), j # i
      PROVE  dn(j) \in 1..Len(blks) /\ blks'[j] = blks[dn(j)]
  <2>1. CASE j < i
    BY <1>1, <2>1
  <2>2. CASE ~(j < i)
    <3>1. j \in (i + 1)..(Len(blks) + 1) /\ dn(j) = j - 1 /\ j - 1 \in 1..Len(blks)
      BY <1>1, <1>2, <2>2
    <3>. QED
      BY <3>1
  <2>. QED
    BY <2>1, <2>2
<1>3. ASSUME NEW j \in 1..Len(blks'), NEW k \in 1..Len(blks'), j < k, j # i, k # i
      PROVE  dn(j) < dn(k)
  BY <1>1, <1>3
<1>4. ASSUME NEW j \in 1..Len(blks'), i < j
      PROVE  ~Mapped(blks[dn(j)])
  BY <1>1, <1>4
<1>. HIDE DEF dn
<1>5. \A c \in Block \ {b} : Mapped(c)' <=> Mapped(c)
  BY DEF Mapped
<1>6. ASSUME NEW j \in 1..Len(blks'), NEW k \in 1..Len(blks'), j < k
      PROVE  blks'[j] # blks'[k] /\ (Mapped(blks[k])' => Mapped(blks[j])')
  <2>1. CASE j = i
    <3>1. dn(k) \in 1..Len(blks) /\ blks'[k] = blks[dn(k)] /\ ~Mapped(blks[dn(k)])
      BY <1>1, <1>2, <1>4, <1>6, <2>1
    <3>2. blks'[k] \in Block \ {b} /\ ~Mapped(blks'[k])
      BY <1>1, <3>1
    <3>. QED
      BY <1>5, <2>1, <3>2
  <2>2. CASE k = i
    <3>1. dn(j) \in 1..Len(blks) /\ blks'[j] = blks[dn(j)]
      BY <1>1, <1>2, <1>6, <2>2
    <3>. QED
      BY <1>1, <2>2, <3>1
  <2>3. CASE j # i /\ k # i
    <3>1. /\ dn(j) \in 1..Len(blks) /\ blks'[j] = blks[dn(j)]
          /\ dn(k) \in 1..Len(blks) /\ blks'[k] = blks[dn(k)]
          /\ dn(j) < dn(k)
      BY <1>2, <1>3, <1>6, <2>3
    <3>2. blks'[j] # blks'[k] /\ (Mapped(blks'[k]) => Mapped(blks'[j]))
      BY <3>1 DEF MappedFirst
    <3>3. blks'[j] \in Block \ {b} /\ blks'[k] \in Block \ {b}
      BY <1>1, <3>1
    <3>. QED
      BY <1>5, <3>2, <3>3
  <2>. QED
    BY <2>1, <2>2, <2>3
<1>7. ASSUME last' \in Block
      PROVE  \E k \in 1..Len(blks') :
               /\ blks'[k] = last' /\ Mapped(last)'
               /\ \A j \in (k + 1)..Len(blks') : ~Mapped(blks[j])'
  <2>1. PICK m \in 1..Len(blks) :
          /\ blks[m] = last /\ Mapped(last)
          /\ \A j \in (m + 1)..Len(blks) : ~Mapped(blks[j])
    BY <1>7 DEF MappedFirst
  <2>2. m \in 1..(i - 1)
    BY <1>1, <2>1
  <2>3. m \in 1..Len(blks') /\ blks'[m] = last' /\ Mapped(last)'
    BY <1>1, <1>5, <2>1, <2>2 DEF Mapped
  <2>4. ASSUME NEW j \in (m + 1)..Len(blks') PROVE ~Mapped(blks[j])'
    <3>1. j \in 1..Len(blks') /\ m < j /\ m # i
      BY <1>1, <2>2
    <3>2. CASE j = i
      BY <3>2
    <3>3. CASE j # i
      <4>1. dn(j) \in 1..Len(blks) /\ blks'[j] = blks[dn(j)]
        BY <1>2, <3>1, <3>3
      <4>2. dn(m) = m
        BY <2>2 DEF dn
      <4>3. m < dn(j)
        BY <1>3, <2>3, <3>1, <3>3, <4>2
      <4>4. ~Mapped(blks[dn(j)])
        BY <1>1, <2>1, <4>1, <4>3
      <4>5. blks[dn(j)] \in Block \ {b}
        BY <1>1, <4>1
      <4>. QED
        BY <1>5, <4>1, <4>4, <4>5
    <3>. QED
      BY <3>2, <3>3
  <2>. QED
    BY <2>3, <2>4
<1>8. ASSUME last' = BlkH, NEW j \in 1..Len(blks') PROVE ~Mapped(blks[j])'
  <2>1. CASE j = i
    BY <2>1
  <2>2. CASE j # i
    <3>1. dn(j) \in 1..Len(blks) /\ blks'[j] = blks[dn(j)]
      BY <1>2, <2>2
    <3>2. ~Mapped(blks[dn(j)])
      BY <1>8, <3>1 DEF MappedFirst
    <3>3. blks[dn(j)] \in Block \ {b}
      BY <1>1, <3>1
    <3>. QED
      BY <1>5, <3>1, <3>2, <3>3
  <2>. QED
    BY <2>1, <2>2
<1>. QED
  BY <1>6, <1>7, <1>8 DEF MappedFirst, Mapped
----------------------------------------------------------------------------
(***************************************************************************)
(* One lemma per action.                                                   *)
(***************************************************************************)

\* Battach either refuses or attaches to a block of the ring.
LEMMA BattachKeepsRing ==
  ASSUME RingIInv, NEW bh \in BufHead, NEW new \in BufHead, NEW t \in BufType,
         NEW size \in Nat, Battach(bh, new, t, size)
  PROVE  RingIInv'
<1>1. CASE Refuse
  BY <1>1, RefuseKeepsRing
<1>2. CASE Attach(head[bh].blk, new, size, AlignOf(t), "nil", "attach")
  <2>1. Usable(bh)
    BY DEF Battach
  <2>2. head[bh].blk \in Block /\ InRing(head[bh].blk)
    BY <2>1 DEF Usable, RingIInv, RingInv, OwnersOK
  <2>3. size \in Nat /\ AlignOf(t) \in Nat \ {0}
    BY Alignment
  <2>. QED
    BY <1>2, <2>2, <2>3, AttachKeepsRing
<1>. QED
  BY <1>1, <1>2 DEF Battach

\* BhBalloon either refuses or attaches a head to its own block again.
LEMMA BhBalloonKeepsRing ==
  ASSUME RingIInv, NEW bh \in BufHead, NEW incr \in Nat, BhBalloon(bh, incr)
  PROVE  RingIInv'
<1>1. CASE Refuse
  BY <1>1, RefuseKeepsRing
<1>2. CASE Attach(head[bh].blk, bh, incr, 1, head[bh].op, "balloon")
  <2>1. Usable(bh)
    BY DEF BhBalloon
  <2>2. head[bh].blk \in Block /\ InRing(head[bh].blk)
    BY <2>1 DEF Usable, RingIInv, RingInv, OwnersOK
  <2>3. incr \in Nat /\ head[bh].op \in Op \cup {"nil"} /\ 1 \in Nat \ {0}
    BY DEF RingIInv, TypeOK
  <2>. QED
    BY <1>2, <2>2, <2>3, AttachKeepsRing
<1>. QED
  BY <1>1, <1>2 DEF BhBalloon

\* MapBh starts its walk at LastMappedBlock.
LEMMA MapBhKeepsRing ==
  ASSUME RingIInv, NEW want \in Block \cup {NIL}, MapBh(want)
  PROVE  RingIInv'
<1>1. call' = Idle \/ call' = [fn |-> "map", t |-> last, want |-> want]
  BY DEF MapBh
<1>2. call' \in Calls
  BY <1>1 DEF RingIInv, TypeOK, Calls, Idle
<1>3. TypeOK'
  BY <1>2, QuietTyped DEF MapBh, RingIInv, TypeOK
<1>4. WalkOK'
  BY <1>1 DEF MapBh, WalkOK, Idle
<1>5. MappedFirst' /\ OwnersOK'
  BY DEF MapBh, RingIInv, RingInv, MappedFirst, OwnersOK, Mapped, InRing
<1>. QED
  BY <1>3, <1>4, <1>5 DEF RingIInv, RingInv, NoMapBug, MapBh

\* MapBh's walk starts behind the last mapped block, so the assertion on the
\* block it comes to cannot fail.
LEMMA MapStepKeepsRing ==
  ASSUME RingIInv, MapStep
  PROVE  RingIInv'
<1>1. /\ call \in [fn : {"map"}, t : Block \cup {BlkH, JUNK}, want : Block \cup {NIL}]
      /\ call.t = last /\ last \in Block \cup {BlkH, JUNK}
  BY DEF MapStep, RingIInv, TypeOK, Calls, Idle, RingInv, WalkOK
<1>2. CASE Die("panic")
  BY <1>2, DieKeepsRing
<1>3. CASE /\ call' = Idle /\ Quiet
           /\ UNCHANGED <<blks, blk, head, heap, tail, metaCnt, last, status>>
  <2>1. TypeOK'
    BY <1>3, QuietTyped DEF RingIInv, TypeOK, Calls
  <2>2. WalkOK'
    BY <1>3 DEF WalkOK, Idle
  <2>3. MappedFirst' /\ OwnersOK'
    BY <1>3 DEF RingIInv, RingInv, MappedFirst, OwnersOK, Mapped, InRing
  <2>. QED
    BY <1>3, <2>1, <2>2, <2>3 DEF RingIInv, RingInv, NoMapBug
<1>4. CASE /\ call.t # JUNK /\ NextBlk(call.t) # BlkH
           /\ ~(call.t = JUNK /\ Die("panic"))
  <2>0. /\ blks \in Seq(Block) /\ Distinct /\ Len(blks) \in Nat
        /\ TypeOK /\ MappedFirst
    BY DEF RingIInv, TypeOK, RingInv, MappedFirst, Distinct
  <2>1. PICK i \in 1..Len(blks) :
          /\ NextBlk(last) = blks[i] /\ ~Mapped(blks[i])
          /\ \A j \in 1..(i - 1) : Mapped(blks[j])
    <3>1. CASE last = BlkH
      <4>1. blks # <<>> /\ NextBlk(last) = blks[1]
        BY <1>1, <1>4, <2>0, <3>1, FirstOf
      <4>2. 1 \in 1..Len(blks) /\ ~Mapped(blks[1])
        BY <2>0, <3>1, <4>1 DEF MappedFirst
      <4>. QED
        BY <4>1, <4>2
    <3>2. CASE last \in Block
      <4>1. PICK i \in 1..Len(blks) :
              /\ blks[i] = last /\ Mapped(last)
              /\ \A j \in (i + 1)..Len(blks) : ~Mapped(blks[j])
        BY <2>0, <3>2 DEF MappedFirst
      <4>2. NextBlk(last) = IF i = Len(blks) THEN BlkH ELSE blks[i + 1]
        BY <2>0, <4>1, NextOf
      <4>3. i # Len(blks) /\ NextBlk(last) = blks[i + 1]
        BY <1>1, <1>4, <4>2
      <4>4. i + 1 \in 1..Len(blks) /\ ~Mapped(blks[i + 1])
        BY <2>0, <4>1, <4>3
      <4>5. ASSUME NEW j \in 1..((i + 1) - 1) PROVE Mapped(blks[j])
        <5>1. j \in 1..Len(blks) /\ (j = i \/ j < i)
          BY <2>0
        <5>. QED
          BY <2>0, <4>1, <5>1 DEF MappedFirst
      <4>. QED
        BY <4>3, <4>4, <4>5
    <3>. QED
      BY <1>1, <1>4, <3>1, <3>2
  <2>. DEFINE t == blks[i]
  <2>2. t \in Block
    BY <2>0
  <2>3. /\ MapBhInternal(t) /\ Quiet
        /\ call' = IF t = call.want THEN Idle ELSE [call EXCEPT !.t = t]
        /\ UNCHANGED <<blks, head, heap, metaCnt, status>>
    BY <1>1, <1>4, <2>1 DEF MapStep
  <2>4. /\ blk' \in [Block -> BlkRec] /\ tail' \in Nat
        /\ \A c \in Block : blk'[c].kind = blk[c].kind
        /\ MappedFirst'
    BY <2>0, <2>1, <2>3, MapKeeps
  <2>5. last' = t
    BY <2>1, <2>3 DEF MapBhInternal
  <2>6. call' \in Calls
    BY <1>1, <2>2, <2>3 DEF Calls, Idle
  <2>7. TypeOK'
    <3>1. last' \in Block \cup {BlkH, JUNK}
      BY <2>2, <2>5
    <3>2. ret' \in {"none", "0", "-EBUSY"} /\ fill' \in [lo : Nat, hi : Nat]
      BY <2>3, QuietTyped
    <3>. QED
      BY <2>3, <2>4, <2>6, <3>1, <3>2 DEF RingIInv, TypeOK, BlkRec
  <2>8. WalkOK'
    BY <1>1, <2>3, <2>5 DEF WalkOK, Idle
  <2>9. OwnersOK'
    BY <2>3, <2>4 DEF RingIInv, RingInv, OwnersOK, InRing
  <2>. QED
    BY <2>3, <2>4, <2>7, <2>8, <2>9 DEF RingIInv, RingInv, NoMapBug
<1>. QED
  BY <1>2, <1>3, <1>4 DEF MapStep

\* What the list is once a block has been put at place k of it.
LEMMA BlockInserted ==
  ASSUME blks \in Seq(Block), NEW k \in 1..(Len(blks) + 1), NEW b \in Block
  PROVE  /\ InsertAt(blks, k, b) \in Seq(Block)
         /\ Len(InsertAt(blks, k, b)) = Len(blks) + 1
         /\ InsertAt(blks, k, b)[k] = b
         /\ \A j \in 1..(k - 1) : InsertAt(blks, k, b)[j] = blks[j]
         /\ \A j \in (k + 1)..(Len(blks) + 1) : InsertAt(blks, k, b)[j] = blks[j - 1]
<1>1. InsertAt(blks, k, b) \in Seq(Block) /\ Len(InsertAt(blks, k, b)) = Len(blks) + 1
  BY InsertProps
<1>2. InsertAt(blks, k, b)[k] = b
  BY InsertProps
<1>3. \A j \in 1..(k - 1) : InsertAt(blks, k, b)[j] = blks[j]
  BY InsertProps
<1>4. \A j \in (k + 1)..(Len(blks) + 1) : InsertAt(blks, k, b)[j] = blks[j - 1]
  BY InsertProps
<1>. QED
  BY <1>1, <1>2, <1>3, <1>4

\* A new block goes where only unmapped blocks follow: behind the last mapped one,
\* or to the end of the list.
LEMMA InsertionPoint ==
  ASSUME RingIInv, NEW b \in Block, NEW t \in BufType,
         ~(KindOf(t) = "DATA" /\ last = JUNK)
  PROVE  \E k \in 1..(Len(blks) + 1) :
           LET ring == Inserted(b, t) IN
           /\ ring \in Seq(Block) /\ Len(ring) = Len(blks) + 1 /\ ring[k] = b
           /\ \A j \in 1..(k - 1) : ring[j] = blks[j]
           /\ \A j \in (k + 1)..(Len(blks) + 1) : ring[j] = blks[j - 1]
           /\ \A j \in k..Len(blks) : ~Mapped(blks[j])
<1>. DEFINE ring == Inserted(b, t)
<1>0. /\ blks \in Seq(Block) /\ Len(blks) \in Nat
      /\ MappedFirst /\ last \in Block \cup {BlkH, JUNK}
  BY DEF RingIInv, TypeOK, RingInv
<1>1. CASE KindOf(t) = "META"
  <2>1. ring = Append(blks, b)
    BY <1>1 DEF Inserted
  <2>2. /\ ring \in Seq(Block) /\ Len(ring) = Len(blks) + 1
        /\ ring[Len(blks) + 1] = b
        /\ \A j \in 1..Len(blks) : ring[j] = blks[j]
    BY <1>0, <2>1, AppendProperties
  <2>. QED
    BY <1>0, <2>2
<1>2. CASE KindOf(t) # "META"
  <2>1. ring = InsertAt(blks, Place(last) + 1, b)
    BY <1>2 DEF Inserted
  <2>2. last \in Block \cup {BlkH}
    BY <1>0, <1>2 DEF KindOf
  <2>3. /\ Place(last) \in 0..Len(blks)
        /\ \A j \in (Place(last) + 1)..Len(blks) : ~Mapped(blks[j])
    <3>1. CASE last = BlkH
      <4>1. Place(last) = 0
        BY <3>1 DEF Place
      <4>. QED
        BY <1>0, <3>1, <4>1 DEF MappedFirst
    <3>2. CASE last \in Block
      <4>1. PICK i \in 1..Len(blks) :
              /\ blks[i] = last
              /\ \A j \in (i + 1)..Len(blks) : ~Mapped(blks[j])
        BY <1>0, <3>2 DEF MappedFirst
      <4>2. Index(last) = i
        <5>1. Distinct
          BY <1>0 DEF MappedFirst, Distinct
        <5>. QED
          BY <1>0, <4>1, <5>1, NextOf
      <4>3. Place(last) = i
        BY <3>2, <4>2, PoolAssumption DEF Place
      <4>. QED
        BY <1>0, <4>1, <4>3
    <3>. QED
      BY <2>2, <3>1, <3>2
  <2>4. Place(last) + 1 \in 1..(Len(blks) + 1)
    BY <1>0, <2>3
  <2>. HIDE DEF ring
  <2>5. PICK k \in 1..(Len(blks) + 1) : k = Place(last) + 1
    BY <2>4
  <2>6. ring = InsertAt(blks, k, b)
    BY <2>1, <2>5
  <2>7. /\ ring \in Seq(Block) /\ Len(ring) = Len(blks) + 1 /\ ring[k] = b
        /\ \A j \in 1..(k - 1) : ring[j] = blks[j]
        /\ \A j \in (k + 1)..(Len(blks) + 1) : ring[j] = blks[j - 1]
    <3>1. blks \in Seq(Block)
      BY <1>0
    <3>2. ASSUME NEW j \in 1..(k - 1) PROVE ring[j] = blks[j]
      BY <2>6, <3>1, BlockInserted
    <3>3. ASSUME NEW j \in (k + 1)..(Len(blks) + 1) PROVE ring[j] = blks[j - 1]
      BY <2>6, <3>1, BlockInserted
    <3>4. ring \in Seq(Block) /\ Len(ring) = Len(blks) + 1 /\ ring[k] = b
      BY <2>6, <3>1, BlockInserted
    <3>. QED
      BY <3>2, <3>3, <3>4
  <2>8. \A j \in k..Len(blks) : ~Mapped(blks[j])
    BY <2>3, <2>5
  <2>. QED
    BY <2>7, <2>8 DEF ring
<1>. QED
  BY <1>1, <1>2

\* Balloc inserts its block behind the mapped ones: DATA behind LastMappedBlock, META at
\* the end.
LEMMA BallocNewKeepsRing ==
  ASSUME RingIInv, NEW b \in Block, NEW h \in BufHead, NEW t \in BufType,
         NEW size \in Nat, NEW req \in Nat, NEW inl \in Nat,
         BallocNew(b, h, t, size, req, inl)
  PROVE  RingIInv'
<1>. DEFINE blk1    == [blk EXCEPT ![b] = NewBlock(KindOf(t))]
            ring    == Inserted(b, t)
            heap1   == InitListHead(heap, b)
            fits(x) == /\ blk1[x].kind = KindOf(t)
                       /\ blk1[x].off >= size + (req + inl) * AlignOf(t)
            first   == CHOOSE i \in 1..Len(ring) :
                         /\ fits(ring[i])
                         /\ \A j \in 1..(i - 1) : ~fits(ring[j])
            bb      == IF \E x \in Range(ring) : fits(x) THEN ring[first] ELSE b
<1>1. CASE KindOf(t) = "DATA" /\ last = JUNK
  <2>1. Die("panic")
    BY <1>1 DEF BallocNew
  <2>. QED
    BY <2>1, DieKeepsRing
<1>2. CASE ~(KindOf(t) = "DATA" /\ last = JUNK)
  <2>0. /\ blks \in Seq(Block) /\ Len(blks) \in Nat /\ blk \in [Block -> BlkRec]
        /\ TypeOK /\ MappedFirst /\ last \in Block \cup {BlkH, JUNK}
    BY DEF RingIInv, TypeOK, RingInv, BlkRec
  <2>1. blk[b].kind = "none" /\ ~InRing(b)
    BY DEF BallocNew, RingIInv, RingInv, OwnersOK, Kind
  <2>2. PICK k \in 1..(Len(blks) + 1) :
          /\ ring \in Seq(Block) /\ Len(ring) = Len(blks) + 1 /\ ring[k] = b
          /\ \A j \in 1..(k - 1) : ring[j] = blks[j]
          /\ \A j \in (k + 1)..(Len(blks) + 1) : ring[j] = blks[j - 1]
          /\ \A j \in k..Len(blks) : ~Mapped(blks[j])
    BY <1>2, InsertionPoint
  <2>3. /\ blks' = ring /\ blk' = blk1
        /\ Quiet /\ UNCHANGED <<tail, metaCnt, last, call, status>>
        /\ \/ heap' = heap1 /\ head' = head
           \/ /\ heap' = ListAddTail(heap1, h, bb)
              /\ head' = [head EXCEPT ![h] = [st |-> "live", blk |-> bb, off |-> size,
                                              op |-> "nil", by |-> "balloc", len |-> size]]
    BY <1>2 DEF BallocNew
  <2>4. /\ blk' \in [Block -> BlkRec] /\ ~Mapped(b)'
        /\ \A c \in Block \ {b} : blk'[c] = blk[c]
        /\ blk'[b].kind # "none"
    <3>1. NewBlock(KindOf(t)) \in BlkRec /\ NewBlock(KindOf(t)).addr = NULL_ADDR
          /\ NewBlock(KindOf(t)).kind # "none"
      BY KindTyped DEF NewBlock, BlkRec, Address, Kind
    <3>. DEFINE nb == NewBlock(KindOf(t))
    <3>2. blk' = [blk EXCEPT ![b] = nb] /\ nb \in BlkRec
      BY <2>3, <3>1
    <3>3. nb.addr = NULL_ADDR /\ nb.kind # "none"
      BY <3>1
    <3>. HIDE DEF nb
    <3>4. /\ blk' \in [Block -> BlkRec] /\ blk'[b] = nb
          /\ \A c \in Block \ {b} : blk'[c] = blk[c]
      BY <2>0, <3>2
    <3>. QED
      BY <3>3, <3>4 DEF Mapped
  <2>5. bb \in Block /\ blk'[bb].kind # "none"
    <3>1. ASSUME \E x \in Range(ring) : fits(x)
          PROVE  bb \in Block /\ fits(bb)
      <4>. DEFINE P(i) == fits(ring[i])
      <4>1. \E i \in 1..Len(ring) : P(i)
        <5>1. PICK x \in Range(ring) : fits(x)
          BY <3>1
        <5>. HIDE DEF ring, fits
        <5>2. PICK i \in DOMAIN ring : ring[i] = x
          BY <5>1 DEF Range
        <5>3. DOMAIN ring = 1..Len(ring)
          BY <2>2
        <5>. QED
          BY <5>1, <5>2, <5>3
      <4>. HIDE DEF fits
      <4>2. \E i \in 1..Len(ring) : P(i) /\ \A j \in 1..(i - 1) : ~P(j)
        <5>. DEFINE D == {i \in 1..Len(ring) : P(i)}
        <5>1. D \in SUBSET Nat /\ D # {}
          BY <4>1
        <5>2. PICK m \in D : \A n \in D : m <= n
          BY <5>1, MinNat
        <5>3. ASSUME NEW j \in 1..(m - 1), P(j) PROVE FALSE
          BY <2>2, <5>2, <5>3
        <5>. QED
          BY <5>2, <5>3
      <4>3. first \in 1..Len(ring) /\ fits(ring[first])
        BY <4>2
      <4>. QED
        BY <2>2, <3>1, <4>3
    <3>2. ASSUME ~\E x \in Range(ring) : fits(x)
          PROVE  bb = b
      BY <3>2
    <3>3. fits(bb) => blk'[bb].kind = KindOf(t)
      BY <2>3
    <3>. QED
      BY <2>4, <3>1, <3>2, <3>3, KindTyped DEF Kind
  <2>. HIDE DEF bb, ring, blk1
  <2>6. heap' \in Heaps(Node)
    <3>1. heap \in Heaps(Node) /\ b \in Node /\ h \in Node /\ bb \in Node
      BY <2>5 DEF RingIInv, TypeOK, Node
    <3>2. heap1 \in Heaps(Node)
      BY <3>1, InitTyped
    <3>. HIDE DEF heap1
    <3>3. ListAddTail(heap1, h, bb) \in Heaps(Node)
      BY <3>1, <3>2, AddTailTyped
    <3>. QED
      BY <2>3, <3>2, <3>3
  <2>7. head' \in [BufHead -> HeadRec]
    <3>1. head \in [BufHead -> HeadRec]
      BY DEF RingIInv, TypeOK, HeadRec
    <3>2. [st |-> "live", blk |-> bb, off |-> size,
           op |-> "nil", by |-> "balloc", len |-> size] \in HeadRec
      BY <2>5, SizeAssumption DEF HeadRec
    <3>. QED
      BY <2>3, <3>1, <3>2
  <2>8. TypeOK'
    BY <2>2, <2>3, <2>4, <2>6, <2>7, QuietTyped
    DEF RingIInv, TypeOK, BlkRec, HeadRec, Node
  <2>9. MappedFirst'
    <3>1. \A c \in Block \ {b} : blk'[c].addr = blk[c].addr
      BY <2>4
    <3>. QED
      BY <2>0, <2>1, <2>2, <2>3, <2>4, <3>1, InsertKeeps
  <2>10. WalkOK'
    BY <2>3 DEF BallocNew, Ready, WalkOK, Idle
  <2>11. OwnersOK'
    <3>1. ASSUME NEW c \in Block, InRing(c)' PROVE blk'[c].kind # "none"
      <4>1. PICK j \in 1..Len(ring) : ring[j] = c
        BY <2>3, <3>1 DEF InRing, Range
      <4>2. c = b \/ \E i \in 1..Len(blks) : blks[i] = c
        <5>1. j < k \/ j = k \/ j > k
          BY <2>2
        <5>2. CASE j < k
          BY <2>0, <2>2, <4>1, <5>2
        <5>3. CASE j > k
          <6>1. j \in (k + 1)..(Len(blks) + 1) /\ j - 1 \in 1..Len(blks)
            BY <2>0, <2>2, <5>3
          <6>. QED
            BY <2>2, <4>1, <6>1
        <5>. QED
          BY <2>2, <4>1, <5>1, <5>2, <5>3
      <4>3. c = b \/ InRing(c)
        BY <2>0, <4>2 DEF InRing, Range
      <4>. QED
        BY <2>4, <4>3 DEF RingIInv, RingInv, OwnersOK
    <3>2. ASSUME NEW g \in BufHead, head'[g].st = "live"
          PROVE  head'[g].blk \in Block /\ blk'[head'[g].blk].kind # "none"
      <4>1. \/ head'[g].blk = bb
            \/ head[g].st = "live" /\ head'[g].blk = head[g].blk
        <5>1. CASE head' = head
          BY <3>2, <5>1
        <5>2. CASE g = h /\ head' # head
          BY <2>3, <5>2 DEF RingIInv, TypeOK
        <5>3. CASE g # h /\ head' # head
          BY <2>3, <3>2, <5>3 DEF RingIInv, TypeOK
        <5>. QED
          BY <5>1, <5>2, <5>3
      <4>2. CASE head'[g].blk = bb
        BY <2>5, <4>2
      <4>3. CASE head[g].st = "live" /\ head'[g].blk = head[g].blk
        <5>1. head[g].blk \in Block /\ blk[head[g].blk].kind # "none"
          BY <4>3 DEF RingIInv, RingInv, OwnersOK
        <5>. QED
          BY <2>4, <4>3, <5>1
      <4>. QED
        BY <4>1, <4>2, <4>3
    <3>. QED
      BY <3>1, <3>2 DEF OwnersOK
  <2>. QED
    BY <2>3, <2>8, <2>9, <2>10, <2>11 DEF RingIInv, RingInv, NoMapBug
<1>. QED
  BY <1>1, <1>2

\* BDrop frees the list entry of a block only when it is empty, and then
\* ErofsBfree leaves the block where it is: the ring never changes.
LEMMA BDropKeepsRing ==
  ASSUME RingIInv, NEW bh \in BufHead, NEW revoke \in BOOLEAN, BDrop(bh, revoke)
  PROVE  RingIInv'
<1>. DEFINE b  == head[bh].blk
            hp == ListDel(heap, bh)
<1>1. CASE ListDelPanics(heap, bh)
  <2>1. Die("panic")
    BY <1>1 DEF BDrop
  <2>. QED
    BY <2>1, DieKeepsRing
<1>2. CASE ~ListDelPanics(heap, bh)
  <2>0. /\ TypeOK /\ blk \in [Block -> BlkRec] /\ head \in [BufHead -> HeadRec]
        /\ Usable(bh) /\ tail \in Nat /\ metaCnt \in Nat
    BY DEF BDrop, RingIInv, TypeOK, BlkRec, HeadRec
  <2>1. b \in Block /\ InRing(b)
    BY <2>0 DEF Usable, RingIInv, RingInv, OwnersOK
  <2>2. /\ head' = [head EXCEPT ![bh].st = "gone", ![bh].op = "drop"]
        /\ heap' = hp /\ Quiet /\ UNCHANGED <<call, status>>
    BY <1>2 DEF BDrop
  <2>3. NBlk(blk[b].off) \in Nat /\ (Mapped(b) => blk[b].addr \in Nat)
    BY <2>0, <2>1, BlockNats
  <2>4. /\ blks' = blks /\ last' = last /\ metaCnt' \in Nat /\ tail' \in Nat
        /\ blk' = blk
    <3>1. CASE ~IsListEmpty(hp, b)
      BY <1>2, <2>0, <3>1 DEF BDrop
    <3>2. CASE IsListEmpty(hp, b)
      <4>1. blks' = blks /\ last' = last
        BY <1>2, <3>2 DEF BDrop, ErofsBfree
      <4>2. blk' = [blk EXCEPT ![b].bkt = blk[b].bkt]
        BY <1>2, <3>2 DEF BDrop, BktAfterFree
      <4>3. blk' = blk
        BY <2>0, <2>1, <4>2 DEF BlkRec
      <4>4. metaCnt' = metaCnt \/ metaCnt' = metaCnt + NBlk(blk[b].off)
        BY <1>2, <3>2 DEF BDrop
      <4>5. tail' = tail \/ (Mapped(b) /\ tail' = blk[b].addr)
        BY <1>2, <3>2 DEF BDrop
      <4>. QED
        BY <2>0, <2>3, <4>1, <4>3, <4>4, <4>5
    <3>. QED
      BY <3>1, <3>2
  <2>5. head' \in [BufHead -> HeadRec]
    <3>1. [head[bh] EXCEPT !.st = "gone", !.op = "drop"] \in HeadRec
      BY <2>0 DEF HeadRec, Op
    <3>2. head' = [head EXCEPT ![bh] = [head[bh] EXCEPT !.st = "gone", !.op = "drop"]]
      BY <2>0, <2>2 DEF HeadRec
    <3>. QED
      BY <2>0, <3>1, <3>2
  <2>6. heap' \in Heaps(Node)
    <3>1. heap \in Heaps(Node) /\ bh \in Node
      BY DEF RingIInv, TypeOK, Node
    <3>. QED
      BY <2>2, <3>1, DelTyped
  <2>7. TypeOK'
    BY <2>2, <2>4, <2>5, <2>6, QuietTyped DEF RingIInv, TypeOK, HeadRec, Node
  <2>8. RingInv'
    <3>1. RingStutter
      BY <2>2, <2>4 DEF RingStutter
    <3>2. \A h \in BufHead : head'[h].st = "live" =>
            head[h].st = "live" /\ head'[h].blk = head[h].blk
      BY <2>0, <2>2 DEF HeadRec
    <3>. QED
      BY <3>1, <3>2, RingStutterKeeps DEF RingIInv
  <2>. QED
    BY <2>2, <2>7, <2>8 DEF RingIInv, NoMapBug
<1>. QED
  BY <1>1, <1>2

\* The calls of ErofsBflush, as TypeOK has them.
FlushCalls == [fn : {"flush"}, at : {"block", "heads", "end"}, stop : Block \cup {NIL},
               p : Block, n : Block \cup {NIL}, bh : Block \cup BufHead \cup {NIL},
               skip : BOOLEAN]

\* The local variables of an ErofsBflush in progress.
LEMMA FlushCallTyped ==
  ASSUME TypeOK, call.fn = "flush"
  PROVE  call \in FlushCalls
  BY DEF TypeOK, Calls, Idle, FlushCalls

\* ErofsBflush starts its walk at the first block.
LEMMA BflushKeepsRing ==
  ASSUME RingIInv, NEW stop \in Block \cup {NIL}, ErofsBflush(stop)
  PROVE  RingIInv'
<1>0. blks \in Seq(Block) /\ call = Idle
  BY DEF RingIInv, TypeOK, ErofsBflush, Ready
<1>1. /\ UNCHANGED <<blks, blk, head, heap, tail, metaCnt, last, status>>
      /\ ret' \in {"none", "0"} /\ fill' \in [lo : Nat, hi : Nat]
  BY DEF ErofsBflush, NoFill
<1>2. CASE blks = <<>>
  <2>1. call' = call
    BY <1>2 DEF ErofsBflush
  <2>2. TypeOK'
    BY <1>1, <2>1 DEF RingIInv, TypeOK
  <2>3. RingInv'
    <3>1. RingStutter /\ head' = head
      BY <1>1, <2>1 DEF RingStutter
    <3>. QED
      BY <3>1, RingStutterKeeps DEF RingIInv
  <2>. QED
    BY <1>1, <2>2, <2>3 DEF RingIInv, NoMapBug
<1>3. CASE blks # <<>>
  <2>1. /\ call' = [fn |-> "flush", at |-> "block", stop |-> stop, p |-> blks[1],
                    n |-> NIL, bh |-> NIL, skip |-> FALSE]
        /\ 1 \in 1..Len(blks) /\ blks[1] \in Block
    BY <1>0, <1>3 DEF ErofsBflush
  <2>2. call' \in Calls
    <3>1. call' \in FlushCalls
      BY <2>1 DEF FlushCalls
    <3>. QED
      BY <3>1 DEF Calls, FlushCalls
  <2>3. TypeOK'
    BY <1>1, <2>2 DEF RingIInv, TypeOK
  <2>4. WalkOK'
    <3>1. \A j \in 1..(1 - 1) : Mapped(blks[j])'
      OBVIOUS
    <3>. QED
      BY <1>1, <2>1, <3>1 DEF WalkOK
  <2>5. MappedFirst' /\ OwnersOK'
    BY <1>1 DEF RingIInv, RingInv, MappedFirst, OwnersOK, Mapped, InRing
  <2>. QED
    BY <1>1, <2>3, <2>4, <2>5 DEF RingIInv, RingInv, NoMapBug
<1>. QED
  BY <1>2, <1>3

\* Where the walk of ErofsBflush stands.
LEMMA WalkAt ==
  ASSUME RingIInv, call.fn = "flush"
  PROVE  \E i \in 1..Len(blks) :
           /\ blks[i] = call.p
           /\ \A j \in 1..(i - 1) : Mapped(blks[j])
           /\ call.at # "block" =>
                /\ Mapped(call.p)
                /\ \/ call.n = NIL /\ i = Len(blks)
                   \/ i < Len(blks) /\ call.n = blks[i + 1]
  BY DEF RingIInv, RingInv, WalkOK

\* The top of ErofsBflush's loop maps the block it stands at: the first one not mapped,
\* if it is not mapped already.
LEMMA FlushBlockKeepsRing ==
  ASSUME RingIInv, FlushBlock
  PROVE  RingIInv'
<1>0. /\ call.fn = "flush" /\ call.at = "block" /\ call \in FlushCalls
      /\ fill' \in [lo : Nat, hi : Nat] /\ ret' \in {"none", "0"}
      /\ UNCHANGED <<blks, head, heap, metaCnt, status>>
  BY FlushCallTyped DEF FlushBlock, Flushing, RingIInv, NoFill
<1>1. CASE call.p = call.stop
  <2>1. call' = Idle /\ UNCHANGED <<blk, tail, last>>
    BY <1>1 DEF FlushBlock
  <2>2. TypeOK'
    BY <1>0, <2>1 DEF RingIInv, TypeOK, Calls
  <2>3. WalkOK'
    BY <2>1 DEF WalkOK, Idle
  <2>4. MappedFirst' /\ OwnersOK'
    BY <1>0, <2>1 DEF RingIInv, RingInv, MappedFirst, OwnersOK, Mapped, InRing
  <2>. QED
    BY <1>0, <2>2, <2>3, <2>4 DEF RingIInv, RingInv, NoMapBug
<1>2. CASE call.p # call.stop
  <2>0. /\ TypeOK /\ MappedFirst /\ blks \in Seq(Block) /\ Len(blks) \in Nat
        /\ heap \in Heaps(Node) /\ Distinct
    BY DEF RingIInv, RingInv, TypeOK, MappedFirst, Distinct, Node
  <2>1. PICK i \in 1..Len(blks) :
          /\ blks[i] = call.p
          /\ \A j \in 1..(i - 1) : Mapped(blks[j])
    BY <1>0, WalkAt
  <2>2. MapBhInternal(blks[i])
    BY <1>2, <2>1 DEF FlushBlock
  <2>3. /\ blk' \in [Block -> BlkRec] /\ tail' \in Nat
        /\ last' \in Block \cup {BlkH, JUNK}
        /\ \A c \in Block : blk'[c].kind = blk[c].kind
        /\ MappedFirst'
        /\ \A j \in 1..i : Mapped(blks[j])'
    BY <1>0, <2>0, <2>1, <2>2, MapKeeps
  <2>4. NextBlk(call.p) = IF i = Len(blks) THEN BlkH ELSE blks[i + 1]
    BY <2>0, <2>1, NextOf
  <2>5. /\ call'.fn = "flush" /\ call'.p = call.p /\ call'.at # "block"
        /\ \/ call'.n = NIL /\ i = Len(blks)
           \/ i < Len(blks) /\ call'.n = blks[i + 1]
    <3>1. /\ call'.fn = "flush" /\ call'.p = call.p /\ call'.at # "block"
          /\ call'.n = IF NextBlk(call.p) = BlkH THEN NIL ELSE NextBlk(call.p)
      <4>. DEFINE nx == IF NextBlk(call.p) = BlkH THEN NIL ELSE NextBlk(call.p)
                  e  == EmptyBlk(call.p)
                  fh == IF e THEN NIL ELSE heap[call.p].next
                  at == IF e THEN "end" ELSE "heads"
      <4>1. call' = [call EXCEPT !.n = nx, !.skip = FALSE, !.bh = fh, !.at = at]
        BY <1>2 DEF FlushBlock
      <4>2. at # "block"
        OBVIOUS
      <4>. HIDE DEF nx, e, fh, at
      <4>. QED
        BY <1>0, <4>1, <4>2 DEF FlushCalls, nx
    <3>2. i # Len(blks) => blks[i + 1] \in Block /\ blks[i + 1] # BlkH /\ i < Len(blks)
      BY <2>0, PoolAssumption
    <3>. QED
      BY <2>4, <3>1, <3>2
  <2>6. call' \in Calls
    <3>1. call.p \in Node /\ heap[call.p].next \in Block \cup BufHead \cup {NIL}
      BY <1>0, <2>0 DEF FlushCalls, Node, Heaps
    <3>2. NextBlk(call.p) \in Block \cup {BlkH}
      BY <2>0, <2>4
    <3>3. call' \in FlushCalls
      <4>. DEFINE nx == IF NextBlk(call.p) = BlkH THEN NIL ELSE NextBlk(call.p)
                  e  == EmptyBlk(call.p)
                  fh == IF e THEN NIL ELSE heap[call.p].next
                  at == IF e THEN "end" ELSE "heads"
      <4>1. call' = [call EXCEPT !.n = nx, !.skip = FALSE, !.bh = fh, !.at = at]
        BY <1>2 DEF FlushBlock
      <4>2. /\ nx \in Block \cup {NIL} /\ at \in {"block", "heads", "end"}
            /\ fh \in Block \cup BufHead \cup {NIL}
        BY <3>1, <3>2
      <4>. HIDE DEF nx, e, fh, at
      <4>. QED
        BY <1>0, <4>1, <4>2 DEF FlushCalls
    <3>. QED
      BY <3>3 DEF Calls, FlushCalls
  <2>7. TypeOK'
    BY <1>0, <2>3, <2>6 DEF RingIInv, TypeOK, BlkRec
  <2>8. WalkOK'
    <3>1. \A j \in 1..(i - 1) : Mapped(blks[j])'
      <4>1. \A j \in 1..(i - 1) : j \in 1..i
        BY <2>0
      <4>. QED
        BY <2>3, <4>1
    <3>2. Mapped(blks[i])' /\ i \in 1..i
      BY <2>0, <2>3
    <3>3. Mapped(call.p)'
      BY <1>0, <2>1, <2>5, <3>2 DEF Mapped
    <3>. QED
      BY <1>0, <2>1, <2>5, <3>1, <3>3 DEF WalkOK
  <2>9. OwnersOK'
    BY <1>0, <2>3 DEF RingIInv, RingInv, OwnersOK, InRing
  <2>. QED
    BY <1>0, <2>3, <2>7, <2>8, <2>9 DEF RingIInv, RingInv, NoMapBug
<1>. QED
  BY <1>1, <1>2

\* A head's turn moves the walk neither on the ring nor off it.
LEMMA FlushHeadKeepsRing ==
  ASSUME RingIInv, NEW bh \in BufHead, FlushHead(bh)
  PROVE  RingIInv'
<1>. DEFINE nbh == NextHead(bh)
            turn == call' = [call EXCEPT !.bh = nbh,
                                         !.at = IF nbh = NIL THEN "end" ELSE "heads",
                                         !.skip = @ \/ head[bh].op = "skip"]
<1>0. /\ call.fn = "flush" /\ call.at = "heads" /\ call \in FlushCalls
      /\ heap \in Heaps(Node) /\ head \in [BufHead -> HeadRec] /\ TypeOK
  BY FlushCallTyped DEF FlushHead, Flushing, RingIInv, TypeOK, HeadRec, Node
<1>1. CASE Die("panic")
  BY <1>1, DieKeepsRing
<1>2. CASE /\ call' = Idle /\ ret' = "-EBUSY" /\ fill' = NoFill
           /\ UNCHANGED <<blks, blk, head, heap, tail, metaCnt, last, status>>
  <2>1. TypeOK'
    BY <1>2 DEF RingIInv, TypeOK, Calls, NoFill
  <2>2. WalkOK'
    BY <1>2 DEF WalkOK, Idle
  <2>3. MappedFirst' /\ OwnersOK'
    BY <1>2 DEF RingIInv, RingInv, MappedFirst, OwnersOK, Mapped, InRing
  <2>. QED
    BY <1>2, <2>1, <2>2, <2>3 DEF RingIInv, RingInv, NoMapBug
<1>3. CASE /\ turn /\ Quiet /\ UNCHANGED <<blks, blk, tail, metaCnt, last, status>>
           /\ \/ UNCHANGED <<head, heap>>
              \/ /\ heap' = ListDel(heap, bh)
                 /\ head' = [head EXCEPT ![bh].st = "gone"]
  <2>1. nbh \in Block \cup BufHead \cup {NIL}
    BY <1>0 DEF NextHead, Heaps, Node
  <2>. HIDE DEF nbh
  <2>2. /\ call' \in FlushCalls /\ call'.p = call.p /\ call'.n = call.n
        /\ call'.at \in {"heads", "end"} /\ call'.fn = "flush"
    <3>1. (call.skip \/ head[bh].op = "skip") \in BOOLEAN
      OBVIOUS
    <3>2. /\ call'.fn = call.fn /\ call'.stop = call.stop /\ call'.p = call.p
          /\ call'.n = call.n /\ call'.bh = nbh
          /\ call'.at = IF nbh = NIL THEN "end" ELSE "heads"
          /\ call'.skip = (call.skip \/ head[bh].op = "skip")
      BY <1>0, <1>3 DEF FlushCalls
    <3>3. call' \in FlushCalls
      BY <1>0, <1>3, <2>1, <3>1 DEF FlushCalls
    <3>. QED
      BY <1>0, <3>2, <3>3
  <2>3. call' \in Calls
    BY <2>2 DEF Calls, FlushCalls
  <2>4. heap' \in Heaps(Node)
    <3>1. bh \in Node
      BY DEF Node
    <3>2. ListDel(heap, bh) \in Heaps(Node)
      BY <1>0, <3>1, DelTyped
    <3>. QED
      BY <1>0, <1>3, <3>2
  <2>5. /\ head' \in [BufHead -> HeadRec]
        /\ \A h \in BufHead : head'[h].st = "live" =>
             head[h].st = "live" /\ head'[h].blk = head[h].blk
    <3>1. CASE head' = head
      BY <1>0, <3>1
    <3>2. CASE head' = [head EXCEPT ![bh].st = "gone"]
      <4>1. [head[bh] EXCEPT !.st = "gone"] \in HeadRec
        BY <1>0 DEF HeadRec
      <4>2. head' = [head EXCEPT ![bh] = [head[bh] EXCEPT !.st = "gone"]]
        BY <3>2
      <4>3. head' \in [BufHead -> HeadRec]
        BY <1>0, <4>1, <4>2
      <4>. QED
        BY <1>0, <3>2, <4>3 DEF HeadRec
    <3>. QED
      BY <1>3, <3>1, <3>2
  <2>6. TypeOK'
    <3>1. ret' \in {"none", "0", "-EBUSY"} /\ fill' \in [lo : Nat, hi : Nat]
      BY <1>3, QuietTyped
    <3>. QED
      BY <1>3, <2>3, <2>4, <2>5, <3>1 DEF RingIInv, TypeOK, HeadRec, Node
  <2>7. WalkOK'
    <3>1. PICK i \in 1..Len(blks) :
            /\ blks[i] = call.p
            /\ \A j \in 1..(i - 1) : Mapped(blks[j])
            /\ Mapped(call.p)
            /\ \/ call.n = NIL /\ i = Len(blks)
               \/ i < Len(blks) /\ call.n = blks[i + 1]
      BY <1>0, WalkAt
    <3>2. \A j \in 1..(i - 1) : Mapped(blks[j])'
      BY <1>3, <3>1 DEF Mapped
    <3>3. Mapped(call.p)'
      BY <1>3, <2>2, <3>1 DEF Mapped
    <3>. QED
      BY <1>3, <2>2, <3>1, <3>2, <3>3 DEF WalkOK
  <2>8. MappedFirst'
    BY <1>3 DEF RingIInv, RingInv, MappedFirst, Mapped
  <2>9. OwnersOK'
    BY <1>3, <2>5 DEF RingIInv, RingInv, OwnersOK, InRing
  <2>. QED
    BY <1>3, <2>6, <2>7, <2>8, <2>9 DEF RingIInv, RingInv, NoMapBug
<1>. QED
  BY <1>1, <1>2, <1>3 DEF FlushHead

\* Taking the current block out of the ring leaves the saved next block in it.
LEMMA FlushEndKeepsRing ==
  ASSUME RingIInv, FlushEnd
  PROVE  RingIInv'
<1>. DEFINE p == call.p
<1>0. /\ call.fn = "flush" /\ call.at = "end" /\ call \in FlushCalls /\ TypeOK
      /\ MappedFirst /\ blks \in Seq(Block) /\ Len(blks) \in Nat
      /\ blk \in [Block -> BlkRec] /\ p \in Block
      /\ \A j \in 1..Len(blks) : blks[j] \in Block
      /\ UNCHANGED <<head, heap, tail, status>>
  BY FlushCallTyped
  DEF FlushEnd, Flushing, RingIInv, RingInv, TypeOK, FlushCalls, BlkRec
<1>1. PICK i \in 1..Len(blks) :
        /\ blks[i] = p
        /\ \A j \in 1..(i - 1) : Mapped(blks[j])
        /\ Mapped(p)
        /\ \/ call.n = NIL /\ i = Len(blks)
           \/ i < Len(blks) /\ call.n = blks[i + 1]
  BY <1>0, WalkAt
<1>2. /\ NBlk(blk[p].off) \in Nat /\ EndBlk(p) \in Nat /\ blk[p].addr \in Nat
  BY <1>0, <1>1, BlockNats
<1>3. fill' \in [lo : Nat, hi : Nat]
  <2>1. CASE fill' = NoFill
    BY <2>1 DEF NoFill
  <2>2. CASE /\ Padding(p) # BlkSz
             /\ fill' = [lo |-> Pos(EndBlk(p)) - Padding(p), hi |-> Pos(EndBlk(p))]
    <3>1. blk[p].off \in Nat /\ BlkSz \in Nat \ {0}
      BY <1>0, BlkSzAssumption DEF BlkRec
    <3>2. Padding(p) \in 1..BlkSz
      <4>1. blk[p].off % BlkSz \in 0..(BlkSz - 1)
        BY <3>1
      <4>. QED
        BY <3>1, <4>1 DEF Padding
    <3>3. NBlk(blk[p].off) # 0
      <4>1. blk[p].off # 0
        <5>1. ASSUME blk[p].off = 0 PROVE FALSE
          <6>1. 0 % BlkSz = 0
            BY <3>1
          <6>2. Padding(p) = BlkSz
            BY <3>1, <5>1, <6>1 DEF Padding
          <6>. QED
            BY <2>2, <6>2
        <5>. QED
          BY <5>1
      <4>. QED
        BY <3>1, <4>1, NBlkZero
    <3>4. EndBlk(p) \in Nat \ {0}
      BY <1>2, <3>3 DEF EndBlk
    <3>5. Pos(EndBlk(p)) \in Nat /\ Pos(EndBlk(p)) >= BlkSz
      BY <3>1, <3>4 DEF Pos
    <3>. QED
      BY <2>2, <3>1, <3>2, <3>5
  <2>. QED
    BY <2>1, <2>2 DEF FlushEnd
<1>4. metaCnt' \in Nat
  <2>1. metaCnt' = metaCnt \/ metaCnt' = metaCnt + NBlk(blk[p].off)
    BY DEF FlushEnd
  <2>. QED
    BY <1>0, <1>2, <2>1 DEF TypeOK
<1>5. /\ blk' \in [Block -> BlkRec]
      /\ \A c \in Block : blk'[c].addr = blk[c].addr /\ blk'[c].kind = blk[c].kind
  <2>1. CASE blk' = blk
    BY <1>0, <2>1
  <2>2. CASE blk' = [blk EXCEPT ![p].bkt = BktAfterFree(p, heap)]
    <3>1. BktAfterFree(p, heap) \in Nat \cup {NIL}
      BY <1>0 DEF BktAfterFree, BlkRec
    <3>. QED
      BY <1>0, <2>2, <3>1 DEF BlkRec
  <2>. QED
    BY <2>1, <2>2 DEF FlushEnd
<1>6. \/ blks' = blks /\ last' = last
      \/ /\ blks' = RemoveAt(blks, i)
         /\ last' = IF last = blks[i] THEN JUNK ELSE last
  <2>1. Index(p) = i
    <3>1. Distinct
      BY <1>0 DEF MappedFirst, Distinct
    <3>. QED
      BY <1>0, <1>1, <3>1, NextOf
  <2>. QED
    BY <1>1, <2>1 DEF FlushEnd, ErofsBfree
<1>. HIDE DEF p
<1>7. /\ blks' \in Seq(Block) /\ last' \in Block \cup {BlkH, JUNK} /\ MappedFirst'
  <2>1. CASE blks' = blks /\ last' = last
    <3>1. \A j \in 1..Len(blks) : Mapped(blks[j])' <=> Mapped(blks[j])
      BY <1>0, <1>5, <2>1 DEF Mapped
    <3>2. last \in Block => (Mapped(last)' <=> Mapped(last))
      BY <1>5, <2>1 DEF Mapped
    <3>3. \A k \in 1..Len(blks) : \A j \in (k + 1)..Len(blks) : j \in 1..Len(blks)
      BY <1>0
    <3>4. \A j \in 1..Len(blks) : \A k \in 1..Len(blks) :
            j < k => blks[j] # blks[k] /\ (Mapped(blks[k])' => Mapped(blks[j])')
      BY <1>0, <3>1 DEF MappedFirst
    <3>5. last = BlkH => \A j \in 1..Len(blks) : ~Mapped(blks[j])'
      BY <1>0, <3>1 DEF MappedFirst
    <3>6. ASSUME last \in Block
          PROVE  \E k \in 1..Len(blks) :
                   /\ blks[k] = last /\ Mapped(last)'
                   /\ \A j \in (k + 1)..Len(blks) : ~Mapped(blks[j])'
      <4>1. PICK k \in 1..Len(blks) :
              /\ blks[k] = last /\ Mapped(last)
              /\ \A j \in (k + 1)..Len(blks) : ~Mapped(blks[j])
        BY <1>0, <3>6 DEF MappedFirst
      <4>. QED
        BY <3>1, <3>2, <3>3, <3>6, <4>1
    <3>7. MappedFirst'
      BY <2>1, <3>4, <3>5, <3>6 DEF MappedFirst, Mapped
    <3>. QED
      BY <1>0, <2>1, <3>7 DEF TypeOK
  <2>2. CASE /\ blks' = RemoveAt(blks, i)
             /\ last' = IF last = blks[i] THEN JUNK ELSE last
    <3>1. blks' \in Seq(Block) /\ MappedFirst'
      BY <1>0, <1>5, <2>2, RemoveKeeps
    <3>. QED
      BY <1>0, <2>2, <3>1 DEF TypeOK
  <2>. QED
    BY <1>6, <2>1, <2>2
<1>8. /\ call' \in Calls
      /\ \/ call' = Idle
         \/ /\ call'.fn = "flush" /\ call'.at = "block" /\ call'.p = call.n
            /\ i < Len(blks) /\ call.n = blks[i + 1]
  <2>1. CASE call.n = NIL /\ call' = Idle
    BY <2>1 DEF Calls
  <2>2. CASE call.n # NIL /\ call' = [call EXCEPT !.p = call.n, !.at = "block"]
    <3>1. call.n \in Block
      BY <1>0, <2>2 DEF FlushCalls
    <3>2. call' \in FlushCalls
      BY <1>0, <2>2, <3>1 DEF FlushCalls
    <3>3. call'.fn = "flush" /\ call'.at = "block" /\ call'.p = call.n
      BY <1>0, <2>2 DEF FlushCalls
    <3>. QED
      BY <1>1, <2>2, <3>2, <3>3 DEF Calls, FlushCalls
  <2>. QED
    BY <2>1, <2>2 DEF FlushEnd
<1>9. TypeOK'
  <2>1. ret' \in {"none", "0", "-EBUSY"}
    BY DEF FlushEnd
  <2>. QED
    BY <1>0, <1>3, <1>4, <1>5, <1>7, <1>8, <2>1 DEF TypeOK, BlkRec
<1>10. WalkOK'
  <2>1. CASE call' = Idle
    BY <2>1 DEF WalkOK, Idle
  <2>2. CASE /\ call'.fn = "flush" /\ call'.at = "block" /\ call'.p = call.n
             /\ i < Len(blks) /\ call.n = blks[i + 1]
    <3>1. \A j \in 1..i : j \in 1..Len(blks) /\ Mapped(blks[j])
      <4>1. ASSUME NEW j \in 1..i PROVE j \in 1..Len(blks) /\ Mapped(blks[j])
        <5>1. j \in 1..Len(blks) /\ (j = i \/ j \in 1..(i - 1))
          BY <1>0
        <5>2. CASE j = i
          BY <1>1, <5>1, <5>2
        <5>3. CASE j \in 1..(i - 1)
          BY <1>1, <5>1, <5>3
        <5>. QED
          BY <5>1, <5>2, <5>3
      <4>. QED
        BY <4>1
    <3>2. CASE blks' = blks
      <4>1. \A j \in 1..((i + 1) - 1) : Mapped(blks[j])'
        BY <1>0, <1>5, <3>1, <3>2 DEF Mapped
      <4>2. i + 1 \in 1..Len(blks') /\ blks'[i + 1] = call'.p
        BY <1>0, <2>2, <3>2
      <4>. QED
        BY <2>2, <4>1, <4>2 DEF WalkOK
    <3>3. CASE blks' = RemoveAt(blks, i)
      <4>1. /\ Len(blks') = Len(blks) - 1
            /\ \A j \in 1..(i - 1) : blks'[j] = blks[j]
            /\ \A j \in i..(Len(blks) - 1) : blks'[j] = blks[j + 1]
        BY <1>0, <3>3, RemoveProps
      <4>2. i \in 1..Len(blks') /\ blks'[i] = call'.p
        BY <1>0, <2>2, <4>1
      <4>3. \A j \in 1..(i - 1) : Mapped(blks[j])'
        <5>1. ASSUME NEW j \in 1..(i - 1) PROVE Mapped(blks[j])'
          <6>1. blks'[j] = blks[j] /\ j \in 1..i /\ j \in 1..Len(blks)
            BY <1>0, <4>1
          <6>2. Mapped(blks[j]) /\ blks[j] \in Block
            BY <1>0, <3>1, <6>1
          <6>. QED
            BY <1>5, <6>1, <6>2 DEF Mapped
        <5>. QED
          BY <5>1
      <4>. QED
        BY <2>2, <4>2, <4>3 DEF WalkOK
    <3>. QED
      BY <1>6, <3>2, <3>3
  <2>. QED
    BY <1>8, <2>1, <2>2
<1>11. OwnersOK'
  <2>1. ASSUME NEW c \in Block, InRing(c)' PROVE InRing(c)
    <3>1. CASE blks' = blks
      BY <2>1, <3>1 DEF InRing
    <3>2. CASE blks' = RemoveAt(blks, i)
      <4>1. /\ Len(blks') = Len(blks) - 1
            /\ \A j \in 1..(i - 1) : blks'[j] = blks[j]
            /\ \A j \in i..(Len(blks) - 1) : blks'[j] = blks[j + 1]
        BY <1>0, <3>2, RemoveProps
      <4>2. PICK j \in 1..Len(blks') : blks'[j] = c
        BY <2>1 DEF InRing, Range
      <4>3. \E m \in 1..Len(blks) : blks[m] = c
        <5>1. CASE j < i
          BY <1>0, <4>1, <4>2, <5>1
        <5>2. CASE ~(j < i)
          <6>1. j \in i..(Len(blks) - 1) /\ j + 1 \in 1..Len(blks)
            BY <1>0, <4>1, <5>2
          <6>. QED
            BY <4>1, <4>2, <6>1
        <5>. QED
          BY <5>1, <5>2
      <4>. QED
        BY <1>0, <4>3 DEF InRing, Range
    <3>. QED
      BY <1>6, <3>1, <3>2
  <2>. QED
    BY <1>0, <1>5, <2>1 DEF RingIInv, RingInv, OwnersOK
<1>. QED
  BY <1>0, <1>7, <1>9, <1>10, <1>11 DEF RingIInv, RingInv, NoMapBug
----------------------------------------------------------------------------
(***************************************************************************)
(* The theorems.                                                           *)
(***************************************************************************)

\* Every step keeps the types, the ring and the walks over it.
LEMMA NextKeepsRing ==
  ASSUME RingIInv, [Next]_vars
  PROVE  RingIInv'
<1>1. CASE UNCHANGED vars
  <2>1. TypeOK' /\ NoMapBug'
    BY <1>1 DEF vars, RingIInv, TypeOK, NoMapBug
  <2>2. MappedFirst' /\ WalkOK' /\ OwnersOK'
    BY <1>1 DEF vars, RingIInv, RingInv, MappedFirst, WalkOK, OwnersOK, Mapped, InRing
  <2>. QED
    BY <2>1, <2>2 DEF RingIInv, RingInv
<1>2. ASSUME NEW size \in Size, NEW req \in Ext, NEW inl \in Ext,
             BallocNoSpace(size, req, inl)
      PROVE  RingIInv'
  BY <1>2, RefuseKeepsRing DEF BallocNoSpace
<1>3. ASSUME NEW t \in BufType, NEW size \in Size, NEW req \in Ext, NEW inl \in Ext,
             BallocSearch(t, size, req, inl)
      PROVE  RingIInv'
  <2>1. Die("panic") \/ Die("hang")
    BY <1>3 DEF BallocSearch
  <2>. QED
    BY <2>1, DieKeepsRing
<1>4. ASSUME NEW t \in BufType, NEW size \in Size, NEW req \in Ext, NEW inl \in Ext,
             NEW b \in Block, NEW h \in BufHead, BallocNew(b, h, t, size, req, inl)
      PROVE  RingIInv'
  <2>1. size \in Nat /\ req \in Nat /\ inl \in Nat
    BY SizeAssumption
  <2>. QED
    BY <1>4, <2>1, BallocNewKeepsRing
<1>5. ASSUME NEW bh \in BufHead, NEW new \in BufHead, NEW t \in BufType,
             NEW size \in Size, Battach(bh, new, t, size)
      PROVE  RingIInv'
  <2>1. size \in Nat
    BY SizeAssumption
  <2>. QED
    BY <1>5, <2>1, BattachKeepsRing
<1>6. ASSUME NEW bh \in BufHead, NEW incr \in Grow, BhBalloon(bh, incr)
      PROVE  RingIInv'
  BY <1>6, SizeAssumption, BhBalloonKeepsRing
<1>7. ASSUME NEW bh \in BufHead, NEW op \in ClientOp, SetOp(bh, op)
      PROVE  RingIInv'
  <2>1. op \in Op
    BY ClientAssumption
  <2>. QED
    BY <1>7, <2>1, SetOpKeepsRing
<1>8. ASSUME NEW bh \in BufHead, NEW revoke \in Revoke, BDrop(bh, revoke)
      PROVE  RingIInv'
  BY <1>8, ClientAssumption, BDropKeepsRing
<1>9. ASSUME MapBh(NIL) PROVE RingIInv'
  BY <1>9, MapBhKeepsRing
<1>10. ASSUME NEW bh \in BufHead, Usable(bh)
       PROVE  head[bh].blk \in Block \cup {NIL}
  BY DEF RingIInv, TypeOK
<1>11. ASSUME NEW bh \in BufHead, Usable(bh), MapBh(head[bh].blk) PROVE RingIInv'
  BY <1>10, <1>11, MapBhKeepsRing
<1>12. ASSUME ErofsBflush(NIL) PROVE RingIInv'
  BY <1>12, BflushKeepsRing
<1>13. ASSUME NEW bh \in BufHead, Usable(bh), ErofsBflush(head[bh].blk) PROVE RingIInv'
  BY <1>10, <1>13, BflushKeepsRing
<1>14. ASSUME NEW bh \in BufHead, FlushHead(bh) PROVE RingIInv'
  BY <1>14, FlushHeadKeepsRing
<1>15. CASE Client
  BY <1>2, <1>3, <1>4, <1>5, <1>6, <1>7, <1>8, <1>9, <1>11, <1>12, <1>13, <1>15
  DEF Client
<1>16. CASE Flush
  BY <1>14, <1>16, FlushBlockKeepsRing, FlushEndKeepsRing DEF Flush
<1>17. CASE MapStep
  BY <1>17, MapStepKeepsRing
<1>. QED
  BY <1>1, <1>15, <1>16, <1>17 DEF Next

\* Types, ring and walks hold together in every reachable state, and MapBh never panics
\* at its assertion.
THEOREM RingHolds == Spec => []RingIInv
<1>1. Init => RingIInv
  BY InitRing
<1>2. RingIInv /\ [Next]_vars => RingIInv'
  BY NextKeepsRing
<1>. QED
  BY <1>1, <1>2, PTL DEF Spec

\* Every field always holds a value of its Go type.
THEOREM TypesHold == Spec => []TypeOK
<1>1. RingIInv => TypeOK
  BY DEF RingIInv
<1>. QED
  BY <1>1, RingHolds, PTL

\* The mapped blocks come first, LastMappedBlock is the last of them or lost, and
\* no walk of MapBh or ErofsBflush leaves the ring.
THEOREM RingInvHolds == Spec => []RingInv
<1>1. RingIInv => RingInv
  BY DEF RingIInv
<1>. QED
  BY <1>1, RingHolds, PTL

\* The assertion of internal.go:292 never fails.
THEOREM MapNeverPanics == Spec => []NoMapBug
<1>1. RingIInv => NoMapBug
  BY DEF RingIInv
<1>. QED
  BY <1>1, RingHolds, PTL
=============================================================================
