------------------------------- MODULE BufMgr -------------------------------
(***************************************************************************)
(* The buffer manager (pkg/types/buffer.go, internal.go and helper.go): it *)
(* decides where every block of the image goes.                            *)
(*                                                                         *)
(* A buffer block is a run of cells that will be contiguous in the image.  *)
(* It is created unmapped; mapping it gives it the first block address     *)
(* past everything mapped before (TailBlkAddr).  A buffer head names a     *)
(* place in a buffer block.  The client allocates heads (Balloc), attaches *)
(* more of them behind a head (Battach), grows the last one (BhBalloon),   *)
(* maps blocks (MapBh), drops heads (BDrop) and flushes (ErofsBflush).     *)
(*                                                                         *)
(* The calls that do not loop over blocks are one action each.  MapBh and  *)
(* ErofsBflush walk the block list: one action enters the call and one     *)
(* action makes each turn of its loops.                                    *)
(*                                                                         *)
(* Next to some definitions stands a variant named BUG_...: the same       *)
(* operation with a plausible mistake in it.  The specification uses none  *)
(* of them; each breaks the property the README lists it under, which      *)
(* shows that the property has teeth.                                      *)
(***************************************************************************)
EXTENDS BlockMath, IntrusiveList, SequencesExt

CONSTANTS
  Block,          \* buffer blocks the allocator may create (a pool)
  BufHead,        \* buffer heads the allocator may create (a pool)
  StartBlk,       \* ErofsBufferInit's startblk
  SlotSize,       \* record sizes of INODE, XATTR and DEVT entries
  ClientOp,       \* the operations the client gives its heads
  Revoke,         \* the values of BDrop's tryRevoke that the client passes
  Size,           \* the sizes the client asks for
  Grow,           \* the sizes it hands to BhBalloon
  Ext,            \* the required and inline extensions it asks for
  MaxOff,         \* bound: cells in one buffer block
  MaxMeta,        \* bound: no BDrop or flush starts with MetaBlkCnt above it
  NULL_ADDR,      \* the address of an unmapped block
  BlkH, JUNK      \* LastMappedBlock before any mapping, and after a broken
                  \* ContainerOf: a zeroed BufferBlock that is in no list

Op      == {"skip", "busy", "drop"}
BufType == {"DATA", "META", "INODE", "DIRA", "XATTR", "DEVT"}
Kind    == {"DATA", "META"}

ASSUME PoolAssumption ==
  /\ Block \cap BufHead = {}
  /\ NIL \notin Block \cup BufHead
  /\ {BlkH, JUNK} \cap (Block \cup BufHead \cup {NIL}) = {}
  /\ BlkH # JUNK
ASSUME SizeAssumption ==
  /\ StartBlk \in Nat /\ MaxOff \in Nat /\ MaxMeta \in Nat
  /\ Size \subseteq Nat /\ Grow \subseteq Nat /\ Ext \subseteq Nat
  /\ NULL_ADDR \notin Nat
  /\ SlotSize \in [{"INODE", "XATTR", "DEVT"} -> Nat \ {0}]
  /\ \A t \in {"INODE", "XATTR", "DEVT"} : BlkSz % SlotSize[t] = 0
ASSUME ClientAssumption == Revoke \subseteq BOOLEAN /\ ClientOp \subseteq Op

VARIABLES
  blks,     \* the ring anchored at BlkH, as the sequence of its blocks
  blk,      \* blk[b]: the fields of buffer block b
  head,     \* head[h]: the fields of buffer head h
  heap,     \* the pointers of the Buffers.List rings: block b is the anchor
  tail,     \* TailBlkAddr
  metaCnt,  \* MetaBlkCnt
  last,     \* LastMappedBlock
  call,     \* the call in progress and its local variables
  ret,      \* what ErofsBflush returned, if the last step ended it
  fill,     \* the cells [lo, hi) the last step zeroed with ErofsDevFillzero
  status    \* "run", or how the process ended

vars == <<blks, blk, head, heap, tail, metaCnt, last, call, ret, fill, status>>

Idle     == [fn |-> "idle"]
NoFill   == [lo |-> 0, hi |-> 0]
Quiet    == ret' = "none" /\ fill' = NoFill
----------------------------------------------------------------------------
(***************************************************************************)
(* Derived notions.                                                        *)
(***************************************************************************)

AlignOf(t) == CASE t \in {"DATA", "DIRA"} -> BlkSz
                [] t = "META"             -> 1
                [] OTHER                  -> SlotSize[t]
KindOf(t)  == IF t = "DATA" THEN "DATA" ELSE "META"

InRing(b)    == b \in Range(blks)
Mapped(b)    == blk[b].addr # NULL_ADDR
EndBlk(b)    == blk[b].addr + NBlk(blk[b].off)
Pos(a)       == a * BlkSz

\* The block behind b in the ring; BlkH is before the first and behind the last.
Index(b) == CHOOSE i \in 1..Len(blks) : blks[i] = b
Place(b) == IF b = BlkH THEN 0 ELSE Index(b)
NextBlk(b) == IF Place(b) = Len(blks) THEN BlkH ELSE blks[Place(b) + 1]

\* Heads a client may still use: allocated, never dropped, and their block
\* was not freed by a flush.
Usable(h) == head[h].st = "live" /\ InRing(head[h].blk)

\* bh.List.Next == &bb.Buffers.List
IsTail(h) == heap[h].next = head[h].blk

EmptyBlk(b) == IsListEmpty(heap, b)

\* BhTell(bh, false): the cell of the image where h begins.
BUG_BhTell(h) == IF Mapped(head[h].blk) THEN Pos(blk[head[h].blk].addr) ELSE NULL_ADDR
BhTell(h) == IF Mapped(head[h].blk) THEN Pos(blk[head[h].blk].addr) + head[h].off
             ELSE NULL_ADDR

NewBlock(k) == [kind |-> k, addr |-> NULL_ADDR, off |-> 0, bkt |-> NIL]
NoBlock     == [kind |-> "none", addr |-> NULL_ADDR, off |-> 0, bkt |-> NIL]
NoHead      == [st |-> "free", blk |-> NIL, off |-> 0, op |-> "nil",
                by |-> "none", len |-> 0]

NoBlocks    == [b \in Block |-> NoBlock]
NoHeads     == [h \in BufHead |-> NoHead]
NoLinks     == [x \in Block \cup BufHead |-> Unlinked]

\* ErofsBufferInit
Init ==
  /\ blks = <<>> /\ blk = NoBlocks /\ head = NoHeads /\ heap = NoLinks
  /\ tail = StartBlk /\ metaCnt = 0 /\ last = BlkH
  /\ call = Idle /\ ret = "none" /\ fill = NoFill
  /\ status = "run"

Ready == status = "run" /\ call = Idle

\* The process panics, or loops for ever: nobody will read its memory again.
Die(how) ==
  /\ blks' = <<>> /\ blk' = NoBlocks /\ head' = NoHeads /\ heap' = NoLinks
  /\ tail' = StartBlk /\ metaCnt' = 0 /\ last' = BlkH
  /\ call' = Idle /\ Quiet
  /\ status' = how
----------------------------------------------------------------------------
(***************************************************************************)
(* Mapping.                                                                *)
(***************************************************************************)

\* BupdateMapped: the bucket of a mapped block, by the cells used in its last
\* file-system block.
Bucket(off) == off % BlkSz

\* MapBhInternal
BUG_MapForgetsTail(b) ==
  /\ blk'  = [blk EXCEPT ![b].addr = IF Mapped(b) THEN @ ELSE tail,
                         ![b].bkt = IF Mapped(b) THEN @ ELSE Bucket(blk[b].off)]
  /\ last' = IF Mapped(b) THEN last ELSE b
  /\ tail' = tail
BUG_MapForgetsLast(b) ==
  LET a   == IF Mapped(b) THEN blk[b].addr ELSE tail
      end == a + NBlk(blk[b].off)
  IN  /\ blk' = [blk EXCEPT ![b].addr = a,
                            ![b].bkt = IF Mapped(b) THEN @ ELSE Bucket(blk[b].off)]
      /\ last' = last
      /\ tail' = IF end > tail THEN end ELSE tail
MapBhInternal(b) ==
  LET a   == IF Mapped(b) THEN blk[b].addr ELSE tail
      end == a + NBlk(blk[b].off)
  IN  /\ blk' = [blk EXCEPT ![b].addr = a,
                            ![b].bkt = IF Mapped(b) THEN @ ELSE Bucket(blk[b].off)]
      /\ last' = IF Mapped(b) THEN last ELSE b
      /\ tail' = IF end > tail THEN end ELSE tail

\* MapBh(bmgr, bb) for a block bb the client holds a head of, or nil (= NIL),
\* which maps every block.
MapBh(want) ==
  /\ Ready
  /\ call' = IF want # NIL /\ Mapped(want)
             THEN Idle
             ELSE [fn |-> "map", t |-> last, want |-> want]
  /\ Quiet
  /\ UNCHANGED <<blks, blk, head, heap, tail, metaCnt, last, status>>

\* One turn of MapBh's loop.
MapStep ==
  /\ status = "run" /\ call.fn = "map"
  /\ \/ call.t = JUNK /\ Die("panic")               \* nil dereference
     \/ /\ call.t # JUNK /\ NextBlk(call.t) = BlkH
        /\ call' = Idle
        /\ Quiet
        /\ UNCHANGED <<blks, blk, head, heap, tail, metaCnt, last, status>>
     \/ /\ call.t # JUNK /\ NextBlk(call.t) # BlkH
        /\ LET t == NextBlk(call.t) IN
           IF Mapped(t)
           THEN Die("bug")                           \* panic("BUG: t.BlkAddr != NULL_ADDR")
           ELSE /\ MapBhInternal(t)
                /\ call' = IF t = call.want THEN Idle ELSE [call EXCEPT !.t = t]
                /\ Quiet
                /\ UNCHANGED <<blks, head, heap, metaCnt, status>>
----------------------------------------------------------------------------
(***************************************************************************)
(* BattachInternal: place incr cells at the end of block b.                *)
(***************************************************************************)

\* oob is the sign of Total - BlkSz: the cells used in b's last file-system
\* block once the record is in, against that block's size.
Total(b, incr, align) == RoundUp(UsedInLast(blk[b].off), align) + incr
TailUpdate(b, incr, align) ==
  /\ Total(b, incr, align) >= BlkSz
  /\ Mapped(b)
  /\ tail = EndBlk(b)

\* A record that does not fit needs the next block still unmapped, and b, if
\* it is mapped, to be what ends at the tail.
BUG_AttachIgnoresTail(b, incr, align) ==
  /\ Total(b, incr, align) > BlkSz
  /\ NextBlk(b) # BlkH /\ Mapped(NextBlk(b))
AttachFails(b, incr, align) ==
  /\ Total(b, incr, align) > BlkSz
  /\ \/ NextBlk(b) # BlkH /\ Mapped(NextBlk(b))
     \/ Mapped(b) /\ ~TailUpdate(b, incr, align)

\* The head h is (re)placed at the aligned end of b and linked at the tail of
\* b's heads, whether or not it is linked already.
Attach(b, h, incr, align, op, by) ==
  LET at  == RoundUp(blk[b].off, align)
      off == at + incr
  IN  /\ head' = [head EXCEPT ![h] = [st |-> "live", blk |-> b, off |-> at,
                                      op |-> op, by |-> by, len |-> incr]]
      /\ heap' = ListAddTail(heap, h, b)
      /\ blk'  = [blk EXCEPT ![b].off = off,
                             ![b].bkt = IF Mapped(b) THEN Bucket(off) ELSE @]
      /\ tail' = IF TailUpdate(b, incr, align)
                 THEN blk[b].addr + NBlk(off)
                 ELSE tail
      /\ Quiet
      /\ UNCHANGED <<blks, metaCnt, last, call, status>>

\* An error return that leaves everything as it was.
Refuse ==
  /\ Quiet
  /\ UNCHANGED <<blks, blk, head, heap, tail, metaCnt, last, call, status>>

\* Battach(bh, type, size): a new head behind bh, which must be the last one.
Battach(bh, new, t, size) ==
  /\ Ready /\ Usable(bh) /\ head[new].st = "free"
  /\ LET b == head[bh].blk IN
     \/ /\ ~IsTail(bh) \/ AttachFails(b, size, AlignOf(t))
        /\ Refuse
     \/ /\ IsTail(bh) /\ ~AttachFails(b, size, AlignOf(t))
        /\ RoundUp(blk[b].off, AlignOf(t)) + size <= MaxOff
        /\ Attach(b, new, size, AlignOf(t), "nil", "attach")

\* BhBalloon(bh, incr) hands bh itself to BattachInternal.
BhBalloon(bh, incr) ==
  /\ Ready /\ Usable(bh)
  /\ LET b == head[bh].blk IN
     \/ /\ ~IsTail(bh) \/ AttachFails(b, incr, 1)
        /\ Refuse
     \/ /\ IsTail(bh) /\ ~AttachFails(b, incr, 1)
        /\ blk[b].off + incr <= MaxOff
        /\ Attach(b, bh, incr, 1, head[bh].op, "balloon")

\* The client sets the operations of a head it has just been given.
SetOp(bh, op) ==
  /\ Ready /\ Usable(bh) /\ head[bh].op = "nil"
  /\ head' = [head EXCEPT ![bh].op = op]
  /\ Quiet
  /\ UNCHANGED <<blks, blk, heap, tail, metaCnt, last, call, status>>
----------------------------------------------------------------------------
(***************************************************************************)
(* Balloc(type, size, requiredExt, inlineExt).                             *)
(***************************************************************************)

Used0(size, req, inl) == ((size + req) % BlkSz) + inl

\* BfindForAttach gives up the search for a partly used block.
NoSearch(t, size, req, inl) == Used0(size, req, inl) = 0 \/ AlignOf(t) = BlkSz

\* A bucket the search looks into holds a block.
SearchHits(t, size, req, inl) ==
  LET need == size + req + inl IN
  /\ need < BlkSz
  /\ \E b \in Block :
       /\ blk[b].kind = KindOf(t)
       /\ blk[b].bkt \in 1..RoundDown(BlkSz - need, AlignOf(t))

BallocNoSpace(size, req, inl) ==
  /\ Ready
  /\ Used0(size, req, inl) > BlkSz
  /\ Refuse

\* The search itself never ends well: ContainerOf gives it zeroed blocks, so a
\* bucket hit fails the assertion on the block's type, and the walk from the
\* last mapped block never meets BlkH again.
BallocSearch(t, size, req, inl) ==
  /\ Ready
  /\ Used0(size, req, inl) <= BlkSz /\ ~NoSearch(t, size, req, inl)
  /\ Die(IF SearchHits(t, size, req, inl) THEN "panic" ELSE "hang")

\* A new block goes behind the last mapped one (DATA) or to the end (META).
BUG_InsertedFirst(b, t) ==
  IF KindOf(t) = "META" THEN Append(blks, b) ELSE InsertAt(blks, 1, b)
Inserted(b, t) ==
  IF KindOf(t) = "META" THEN Append(blks, b) ELSE InsertAt(blks, Place(last) + 1, b)

\* Then the first block of the ring that is long enough takes the head, the
\* new block itself failing that.  The head is put at offset size, and the
\* block does not grow.
BallocNew(b, h, t, size, req, inl) ==
  /\ Ready
  /\ NoSearch(t, size, req, inl) /\ Used0(size, req, inl) <= BlkSz
  /\ blk[b].kind = "none" /\ head[h].st = "free"
  /\ LET ring    == Inserted(b, t)
         blk1    == [blk EXCEPT ![b] = NewBlock(KindOf(t))]
         fits(x) == /\ blk1[x].kind = KindOf(t)
                    /\ blk1[x].off >= size + (req + inl) * AlignOf(t)
         bb      == IF \E x \in Range(ring) : fits(x)
                    THEN ring[CHOOSE i \in 1..Len(ring) :
                                /\ fits(ring[i])
                                /\ \A j \in 1..(i - 1) : ~fits(ring[j])]
                    ELSE b
         heap1   == InitListHead(heap, b)
     IN  IF KindOf(t) = "DATA" /\ last = JUNK
         THEN Die("panic")                            \* nil dereference in ListAdd
         ELSE /\ blks' = ring
              /\ blk' = blk1
              /\ IF size > blk1[bb].off
                 THEN heap' = heap1 /\ UNCHANGED head
                 ELSE /\ heap' = ListAddTail(heap1, h, bb)
                      /\ head' = [head EXCEPT ![h] =
                                    [st |-> "live", blk |-> bb, off |-> size,
                                     op |-> "nil", by |-> "balloc", len |-> size]]
              /\ Quiet
              /\ UNCHANGED <<tail, metaCnt, last, call, status>>
----------------------------------------------------------------------------
(***************************************************************************)
(* Dropping and flushing.                                                  *)
(***************************************************************************)

\* ErofsBfree, with the heap its caller has built: an emptied block is left
\* alone, and one that still has heads is taken out of the list.
BUG_BfreeForgetsLast(b, hp) ==
  IF IsListEmpty(hp, b)
  THEN UNCHANGED <<blks, last>>
  ELSE blks' = RemoveAt(blks, Index(b)) /\ UNCHANGED last
BUG_BfreeKeepsLast(b, hp) ==
  IF IsListEmpty(hp, b) \/ last = b
  THEN UNCHANGED <<blks, last>>
  ELSE blks' = RemoveAt(blks, Index(b)) /\ UNCHANGED last
ErofsBfree(b, hp) ==
  IF IsListEmpty(hp, b)
  THEN UNCHANGED <<blks, last>>
  ELSE /\ blks' = RemoveAt(blks, Index(b))
       /\ last' = IF last = b THEN JUNK ELSE last

\* The bucket list b is in once ErofsBfree is done with it.
BUG_BktKept(b, hp) == blk[b].bkt
BktAfterFree(b, hp) == IF IsListEmpty(hp, b) THEN blk[b].bkt ELSE NIL

\* BDrop(bh, tryRevoke)
BDrop(bh, revoke) ==
  /\ Ready /\ Usable(bh) /\ metaCnt <= MaxMeta
  /\ LET b        == head[bh].blk
         rollback == revoke /\ Mapped(b) /\ tail = EndBlk(b)
         hp       == ListDel(heap, bh)
     IN  IF ListDelPanics(heap, bh)
         THEN Die("panic")
         ELSE /\ head' = [head EXCEPT ![bh].st = "gone", ![bh].op = "drop"]
              /\ heap' = hp
              /\ IF ~IsListEmpty(hp, b)
                 THEN UNCHANGED <<blks, blk, last, metaCnt, tail>>
                 ELSE /\ metaCnt' = IF ~rollback /\ blk[b].kind # "DATA"
                                    THEN metaCnt + NBlk(blk[b].off)
                                    ELSE metaCnt
                      /\ ErofsBfree(b, hp)
                      /\ blk' = [blk EXCEPT ![b].bkt = BktAfterFree(b, hp)]
                      /\ tail' = IF rollback THEN blk[b].addr ELSE tail
              /\ Quiet
              /\ UNCHANGED <<call, status>>

\* ErofsBflush(bmgr, bb), stop being bb or nil.
ErofsBflush(stop) ==
  /\ Ready /\ metaCnt <= MaxMeta
  /\ IF blks = <<>>
     THEN ret' = "0" /\ UNCHANGED call
     ELSE /\ call' = [fn |-> "flush", at |-> "block", stop |-> stop, p |-> blks[1],
                      n |-> NIL, bh |-> NIL, skip |-> FALSE]
          /\ ret' = "none"
  /\ fill' = NoFill
  /\ UNCHANGED <<blks, blk, head, heap, tail, metaCnt, last, status>>

Flushing(at) == status = "run" /\ call.fn = "flush" /\ call.at = at

\* The top of the loop: remember the next block, map this one, look at its
\* first head.
FlushBlock ==
  /\ Flushing("block")
  /\ IF call.p = call.stop
     THEN /\ call' = Idle /\ ret' = "0"
          /\ UNCHANGED <<blk, tail, last>>
     ELSE /\ MapBhInternal(call.p)
          /\ call' = [call EXCEPT
               !.n    = IF NextBlk(call.p) = BlkH THEN NIL ELSE NextBlk(call.p),
               !.skip = FALSE,
               !.bh   = IF EmptyBlk(call.p) THEN NIL ELSE heap[call.p].next,
               !.at   = IF EmptyBlk(call.p) THEN "end" ELSE "heads"]
          /\ ret' = "none"
  /\ fill' = NoFill
  /\ UNCHANGED <<blks, head, heap, metaCnt, status>>

\* The head to visit after bh: none behind a head that links to nothing, to the
\* anchor or to itself.
BUG_NextHeadIgnoresSelf(bh) ==
  IF heap[bh].next \in {NIL, call.p} THEN NIL ELSE heap[bh].next
NextHead(bh) ==
  IF heap[bh].next \in {NIL, call.p, bh} THEN NIL ELSE heap[bh].next

\* One head: its operations decide.  The next one was read before they ran.
FlushHead(bh) ==
  /\ Flushing("heads") /\ call.bh = bh
  /\ LET nbh  == NextHead(bh)
         op   == head[bh].op
         turn == call' = [call EXCEPT !.bh = nbh,
                                      !.at = IF nbh = NIL THEN "end" ELSE "heads",
                                      !.skip = @ \/ op = "skip"]
     IN  \/ /\ op \in {"nil", "skip"}
            /\ turn /\ Quiet
            /\ UNCHANGED <<blks, blk, head, heap, tail, metaCnt, last, status>>
         \/ /\ op = "busy"                            \* SkipWriteBhops.Flush: -EBUSY
            /\ call' = Idle /\ ret' = "-EBUSY" /\ fill' = NoFill
            /\ UNCHANGED <<blks, blk, head, heap, tail, metaCnt, last, status>>
         \/ /\ op = "drop" /\ ListDelPanics(heap, bh)
            /\ Die("panic")
         \/ /\ op = "drop" /\ ~ListDelPanics(heap, bh)
            /\ heap' = ListDel(heap, bh)
            /\ head' = [head EXCEPT ![bh].st = "gone"]
            /\ turn /\ Quiet
            /\ UNCHANGED <<blks, blk, tail, metaCnt, last, status>>

\* The cells of the last file-system block behind the data.
BUG_PaddingOffByOne(b) == BlkSz - ((blk[b].off - 1) % BlkSz)
Padding(b) == BlkSz - (blk[b].off % BlkSz)

\* The bottom of the loop: zero the padding, count the block, free it.
FlushEnd ==
  /\ Flushing("end")
  /\ LET p == call.p IN
     IF call.skip
     THEN fill' = NoFill /\ UNCHANGED <<blks, blk, metaCnt, last>>
     ELSE /\ fill' = IF Padding(p) # BlkSz
                     THEN [lo |-> Pos(EndBlk(p)) - Padding(p), hi |-> Pos(EndBlk(p))]
                     ELSE NoFill
          /\ metaCnt' = IF blk[p].kind # "DATA" THEN metaCnt + NBlk(blk[p].off) ELSE metaCnt
          /\ ErofsBfree(p, heap)
          /\ blk' = [blk EXCEPT ![p].bkt = BktAfterFree(p, heap)]
  /\ IF call.n = NIL
     THEN call' = Idle /\ ret' = "0"
     ELSE call' = [call EXCEPT !.p = call.n, !.at = "block"] /\ ret' = "none"
  /\ UNCHANGED <<head, heap, tail, status>>
----------------------------------------------------------------------------
(***************************************************************************)
(* The manager and its client.                                             *)
(***************************************************************************)

Client ==
  \/ \E size \in Size, req, inl \in Ext : BallocNoSpace(size, req, inl)
  \/ \E t \in BufType, size \in Size, req, inl \in Ext :
       \/ BallocSearch(t, size, req, inl)
       \/ \E b \in Block, h \in BufHead : BallocNew(b, h, t, size, req, inl)
  \/ \E bh, new \in BufHead, t \in BufType, size \in Size : Battach(bh, new, t, size)
  \/ \E bh \in BufHead, incr \in Grow : BhBalloon(bh, incr)
  \/ \E bh \in BufHead, op \in ClientOp : SetOp(bh, op)
  \/ \E bh \in BufHead, revoke \in Revoke : BDrop(bh, revoke)
  \/ MapBh(NIL) \/ \E bh \in BufHead : Usable(bh) /\ MapBh(head[bh].blk)
  \/ ErofsBflush(NIL) \/ \E bh \in BufHead : Usable(bh) /\ ErofsBflush(head[bh].blk)

Flush == FlushBlock \/ FlushEnd \/ \E bh \in BufHead : FlushHead(bh)

Next == Client \/ MapStep \/ Flush

Spec == Init /\ [][Next]_vars

\* A call that has started runs on: the program has one goroutine and these
\* calls wait for nothing.  Nothing obliges the client to make a call.
FairSpec == Spec /\ WF_vars(MapStep) /\ WF_vars(Flush)
----------------------------------------------------------------------------
(***************************************************************************)
(* Properties.                                                             *)
(***************************************************************************)

Address == Nat \cup {NULL_ADDR}

Calls ==
  {Idle}
  \cup [fn : {"map"}, t : Block \cup {BlkH, JUNK}, want : Block \cup {NIL}]
  \cup [fn : {"flush"}, at : {"block", "heads", "end"}, stop : Block \cup {NIL},
        p : Block, n : Block \cup {NIL}, bh : Block \cup BufHead \cup {NIL},
        skip : BOOLEAN]

\* Every field holds a value of its Go type.
TypeOK ==
  /\ blks \in Seq(Block)
  /\ blk \in [Block -> [kind : Kind \cup {"none"}, addr : Address, off : Nat,
                        bkt : Nat \cup {NIL}]]
  /\ head \in [BufHead -> [st : {"free", "live", "gone"}, blk : Block \cup {NIL},
                           off : Nat, op : Op \cup {"nil"},
                           by : {"none", "balloc", "attach", "balloon"}, len : Nat]]
  /\ heap \in Heaps(Block \cup BufHead)
  /\ tail \in Nat /\ metaCnt \in Nat
  /\ last \in Block \cup {BlkH, JUNK}
  /\ call \in Calls
  /\ ret \in {"none", "0", "-EBUSY"}
  /\ fill \in [lo : Nat, hi : Nat]
  /\ status \in {"run", "panic", "bug", "hang"}

\* The runs [a, a + n) and [c, c + m) have no member in common.
DisjointRuns(a, n, c, m) == n = 0 \/ m = 0 \/ a + n <= c \/ c + m <= a

\* No two mapped buffer blocks, freed ones included, share a file-system block,
\* and none reaches past TailBlkAddr, where the next one will go.  Mapping,
\* growth of a mapped block (internal.go MapBhInternal, helper.go
\* BattachInternal) and the client's order of calls must cooperate for it.
ExtentsDisjoint ==
  /\ \A b \in Block : Mapped(b) => EndBlk(b) <= tail
  /\ \A b, c \in Block :
       b # c /\ Mapped(b) /\ Mapped(c) =>
         DisjointRuns(blk[b].addr, NBlk(blk[b].off), blk[c].addr, NBlk(blk[c].off))

\* The manager hands out the image as ImageLayout promises: at growing addresses,
\* and what a mapped block has is never moved, cut or given away, not even
\* when the block is freed; only the block at TailBlkAddr gets longer.
RoomOf(b) == [at |-> blk[b].addr, n |-> IF Mapped(b) THEN NBlk(blk[b].off) ELSE 0]
Layout == INSTANCE ImageLayout WITH
            NoRoom <- [at |-> NULL_ADDR, n |-> 0],
            First  <- StartBlk,
            room   <- [b \in Block |-> RoomOf(b)],
            end    <- tail
ImplementsLayout == Layout!Spec

\* The cells [Lo, Hi) of its block that the caller of h asked for.
Lo(h) == head[h].off
Hi(h) == head[h].off + head[h].len
Attached(h) == head[h].by \in {"attach", "balloon"}
Apart(g, h) == head[g].blk # head[h].blk \/ Hi(g) <= Lo(h) \/ Hi(h) <= Lo(g)

\* Cells that Battach or BhBalloon gave to a head belong to no other such head
\* and lie inside their block (BattachInternal only ever moves the end of a
\* block forward).
AttachedCellsPrivate ==
  \A h \in BufHead :
    Attached(h) => /\ Hi(h) <= blk[head[h].blk].off
                   /\ \A g \in BufHead \ {h} : Attached(g) => Apart(g, h)

\* The heads of every block, freed ones included, and its anchor form one
\* well-linked ring, as long as BhBalloon has not linked one of them twice: the
\* walks of ErofsBflush and the tail checks of Battach and BhBalloon rely on it.
HeadsLinked ==
  \A b \in Block :
    blk[b].kind # "none" /\ (\A h \in BufHead : head[h].by = "balloon" => head[h].blk # b) =>
      Linked(heap, {b} \cup {h \in BufHead : head[h].st = "live" /\ head[h].blk = b})

\* Balloc returns: "Try to find if we could reuse an allocated buffer block"
\* (internal.go:141) ends, with or without one.
BallocReturns == status # "hang"

\* The mapped blocks come first in the ring, at growing addresses, and
\* LastMappedBlock is the last of them unless ErofsBfree lost it: where Balloc
\* inserts DATA blocks and where MapBh starts depend on it.
MappedFirst ==
  /\ \A i, j \in 1..Len(blks) :
       i < j => /\ blks[i] # blks[j]
                /\ Mapped(blks[j]) => Mapped(blks[i])
  /\ last \in Block =>
       \E i \in 1..Len(blks) :
         /\ blks[i] = last
         /\ Mapped(last)
         /\ \A j \in (i + 1)..Len(blks) : ~Mapped(blks[j])
  /\ last = BlkH => \A i \in 1..Len(blks) : ~Mapped(blks[i])
AddressesGrow ==
  \A i, j \in 1..Len(blks) :
    i < j /\ Mapped(blks[i]) /\ Mapped(blks[j]) =>
      EndBlk(blks[i]) <= blk[blks[j]].addr

\* What the calls in progress know of the ring.  MapBh stands at the last mapped
\* block; ErofsBflush has mapped every block before the one it stands at, and
\* its saved next block is another one of the ring.
WalkOK ==
  /\ call.fn = "map" => call.t = last
  /\ call.fn = "flush" =>
       \E i \in 1..Len(blks) :
         /\ blks[i] = call.p
         /\ \A j \in 1..(i - 1) : Mapped(blks[j])
         /\ call.at # "block" =>
              /\ Mapped(call.p)
              /\ \/ call.n = NIL /\ i = Len(blks)
                 \/ i < Len(blks) /\ call.n = blks[i + 1]

\* Blocks in the ring were allocated, and so was the block of every live head.
OwnersOK ==
  /\ \A b \in Block : InRing(b) => blk[b].kind # "none"
  /\ \A h \in BufHead : head[h].st = "live" => /\ head[h].blk \in Block
                                               /\ blk[head[h].blk].kind # "none"

RingInv == MappedFirst /\ WalkOK /\ OwnersOK

\* MapBh's assertion (internal.go:292) never fails: what comes behind
\* LastMappedBlock is not mapped yet.
NoMapBug == status # "bug"

\* The assertion of BfindForAttach (helper.go:74): a block sits in the bucket of
\* the cells used in its last file-system block, and only mapped blocks that
\* were not freed sit in one.
BucketMatches ==
  \A b \in Block : blk[b].bkt = (IF InRing(b) /\ Mapped(b) THEN Bucket(blk[b].off) ELSE NIL)

\* ErofsBflush's zero-fill never touches data of any mapped block.
FillsOnlyPadding ==
  [][\A b \in Block :
       Mapped(b) => DisjointRuns(Pos(blk[b].addr), blk[b].off,
                                 fill'.lo, fill'.hi - fill'.lo)]_vars

\* A complete flush that returns 0 has mapped every block still in the list, and
\* what it left there is empty or held back by a head to skip.
FlushLeaves ==
  [][call.fn = "flush" /\ call' = Idle /\ ret' = "0" /\ call.stop = NIL =>
       \A i \in 1..Len(blks') :
         LET b == blks'[i] IN
         /\ blk'[b].addr # NULL_ADDR
         /\ \/ heap'[b].next = b
            \/ \E h \in BufHead : head[h].blk = b /\ head[h].op = "skip"]_vars

\* Every call that loops over the block list comes to an end.
CallsReturn == call # Idle ~> (call = Idle \/ status # "run")
=============================================================================
