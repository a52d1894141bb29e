----------------------------- MODULE Fragments -----------------------------
(***************************************************************************)
(* Fragments: whole files packed one behind the other into a temporary     *)
(* file, and the hash table of what was packed (pkg/types/inode1.go,       *)
(* ErofsBeginCompressedFile and ZErofsPackFileFromFd; dedupe.go; inode.go, *)
(* InitPackedFile).                                                        *)
(*                                                                         *)
(* Every system call is one step, as short as the kernel likes.  The       *)
(* sizes come from an earlier fstat, and a file may have become shorter.   *)
(* Nothing that was packed is ever found again: ContainerOf gives the      *)
(* search zeroed items.  The BUG_ variants are plausible mistakes, as in   *)
(* BufMgr.                                                                 *)
(***************************************************************************)
EXTENDS IntrusiveList, FiniteSetsExt, SequencesExt

CONSTANTS
  File,         \* the files to pack
  Bucket,       \* the buckets of the hash table, 0 the first
  HashLen,      \* EROFS_TOF_HASHLEN, in cells
  InMem,        \* EROFS_FRAGMENT_INMEM_SZ_MAX
  BufSize,      \* the buffer of the fallback
  Setting,      \* what is fixed for a run, see below
  MaxPacked,    \* bound: no file is begun once so much was packed
  ZERO

\* GCfg.Fragments, AllFragments and FragmentDedupe; whether a caller has set
\* GIctx (the program never does); what InitPackedFile is asked for; and of each
\* file the size that fstat has found, how long it is now, the bucket of its last
\* HashLen cells and whether its inode has a number already.
Settings == [fragments : BOOLEAN, all : BOOLEAN, dedupe : {"full", "inode", "off"},
             ctx : BOOLEAN, hash : BOOLEAN,
             stat : [File -> [size : Nat, length : Nat, tail : Bucket, numbered : BOOLEAN]]]

ASSUME FragmentsAssumption ==
  /\ 0 \in Bucket /\ File \cap Bucket = {} /\ NIL \notin File \cup Bucket
  /\ {HashLen, InMem, BufSize} \subseteq Nat \ {0} /\ HashLen < InMem
  /\ (\A s \in Setting : s \in Settings) /\ MaxPacked \in Nat

VARIABLES
  epi,          \* sbi.PackedInode
  packed, cur,  \* the temporary file, and its descriptor's position
  heap,         \* the pointers of epi.Hash and of the items; f's item is f
  item,         \* what the items say: [pos, len]
  fpos,         \* the position of each file's descriptor
  frag,         \* each inode's Fragmentoff and FragmentSize, and how its last call ended
  crc,          \* GIctx.tofChksum, as a bucket
  call,         \* the call in progress
  flushed,      \* ErofsFlushPackedInode has run
  status, opt

fvars == <<epi, packed, cur, heap, item, fpos, frag, crc, call, flushed, status, opt>>

ISize(f)    == opt.stat[f].size
Length(f)   == opt.stat[f].length
TailHash(f) == opt.stat[f].tail

Idle     == [at |-> "idle"]
NoEpi    == [fd |-> "none", hash |-> FALSE]
NoItem   == [pos |-> 0, len |-> 0]
Unpacked == [off |-> 0, size |-> 0, st |-> "none"]

FragInit ==
  /\ opt \in Setting
  /\ epi = NoEpi /\ packed = <<>> /\ cur = 0
  /\ heap = [x \in Bucket \cup File |-> Unlinked]
  /\ item = [f \in File |-> NoItem]
  /\ fpos = [f \in File |-> 0] /\ frag = [f \in File |-> Unpacked]
  /\ crc = 0 /\ call = Idle /\ flushed = FALSE /\ status = "run"

Ready     == status = "run" /\ call = Idle
At(place) == status = "run" /\ call.at = place
GoTo(place) == call' = [call EXCEPT !.at = place]

\* A nil pointer, or a type assertion on a nil error.
Die == /\ status' = "panic"
       /\ UNCHANGED <<epi, packed, cur, heap, item, fpos, frag, crc, call, flushed, opt>>

Return(f, st) == call' = Idle /\ frag' = [frag EXCEPT ![f].st = st]
Fail(f)       == Return(f, "error")

Same == UNCHANGED <<epi, flushed, status, opt>>
----------------------------------------------------------------------------
(***************************************************************************)
(* The packed file.                                                        *)
(***************************************************************************)

\* InitPackedFile: the packed inode is there before its file is, and stays when
\* there is none; its Fd is then 0, standard input, which cannot be sought in.
\* The loop over the buckets initialises the first one each time.
InitPackedFile ==
  /\ Ready /\ epi = NoEpi
  /\ \E fd \in {"temp", "stdin"} : epi' = [fd |-> fd, hash |-> opt.hash]
  /\ heap' = IF opt.hash THEN InitListHead(heap, 0) ELSE heap
  /\ UNCHANGED <<packed, cur, item, fpos, frag, crc, call, flushed, status, opt>>

\* ErofsTempfile drops the os.File and keeps the number: a garbage collection
\* closes the file.  (That the number may be reused then is left out.)
Collect ==
  /\ status = "run" /\ epi.fd = "temp"
  /\ epi' = [epi EXCEPT !.fd = "closed"]
  /\ UNCHANGED <<packed, cur, heap, item, fpos, frag, crc, call, flushed, status, opt>>

\* ErofsFlushPackedInode: -EINVAL without fragments, else it rewinds and takes
\* the 0 that lseek returns for a reason to stop.  Nothing is packed after it.
ErofsFlushPackedInode ==
  /\ Ready /\ ~flushed
  /\ flushed' = TRUE
  /\ cur' = IF epi.fd = "temp" /\ opt.fragments THEN 0 ELSE cur
  /\ UNCHANGED <<epi, packed, heap, item, fpos, frag, crc, call, status, opt>>
----------------------------------------------------------------------------
(***************************************************************************)
(* ErofsBeginCompressedFile, for a descriptor that its caller has rewound. *)
(***************************************************************************)

\* erofsIsPackedInode: an inode without a number counts as the packed one.
IsPacked(f) == ~opt.stat[f].numbered
Dedupes(f)  == opt.fragments /\ ~IsPacked(f) /\ opt.dedupe # "off"
Packs(f)    == opt.all /\ ~IsPacked(f)

\* A caller begins a file again only after a failure.
Begin(f) ==
  /\ Ready /\ ~flushed /\ frag[f].st # "ok" /\ Len(packed) < MaxPacked
  /\ \/ ~opt.ctx /\ Die
     \/ /\ opt.ctx
        /\ fpos' = [fpos EXCEPT ![f] = 0]
        /\ frag' = [frag EXCEPT ![f] = Unpacked]
        /\ call' = [at |-> IF Dedupes(f) THEN "tail" ELSE "pack", f |-> f, left |-> 0]
        /\ Same /\ UNCHANGED <<packed, cur, heap, item, crc>>

\* ZErofsFragmentsDedupe: the checksum of the last cells.  A read that is short
\* without an error panics.
ReadTail(f) ==
  /\ At("tail") /\ call.f = f
  /\ \/ /\ ISize(f) <= HashLen
        /\ GoTo("pack") /\ UNCHANGED <<fpos, frag, crc, status>>
     \/ /\ ISize(f) > HashLen /\ Length(f) >= ISize(f)
        /\ fpos' = [fpos EXCEPT ![f] = ISize(f)]
        /\ crc' = TailHash(f)
        /\ GoTo("find") /\ UNCHANGED <<frag, status>>
     \/ /\ ISize(f) > HashLen /\ Length(f) < ISize(f)
        /\ status' = "panic" /\ UNCHANGED <<fpos, frag, crc, call>>
     \/ /\ ISize(f) > HashLen                           \* an error
        /\ fpos' = [fpos EXCEPT ![f] = ISize(f) - HashLen]
        /\ Fail(f) /\ UNCHANGED <<crc, status>>
  /\ UNCHANGED <<epi, packed, cur, heap, item, flushed, opt>>

\* ZErofsFragmentsDedupeFind finds nothing in the first bucket, and meets a nil
\* pointer in the others; so FRAGDEDUPE_INODE has nothing to discard either.
BUG_RewoundTo(f) == fpos[f]
RewoundTo(f) == 0
NoTable == epi.fd = "none" \/ ~epi.hash
ZErofsFragmentsDedupeFind(f) ==
  /\ At("find") /\ call.f = f
  /\ \/ /\ NoTable \/ heap[crc].next = NIL
        /\ Die
     \/ /\ ~NoTable
        /\ \/ /\ heap[crc].next # NIL
              /\ fpos' = [fpos EXCEPT ![f] = RewoundTo(f)]
              /\ GoTo("pack") /\ UNCHANGED frag
           \/ /\ ~IsListEmpty(heap, crc)                \* pread fails
              /\ Fail(f) /\ UNCHANGED fpos
        /\ Same /\ UNCHANGED <<packed, cur, heap, item, crc>>

\* ZErofsPackFileFromFd: the file goes where the packed file's descriptor
\* stands.  Where mmap fails, as it does for an empty file, it is copied.
BUG_Start == LET size(f) == frag[f].size
             IN  MapThenSumSet(size, {f \in File : frag[f].st = "ok"})
Start == cur
PackStart(f) ==
  /\ At("pack") /\ call.f = f
  /\ \/ Packs(f) /\ epi.fd = "none" /\ Die
     \/ /\ ~Packs(f) \/ epi.fd # "none"
        /\ \/ /\ ~Packs(f)
              /\ Return(f, "ok")
           \/ /\ Packs(f) /\ epi.fd # "temp"            \* the seek fails
              /\ Fail(f)
           \/ /\ Packs(f) /\ epi.fd = "temp"
              /\ frag' = [frag EXCEPT ![f].off = Start, ![f].size = ISize(f)]
              /\ \E how \in IF ISize(f) = 0 THEN {"copy"} ELSE {"copy", "mapped"} :
                   call' = [call EXCEPT !.at = how, !.left = ISize(f)]
        /\ Same /\ UNCHANGED <<packed, cur, heap, item, fpos, crc>>

\* Cells from+1 to from+n of f as a mapping shows them.
CellsOf(f, from, n) ==
  [k \in 1..n |-> IF from + k <= Length(f) THEN <<f, from + k>> ELSE ZERO]

\* write(2) on the packed file.
Put(cells) ==
  /\ cells # <<>> => epi.fd = "temp"
  /\ packed' = SubSeq(packed, 1, cur) \o cells
               \o SubSeq(packed, cur + Len(cells) + 1, Len(packed))
  /\ cur' = cur + Len(cells)

\* One write of the whole mapping.
PackMapped(f) ==
  /\ At("mapped") /\ call.f = f
  /\ \E n \in 0..ISize(f) :
       /\ Put(CellsOf(f, 0, n))
       /\ IF n = ISize(f) THEN GoTo("insert") /\ UNCHANGED frag ELSE Fail(f)
  /\ Same /\ UNCHANGED <<heap, item, fpos, crc>>

\* One turn of the fallback: read, then write what was read.  The end of the
\* file is an error.
BUG_AtEnd(f) == FALSE
AtEnd(f) == fpos[f] >= Length(f)
BUG_LeftAfter(n) == call.left - BufSize
LeftAfter(n) == call.left - n
PackCopy(f) ==
  /\ At("copy") /\ call.f = f /\ call.left > 0
  /\ \/ /\ AtEnd(f)
        /\ Fail(f) /\ UNCHANGED <<packed, cur, fpos>>
     \/ \E n \in 1..Min({BufSize, call.left, Length(f) - fpos[f]}), w \in 0..BufSize :
          /\ w <= n /\ Put(CellsOf(f, fpos[f], w))
          /\ fpos' = [fpos EXCEPT ![f] = @ + n]
          /\ IF w = n THEN call' = [call EXCEPT !.left = LeftAfter(n)] /\ UNCHANGED frag
             ELSE Fail(f)
  /\ Same /\ UNCHANGED <<heap, item, crc>>

\* What was copied is not entered into the table.
PackCopied(f) ==
  /\ At("copy") /\ call.f = f /\ call.left <= 0
  /\ fpos' = [fpos EXCEPT ![f] = RewoundTo(f)]
  /\ Return(f, "ok")
  /\ Same /\ UNCHANGED <<packed, cur, heap, item, crc>>

\* ZErofsFragmentsDedupeInsert: nothing of a short file, the end of a long one.
BUG_ItemPos(f) == frag[f].off
ItemPos(f) == IF ISize(f) > InMem THEN frag[f].off + (ISize(f) - InMem) ELSE frag[f].off
BUG_Enlisted(f) == ListAdd(heap, f, crc)
Enlisted(f) == ListAddTail(heap, f, crc)
ZErofsFragmentsDedupeInsert(f) ==
  /\ At("insert") /\ call.f = f
  /\ \/ /\ ISize(f) <= HashLen
        /\ Return(f, "ok")
        /\ Same /\ UNCHANGED <<packed, cur, heap, item, fpos, crc>>
     \/ /\ ISize(f) > HashLen /\ (~epi.hash \/ heap[crc].prev = NIL)
        /\ Die
     \/ /\ ISize(f) > HashLen /\ epi.hash /\ heap[crc].prev # NIL
        /\ heap' = Enlisted(f)
        /\ item' = [item EXCEPT ![f] = [pos |-> ItemPos(f), len |-> Min({ISize(f), InMem})]]
        /\ Return(f, "ok")
        /\ Same /\ UNCHANGED <<packed, cur, fpos, crc>>

Step == \E f \in File :
  \/ ReadTail(f) \/ ZErofsFragmentsDedupeFind(f)
  \/ PackStart(f) \/ PackMapped(f) \/ PackCopy(f) \/ PackCopied(f)
  \/ ZErofsFragmentsDedupeInsert(f)

FragNext ==
  \/ InitPackedFile \/ Collect \/ ErofsFlushPackedInode
  \/ \E f \in File : Begin(f)
  \/ Step

\* A call that has begun runs on.
FragFairSpec == FragInit /\ [][FragNext]_fvars /\ WF_fvars(Step)
----------------------------------------------------------------------------
(***************************************************************************)
(* Properties.                                                             *)
(***************************************************************************)

Packed(f) == frag[f].st = "ok" /\ frag[f].size > 0
Listed    == {f \in File : item[f].len > 0}
Slice(pos, len) == SubSeq(packed, pos + 1, pos + len)

\* Every field holds a value of its type; what is left to copy never gets
\* negative, and the packed file's position never leaves it.
FragTypeOK ==
  /\ epi \in [fd : {"none", "temp", "stdin", "closed"}, hash : BOOLEAN]
  /\ packed \in Seq((File \X Nat) \cup {ZERO}) /\ cur \in 0..Len(packed)
  /\ heap \in Heaps(Bucket \cup File)
  /\ item \in [File -> [pos : Nat, len : Nat]]
  /\ fpos \in [File -> Nat] /\ crc \in Bucket
  /\ frag \in [File -> [off : Nat, size : Nat, st : {"none", "ok", "error"}]]
  /\ call \in {Idle} \cup [at : {"tail", "find", "pack", "copy", "mapped", "insert"},
                           f : File, left : Nat]
  /\ flushed \in BOOLEAN /\ status \in {"run", "panic"}

\* What ErofsBeginCompressedFile hands on: the descriptor at its start, and of a
\* packed file what was written at Fragmentoff, whatever packs that failed half-way
\* have left there.
PackedAsPromised ==
  \A f \in File : frag[f].st = "ok" =>
    /\ fpos[f] = 0
    /\ Packed(f) => Slice(frag[f].off, frag[f].size) = CellsOf(f, 0, ISize(f))

\* No two packed files share a cell of the packed file (they are not deduplicated
\* against each other, and the descriptor's position is where the last one ended).
FragmentsApart ==
  \A f, g \in File : f # g /\ Packed(f) /\ Packed(g) =>
    \/ frag[f].off + frag[f].size <= frag[g].off
    \/ frag[g].off + frag[g].size <= frag[f].off

\* An item of the table says where the end of its file is in the packed file, and
\* sits in the bucket of that end: GIctx.tofChksum may be an earlier file's, but
\* not when it is used.
ItemsTrue ==
  \A f \in Listed :
    /\ item[f].len > HashLen
    /\ Slice(item[f].pos, item[f].len) = CellsOf(f, ISize(f) - item[f].len, item[f].len)
    /\ opt.fragments /\ opt.dedupe # "off" =>
         TailHash(f) = 0                    \* the one bucket that works

\* The first bucket's ring holds the anchor and the items, in the order in which
\* they were packed, and no other bucket points anywhere.
BucketRing ==
  /\ epi.hash => Linked(heap, {0} \cup Listed)
  /\ \A b \in Bucket \ {0} : heap[b] = Unlinked
  /\ \A f \in Listed : heap[f].next # 0 => item[f].pos < item[heap[f].next].pos

\* Every call comes to an end: the fallback gets to the end of the file or stops.
FragCallsEnd == call # Idle ~> (call = Idle \/ status # "run")
=============================================================================
