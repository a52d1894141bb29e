------------------------------- MODULE DevIo -------------------------------
(***************************************************************************)
(* Device I/O (pkg/types/io.go): the loops around the system calls that    *)
(* move cells between memory and one regular file, and the block-level     *)
(* calls on top of them.                                                   *)
(*                                                                         *)
(* A system call is one step.  It may move fewer cells than asked, be      *)
(* interrupted, or fail; the kernel chooses.  The variables hold the file  *)
(* and the locals of the call in progress.  An interrupted pread or pwrite *)
(* is made again with nothing changed: that is a stuttering step.          *)
(*                                                                         *)
(* The BUG_ variants are plausible mistakes, as in BufMgr.                  *)
(*                                                                         *)
(* Left out: ErofsVFile.Ops (the program never sets it), its Offset (zero),*)
(* DryRun (false throughout), block devices and blobs.                     *)
(***************************************************************************)
EXTENDS BlockMath, SequencesExt

CONSTANTS
  Datum,          \* what a cell can hold
  ZERO,           \* the zero cell
  JUNKCELL,       \* an uninitialised cell of a read buffer
  MaxBlk,         \* EROFS_MAX_BLOCK_SIZE: the zero buffer of ErofsIoFallocate
  FirstFile,      \* the files the program may find
  Buffer,         \* the buffers the caller writes from
  ReadCap,        \* the length of the buffer it reads into
  Offset, Length, \* where, and how much
  Blocks          \* the sizes given to ErofsDevResize, in blocks

ASSUME DevAssumption ==
  /\ ZERO \in Datum /\ JUNKCELL \notin Datum
  /\ MaxBlk \in Nat \ {0} /\ ReadCap \in Nat
  /\ FirstFile \subseteq Seq(Datum) /\ Buffer \subseteq Seq(Datum)
  /\ Offset \subseteq Nat /\ Length \subseteq Nat /\ Blocks \subseteq Nat

VARIABLES
  file,      \* the cells of the file
  fpos,      \* the descriptor's own position, which read moves
  io,        \* the call in progress
  res,       \* the last call that returned, with what it was asked
  alive      \* FALSE once a slice expression has panicked

dvars == <<file, fpos, io, res, alive>>

Resting == [fn |-> "none"]

EIO == -5

Zeros(n) == [i \in 1..n |-> ZERO]

\* Cells [from, to) of a sequence, counting from 0 as the program does.
Slice(s, from, to) == SubSeq(s, from + 1, to)

\* What n cells at pos read as, zeros past the end.
Contents(f, pos, n) == [i \in 1..n |-> IF pos + i <= Len(f) THEN f[pos + i] ELSE ZERO]

\* ftruncate to n cells.
Resized(f, n) == Contents(f, 0, n)

\* pwrite of d at pos; a gap between the end of the file and pos reads as zeros.
Put(f, pos, d) ==
  [i \in 1..(IF Len(f) >= pos + Len(d) THEN Len(f) ELSE pos + Len(d)) |->
     IF i \in (pos + 1)..(pos + Len(d)) THEN d[i - pos]
     ELSE IF i <= Len(f) THEN f[i] ELSE ZERO]

DevInit ==
  /\ file \in FirstFile /\ fpos = 0
  /\ io = Resting /\ res = Resting /\ alive = TRUE

Rest == alive /\ io = Resting

\* A call begins: it is asked for len cells at off (from is what it shall write).
\* buf, pos, want and done are the locals of the loop around the system call, rest
\* is ErofsIoFallocate's length.  Two fields are history, for the properties:
\* old is the file as it was, and intr says whether a read was interrupted.
Begin(fn, off, len, from, buf, want, rest) ==
  /\ Rest
  /\ io' = [fn |-> fn, off |-> off, len |-> len, from |-> from, old |-> file,
            buf |-> buf, pos |-> off, want |-> want, done |-> 0, rest |-> rest,
            intr |-> FALSE]
  /\ res' = Resting
  /\ UNCHANGED <<file, fpos, alive>>

\* The call in progress returns ret, and an error or not, to its caller; out is
\* what it has read.
Return(ret, err, out) ==
  /\ io' = Resting
  /\ res' = [fn |-> io.fn, off |-> io.off, len |-> io.len, from |-> io.from,
             old |-> io.old, intr |-> io.intr, ret |-> ret, err |-> err, out |-> out]
  /\ UNCHANGED <<file, fpos, alive>>

\* A slice or index expression is out of range.
Panic ==
  /\ alive' = FALSE /\ io' = Resting /\ res' = Resting
  /\ UNCHANGED <<file, fpos>>

During(fns) == alive /\ io.fn \in fns
----------------------------------------------------------------------------
(***************************************************************************)
(* ErofsIoPwrite, under ErofsDevWrite and ErofsIoFallocate.                *)
(***************************************************************************)

\* ErofsIoFallocate writes at most MaxBlk zeros at a time.
Portion(n) == IF n > MaxBlk THEN MaxBlk ELSE n

DevWrite(buf, off, len) == Begin("write", off, len, buf, buf, len, 0)
DevFillzero(off, len) == Begin("fill", off, len, <<>>, Zeros(MaxBlk), Portion(len), len)

\* The loop goes on; it takes buf[done:want] of a buffer that every write
\* before has already shortened.
PwriteGoesOn == During({"write", "fill"}) /\ io.done < io.want
BUG_ChunkFromStart == Slice(io.buf, 0, io.want)
Chunk == Slice(io.buf, io.done, io.want)

\* The kernel takes the first n cells of the chunk.
BUG_PosStays(n) == [io EXCEPT !.buf = Slice(@, n, Len(@)), !.done = @ + n]
AfterPwrite(n)  == [io EXCEPT !.buf = Slice(@, n, Len(@)), !.done = @ + n, !.pos = @ + n]
PwriteSome ==
  /\ PwriteGoesOn /\ io.want <= Len(io.buf)
  /\ \E n \in 1..Len(Chunk) :
       /\ file' = Put(file, io.pos, Slice(Chunk, 0, n))
       /\ io' = AfterPwrite(n)
  /\ UNCHANGED <<fpos, res, alive>>

PwritePanics == PwriteGoesOn /\ io.want > Len(io.buf) /\ Panic

\* ErofsIoPwrite returns done, because all is written, or pwrite wrote nothing,
\* or it failed; in the last two cases less than want.
BUG_WriteVerdict == IF io.done > 0 THEN 0 ELSE EIO
WriteVerdict     == IF io.done = io.want THEN 0 ELSE EIO

\* ErofsIoFallocate goes on with what is left, whatever its pwrite returned,
\* until the last portion.
PwriteReturns ==
  /\ During({"write", "fill"})
  /\ io.done = io.want \/ io.want <= Len(io.buf)
  /\ IF io.rest > MaxBlk
     THEN LET left == io.rest - io.done IN
          /\ io' = [io EXCEPT !.buf = Zeros(MaxBlk), !.want = Portion(left),
                              !.done = 0, !.rest = left]
          /\ UNCHANGED <<file, fpos, res, alive>>
     ELSE Return(WriteVerdict, WriteVerdict # 0, <<>>)
----------------------------------------------------------------------------
(***************************************************************************)
(* ErofsIoPread, under ErofsDevRead and ErofsBlkRead.                      *)
(***************************************************************************)

NewBuf == [i \in 1..ReadCap |-> JUNKCELL]

BlkRead(off, len) == Begin("read", off, len, <<>>, NewBuf, len, 0)

\* What is in the file at pos, as far as the buffer has room for it: pread is
\* given all of buf[done:], which may be more than the caller asked for.
Least(m, n) == IF m <= n THEN m ELSE n
Available(pos, room) == Slice(file, pos, Least(Len(file), pos + room))

\* d goes into buf from cell i on.
Overlay(buf, i, d) == Slice(buf, 0, i) \o d \o Slice(buf, i + Len(d), Len(buf))

BUG_AfterPread(d) == [io EXCEPT !.buf = Overlay(@, io.done, d), !.done = @ + Len(d)]
AfterPread(d) ==
  [io EXCEPT !.buf = Overlay(@, io.done, d), !.done = @ + Len(d), !.pos = @ + Len(d)]
PreadSome ==
  /\ During({"read"}) /\ io.done < io.want
  /\ LET there == Available(io.pos, Len(io.buf) - io.done) IN
     \E n \in 1..Len(there) : io' = AfterPread(Slice(there, 0, n))
  /\ UNCHANGED <<file, fpos, res, alive>>

\* Enough was read, or the file ends: ErofsDevRead pads with zeros and returns
\* 0.  A buffer shorter than what was asked for is an index out of range.
BUG_Padded == io.buf
Padded == IF io.done < io.want THEN Overlay(io.buf, io.done, Zeros(io.want - io.done))
                               ELSE io.buf
PreadReturns ==
  /\ During({"read"})
  /\ io.done >= io.want \/ Available(io.pos, Len(io.buf) - io.done) = <<>>
  /\ IF io.want > Len(io.buf) THEN Panic ELSE Return(0, FALSE, Padded)

\* pread fails: ErofsDevRead returns what it has read so far and the error, and
\* ErofsBlkRead keeps only the number.
PreadFails ==
  /\ During({"read"}) /\ io.done < io.want
  /\ Return(io.done, TRUE, io.buf)
----------------------------------------------------------------------------
(***************************************************************************)
(* ErofsIoRead: read at the descriptor's own position.                     *)
(***************************************************************************)

\* done is the local i, and want - done the local bytes: their sum never changes.
IoRead(len) == Begin("ioread", fpos, len, <<>>, NewBuf, len, 0)

IoReadGoesOn == During({"ioread"}) /\ io.done < io.want

\* buf[i:i+chunkSize]
IoReadPanics ==
  /\ IoReadGoesOn
  /\ io.done < 0 \/ io.want > Len(io.buf)
  /\ Panic

BUG_AfterRead(d) == [io EXCEPT !.buf = Overlay(@, 0, d), !.done = @ + Len(d)]
AfterRead(d)     == [io EXCEPT !.buf = Overlay(@, io.done, d), !.done = @ + Len(d)]
IoReadSome ==
  /\ IoReadGoesOn /\ io.done >= 0 /\ io.want <= Len(io.buf)
  /\ LET there == Available(fpos, io.want - io.done) IN
     \E n \in 1..Len(there) :
       /\ io' = AfterRead(Slice(there, 0, n))
       /\ fpos' = fpos + n
  /\ UNCHANGED <<file, res, alive>>

\* An interrupted read returns n = -1 and falls through to "bytes -= n; i += n".
IoReadInterrupted ==
  /\ IoReadGoesOn /\ io.done >= 0 /\ io.want <= Len(io.buf)
  /\ io' = [io EXCEPT !.done = @ - 1, !.intr = TRUE]
  /\ UNCHANGED <<file, fpos, res, alive>>

\* All was read, or the file ends, or read fails.
IoReadReturns ==
  /\ During({"ioread"})
  /\ io.done >= io.want \/ (io.done >= 0 /\ Available(fpos, io.want - io.done) = <<>>)
  /\ Return(io.done, FALSE, io.buf)
IoReadFails == IoReadGoesOn /\ io.done >= 0 /\ Return(io.done, TRUE, io.buf)
----------------------------------------------------------------------------
(***************************************************************************)
(* ErofsDevResize: fstat, and ftruncate unless the size is right already.  *)
(***************************************************************************)

DevResize(blocks) ==
  /\ Rest
  /\ \E ok \in BOOLEAN :                              \* fstat or ftruncate may fail
       /\ file' = IF ok THEN Resized(file, blocks * BlkSz) ELSE file
       /\ res' = [fn |-> "resize", off |-> 0, len |-> blocks * BlkSz, from |-> <<>>,
                  old |-> file, intr |-> FALSE, ret |-> IF ok THEN 0 ELSE -1, err |-> ~ok, out |-> <<>>]
  /\ UNCHANGED <<fpos, io, alive>>
----------------------------------------------------------------------------
DevCall ==
  \/ \E b \in Buffer, off \in Offset, len \in Length : len <= Len(b) /\ DevWrite(b, off, len)
  \/ \E off \in Offset, len \in Length : DevFillzero(off, len)
  \/ \E off \in Offset, len \in Length : BlkRead(off, len)
  \/ \E len \in Length : IoRead(len)
  \/ \E blocks \in Blocks : DevResize(blocks)

DevStep ==
  \/ PwriteSome \/ PwritePanics \/ PwriteReturns
  \/ PreadSome \/ PreadReturns \/ PreadFails
  \/ IoReadSome \/ IoReadPanics \/ IoReadInterrupted \/ IoReadReturns \/ IoReadFails

DevNext == DevCall \/ DevStep
DevSpec == DevInit /\ [][DevNext]_dvars
----------------------------------------------------------------------------
(***************************************************************************)
(* Properties.                                                             *)
(***************************************************************************)

IoRec ==
  [fn : {"write", "fill", "read", "ioread"}, off : Nat, len : Nat, from : Seq(Datum),
   old : Seq(Datum), buf : Seq(Datum \cup {JUNKCELL}), pos : Nat, want : Nat,
   done : Int, rest : Nat, intr : BOOLEAN]
ResRec ==
  [fn : {"write", "fill", "read", "ioread", "resize"}, off : Nat, len : Nat,
   from : Seq(Datum), old : Seq(Datum), intr : BOOLEAN, ret : Int, err : BOOLEAN,
   out : Seq(Datum \cup {JUNKCELL})]

\* How the locals of a loop hang together: what it has moved is what its buffer
\* has lost (pwrite) or its position gained.
LocalsAgree ==
  /\ io.fn = "write" => /\ io.pos = io.off + io.done /\ io.want = io.len
                        /\ Len(io.buf) + io.done = Len(io.from)
  /\ io.fn = "fill"  => /\ io.pos = io.off + io.len - io.rest + io.done
                        /\ io.want = Portion(io.rest)
                        /\ Len(io.buf) + io.done = MaxBlk
  /\ io.fn = "read"  => io.pos = io.off + io.done /\ Len(io.buf) = ReadCap

\* The file holds data, and a call's locals their types.
DevTypeOK ==
  /\ file \in Seq(Datum) /\ fpos \in Nat
  /\ io \in {Resting} \cup IoRec
  /\ res \in {Resting} \cup ResRec
  /\ alive \in BOOLEAN
  /\ LocalsAgree

\* A write or zero-fill, finished or not, changes no cell outside the cells it
\* was asked to write and never shortens the file, however often the kernel takes
\* less than offered.
OnlyTheRange(c) ==
  /\ Len(file) >= Len(c.old)
  /\ Len(file) <= c.off + c.len \/ Len(file) = Len(c.old)
  /\ \A i \in 1..Len(file) :
       i <= c.off \/ i > c.off + c.len =>
         file[i] = (IF i <= Len(c.old) THEN c.old[i] ELSE ZERO)
WritesStayInside ==
  /\ io.fn \in {"write", "fill"} => OnlyTheRange(io)
  /\ res.fn \in {"write", "fill"} => OnlyTheRange(res)

\* ErofsDevFillzero that returns 0 has zeroed the whole range, and one in
\* progress what it has passed over, even after short writes shifted its buffer.
FillZeroes ==
  /\ res.fn = "fill" /\ res.ret = 0 => Contents(file, res.off, res.len) = Zeros(res.len)
                                         /\ (res.len > 0 => Len(file) >= res.off + res.len)
  /\ io.fn = "fill" => Contents(file, io.off, io.pos - io.off) = Zeros(io.pos - io.off)

\* ErofsDevWrite returns 0 only when the file reaches to the end of what was
\* asked for and no cell of the range kept a content it did not get from the
\* caller's buffer.
WriteCovers ==
  res.fn = "write" /\ res.ret = 0 =>
    /\ res.len > 0 => Len(file) >= res.off + res.len
    /\ \A i \in (res.off + 1)..(res.off + res.len) : file[i] \in Range(res.from)

\* ErofsDevWrite that returns 0 wrote what it was given: ErofsIoPwrite means to
\* "write in a loop until complete or error" (io.go:206).
WriteFaithful ==
  res.fn = "write" /\ res.ret = 0 =>
    Contents(file, res.off, res.len) = Slice(res.from, 0, res.len)

\* A block read that ran to its end holds what the file holds there, and zeros
\* where it has ended: retries and short reads lose and repeat nothing.
ReadFaithful ==
  res.fn = "read" /\ ~res.err => Slice(res.out, 0, res.len) = Contents(file, res.off, res.len)

\* ErofsIoRead, short reads and all, returns the next cells of the file and moves
\* past exactly them, unless a signal interrupts it.
NextCells ==
  /\ res.ret \in 0..res.len
  /\ Slice(res.out, 0, res.ret) = Contents(file, res.off, res.ret)
  /\ fpos = res.off + res.ret
IoReadFaithful == res.fn = "ioread" /\ ~res.intr => NextCells
=============================================================================
