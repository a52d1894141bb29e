------------------------------ MODULE FileData ------------------------------
(***************************************************************************)
(* Writing the data of one uncompressed file into the image                *)
(* (pkg/types/inode1.go, WriteUncompressedFileFromFd and ErofsIoXcopy).    *)
(*                                                                         *)
(* Whole blocks go to the address that the buffer manager gave, the rest   *)
(* stays in the inode.  The blocks are copied by copy_file_range, then by  *)
(* sendfile, then by reading and writing: each takes up where the one      *)
(* before it stopped, the input at its descriptor's position and the image *)
(* at pos.  A system call is one step, and moves as much as the kernel     *)
(* likes; reading and writing are those of DevIo, with all they do wrong.  *)
(*                                                                         *)
(* The size comes from an fstat made earlier: the file may be shorter, or  *)
(* longer, by now.  The BUG_ variants are plausible mistakes, as in BufMgr.*)
(***************************************************************************)
EXTENDS BlockMath, SequencesExt

CONSTANTS
  Source,       \* the input files, as sequences of cells
  ISize,        \* the sizes that fstat has found
  Image,        \* the image before
  Addr,         \* the block addresses that the buffer manager may give
  BufSize,      \* the buffer of the last resort, in cells
  Word,         \* 2^32, in cells: block counts are made from 32 bits of a size
  ZERO, JUNKCELL, NULL_ADDR

ASSUME FileDataAssumption ==
  /\ \A s \in Source \cup {Image} : s \in Seq(Range(s)) /\ JUNKCELL \notin Range(s)
  /\ ISize \subseteq Nat /\ Addr \subseteq Nat /\ NULL_ADDR \notin Nat
  /\ BufSize \in Nat \ {0} /\ Word \in Nat /\ Word >= 2 * BlkSz /\ Word % BlkSz = 0

VARIABLES
  src, spos,      \* the input file, and its descriptor's position
  rd, rdres,      \* ErofsIoRead's call in progress, and its last result
  img,            \* the image
  wr, wrres,      \* the same for ErofsIoPwrite
  alive,          \* FALSE once a slice expression has panicked
  inode,          \* the inode's ISize, IBlkaddr, Idata and whether its data source
                  \* is a disk buffer (ErofsIoXcopy's noseek)
  job             \* where the copy stands, and its locals

fdvars == <<src, spos, rd, rdres, img, wr, wrres, alive, inode, job>>

In == INSTANCE DevIo WITH
  Datum <- {}, MaxBlk <- 0, FirstFile <- {}, Buffer <- {}, ReadCap <- BufSize,
  Offset <- {}, Length <- {}, Blocks <- {}, file <- src, fpos <- spos, io <- rd, res <- rdres
Out == INSTANCE DevIo WITH
  Datum <- {}, MaxBlk <- 0, FirstFile <- {}, Buffer <- {}, ReadCap <- 0,
  Offset <- {}, Length <- {}, Blocks <- {}, file <- img, fpos <- 0, io <- wr, res <- wrres

Base == inode.addr * BlkSz

\* uint32(ISize) >> BlkSzBits, and what is behind the last whole block
NBlocks  == (inode.isize % Word) \div BlkSz
TailSize == (inode.isize % Word) % BlkSz

\* job.i is the loop's i, in blocks; chunk its len; pos and left are ErofsIoXcopy's
\* pos and length; put is what ErofsIoPwrite returned.  Two fields are history:
\* a read was interrupted, and the kernel wrote less than it was offered.
FdInit ==
  /\ src \in Source /\ spos = 0 /\ img = Image /\ alive = TRUE
  /\ rd = In!Resting /\ rdres = In!Resting /\ wr = Out!Resting /\ wrres = Out!Resting
  /\ inode \in [isize : ISize, addr : {NULL_ADDR}, idata : {<<>>}, diskbuf : BOOLEAN]
  /\ job = [at |-> "start", i |-> 0, chunk |-> 0, pos |-> 0, left |-> 0, put |-> 0,
            intr |-> FALSE, short |-> FALSE]

At(place) == alive /\ job.at = place
GoTo(place) == job' = [job EXCEPT !.at = place]
Still == UNCHANGED <<src, alive, rd, rdres, wr, wrres>>
----------------------------------------------------------------------------
\* ErofsAllocateInodeBhData: a file without a whole block gets no address, and
\* any other one what the buffer manager gives, which may refuse.
Allocate ==
  /\ At("start")
  /\ \/ NBlocks = 0 /\ GoTo("loop") /\ UNCHANGED inode
     \/ NBlocks > 0 /\ GoTo("failed") /\ UNCHANGED inode
     \/ NBlocks > 0 /\ GoTo("loop") /\ \E a \in Addr : inode' = [inode EXCEPT !.addr = a]
  /\ Still /\ UNCHANGED <<spos, img>>

\* The loop over the blocks.  The code never moves its ii, so that a second turn
\* would copy to the same place; but a chunk is as long as 32 bits allow, and so
\* is the number of blocks.
MaxChunk == Word - BlkSz
CopyChunk ==
  /\ At("loop") /\ job.i < NBlocks
  /\ LET len == In!Least(MaxChunk, NBlocks * BlkSz) IN
     job' = [job EXCEPT !.at = "range", !.chunk = len, !.pos = Base, !.left = len]
  /\ Still /\ UNCHANGED <<spos, img, inode>>
----------------------------------------------------------------------------
(***************************************************************************)
(* ErofsIoXcopy(bdev, pos, fd, left, diskbuf).                             *)
(***************************************************************************)

\* The kernel moves the next n cells of the input to pos; none is also a failure.
Movable == 0..In!Least(job.left, Len(src) - spos)
Moved(n) ==
  /\ img' = IF n = 0 THEN img ELSE Out!Put(img, job.pos, In!Slice(src, spos, spos + n))
  /\ spos' = spos + n

AfterMove(n) == [job EXCEPT !.pos = @ + n, !.left = @ - n]

\* copy_file_range, which also moves pos.
BUG_AfterRange(n) == [job EXCEPT !.pos = @ + n]
AfterRange(n) == AfterMove(n)
CopyFileRange ==
  /\ At("range")
  /\ \E n \in Movable :
       /\ Moved(n)
       /\ job' = [AfterRange(n) EXCEPT
                    !.at = IF job.left > n /\ ~inode.diskbuf THEN "sendfile" ELSE "manual"]
  /\ Still /\ UNCHANGED inode

\* Seek to pos, and sendfile; a failing seek is a sendfile of nothing.
BUG_AfterSendfile(n) == [job EXCEPT !.left = @ - n]
AfterSendfile(n) == AfterMove(n)
Sendfile ==
  /\ At("sendfile")
  /\ \E n \in Movable :
       /\ Moved(n)
       /\ job' = [AfterSendfile(n) EXCEPT !.at = "manual"]
  /\ Still /\ UNCHANGED inode

\* The last resort: read a buffer full, write it, until nothing is left.
ReadSome ==
  /\ At("manual") /\ job.left > 0
  /\ In!IoRead(In!Least(BufSize, job.left))
  /\ GoTo("reading")
  /\ UNCHANGED <<img, wr, wrres, inode>>
Reading ==
  /\ At("reading") /\ rd # In!Resting
  /\ In!DevStep
  /\ job' = [job EXCEPT !.intr = @ \/ In!IoReadInterrupted]
  /\ UNCHANGED <<img, wr, wrres, inode>>

\* The buffer: zeros where nothing was read.
Filled(buf) == [i \in 1..Len(buf) |-> IF buf[i] = JUNKCELL THEN ZERO ELSE buf[i]]

ReadDone(place) == At("reading") /\ rd = In!Resting /\ GoTo(place) /\ UNCHANGED <<spos, img, inode>>
ReadFailed == ReadDone("failed") /\ rdres.err /\ Still
\* Nothing was read, and ErofsIoXcopy returns nil.
BUG_AtEnd == "manual"
AtEnd == "copied"
NothingRead == ReadDone(AtEnd) /\ ~rdres.err /\ rdres.ret <= 0 /\ Still
WriteSome ==
  /\ ReadDone("writing") /\ ~rdres.err /\ rdres.ret > 0
  /\ Out!DevWrite(In!Slice(Filled(rdres.out), 0, rdres.len), job.pos, rdres.ret)
  /\ UNCHANGED <<src, rd, rdres>>

Writing ==
  /\ At("writing") /\ wr # Out!Resting
  /\ Out!DevStep
  /\ job' = [job EXCEPT !.put = wr.done,
               !.short = @ \/ (wr.done < wr.want /\ (wr' = Out!Resting \/ wr'.done < wr.want))]
  /\ UNCHANGED <<src, spos, rd, rdres, inode>>

\* A write that came to nothing is an error or not: pwrite failed, or returned 0.
WriteFailed ==
  /\ At("writing") /\ wr = Out!Resting /\ job.put < rdres.ret
  /\ GoTo("failed")
  /\ Still /\ UNCHANGED <<spos, img, inode>>
Written ==
  /\ At("writing") /\ wr = Out!Resting
  /\ job' = [AfterMove(job.put) EXCEPT !.at = "manual"]
  /\ Still /\ UNCHANGED <<spos, img, inode>>

Copied ==
  /\ At("copied") \/ (At("manual") /\ job.left = 0)
  /\ job' = [job EXCEPT !.at = "loop", !.i = @ + job.chunk \div BlkSz]
  /\ Still /\ UNCHANGED <<spos, img, inode>>

Xcopy ==
  \/ CopyFileRange \/ Sendfile \/ ReadSome \/ Reading \/ ReadFailed \/ NothingRead
  \/ WriteSome \/ Writing \/ WriteFailed \/ Written \/ Copied
----------------------------------------------------------------------------
\* What is behind the last whole block is read from where the copy has left the
\* input, in full or not at all.
BUG_Rest == In!Slice(src, 0, TailSize)
Rest == In!Slice(src, spos, spos + TailSize)
ReadTail ==
  /\ At("loop") /\ job.i >= NBlocks
  /\ \/ TailSize = 0 /\ GoTo("done") /\ UNCHANGED <<spos, inode>>
     \/ /\ TailSize > 0 /\ spos + TailSize <= Len(src)
        /\ inode' = [inode EXCEPT !.idata = Rest] /\ spos' = spos + TailSize
        /\ GoTo("done")
     \/ TailSize > 0 /\ GoTo("failed") /\ UNCHANGED <<spos, inode>>
  /\ Still /\ UNCHANGED img

WriteUncompressedFileFromFd == Allocate \/ CopyChunk \/ Xcopy \/ ReadTail

FdSpec == FdInit /\ [][WriteUncompressedFileFromFd]_fdvars

\* The one goroutine runs on, and system calls return.
FdFairSpec == FdSpec /\ WF_fdvars(WriteUncompressedFileFromFd)
----------------------------------------------------------------------------
(***************************************************************************)
(* Properties.                                                             *)
(***************************************************************************)

Places == {"start", "loop", "range", "sendfile", "manual", "reading", "writing", "copied",
           "done", "failed"}
Copying == job.at \in {"range", "sendfile", "manual", "reading", "writing", "copied"}

\* The copy's locals, and how they hang together: what is left and what was moved
\* make up the chunk (an unsigned length never wraps).
FdTypeOK ==
  /\ spos \in 0..Len(src) /\ alive \in BOOLEAN /\ job.at \in Places
  /\ job.i \in Nat /\ job.put \in Nat /\ job.left \in Nat
  /\ Copying => job.pos + job.left = Base + job.chunk

\* Whatever the three ways of copying move, together and after any failure, they
\* change no cell of the image outside the blocks that the file was given.
CopyStaysInside ==
  \A i \in 1..Len(img) :
    inode.addr = NULL_ADDR \/ i <= Base \/ i > Base + NBlocks * BlkSz =>
      img[i] = (IF i <= Len(Image) THEN Image[i] ELSE ZERO)

Undisturbed == ~job.intr /\ ~job.short

\* The image with the first n cells of the input in place.
WithInput(n) == IF n = 0 THEN Image ELSE Out!Put(Image, Base, In!Slice(src, 0, n))

\* When one way of copying hands over to the next, the two positions agree, and the
\* image holds the input up to them and nothing else: nothing is skipped and
\* nothing copied twice.
CopiesInStep ==
  Undisturbed /\ job.at \in {"sendfile", "manual"} =>
    /\ job.pos = Base + spos
    /\ img = WithInput(spos)

\* A file whose data is said to be written is in its blocks as far as it still
\* reaches, and its last cells in the inode; sizes of 2^32 and more are cut.
DoneMeansStored ==
  job.at = "done" /\ Undisturbed /\ inode.isize < Word =>
    /\ \A i \in 1..(NBlocks * BlkSz) :
         i <= Len(src) => Base + i <= Len(img) /\ img[Base + i] = src[i]
    /\ inode.idata = In!Slice(src, inode.isize - TailSize, inode.isize)

\* The copy ends, also when the file has become shorter, a read is interrupted or
\* the kernel writes nothing.
CopyEnds == <>(job.at \in {"done", "failed"} \/ ~alive)
=============================================================================
