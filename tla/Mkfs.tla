-------------------------------- MODULE Mkfs --------------------------------
(***************************************************************************)
(* The command (cmd/mkfs/main.go): the one client of the buffer manager    *)
(* and of the device I/O that the program has.  It reserves the superblock,*)
(* reads the compression hints, sets up the compressor, flushes, writes    *)
(* the superblock, resizes the image and adds the checksum.                *)
(*                                                                         *)
(* Every call on the buffer manager is an action of BufMgr and every       *)
(* transfer an action of DevIo; pc says where main stands between them.    *)
(* The process may be killed at any point and started again on the same    *)
(* image (DevOpen opens it without truncating).                            *)
(*                                                                         *)
(* A block has BlkSz cells: what comes before the superblock, the          *)
(* superblock's head (magic and checksum), its body (feature bits and the  *)
(* rest), and what comes behind it.                                        *)
(***************************************************************************)
EXTENDS BufMgr

CONSTANTS
  SbBb, SbBh,     \* the first buffer block and head the allocator creates
  MaxBlk,         \* EROFS_MAX_BLOCK_SIZE, in cells
  OldFile,        \* the images the first run may find
  HintFile,       \* the hint files, as sequences of lines; <<>> is none
  Alg,            \* what -c and -l may ask for: a name ("" is none) and a level
  PclusterMax,    \* Z_EROFS_PCLUSTER_MAX_SIZE, in blocks
  CfgSize,        \* the cells of a compression configuration record
  WordBlks,       \* 2^32, in blocks: cluster sizes are kept in 32 bits
  MaxRuns         \* bound: runs of the command

\* EROFS_SUPER_OFFSET and EROFS_SUPER_END
SuperOffset == 1
SuperEnd    == 3

\* A line of the hint file: its class, and the size it names, in blocks.
HintRec == [is : {"skip", "bad", "index", "regex", "good"}, blks : Nat]

ASSUME MkfsAssumption ==
  /\ SbBb \in Block /\ SbBh \in BufHead
  /\ BlkSz >= 2 * SuperEnd /\ MaxBlk \in Nat /\ MaxBlk >= BlkSz
  /\ StartBlk = 0 /\ MaxRuns \in Nat \ {0} /\ WordBlks \in Nat \ {0}
  /\ HintFile \subseteq Seq(HintRec)

VARIABLES
  file, fpos, io, res, alive,  \* see DevIo
  pc,        \* where main stands
  hints,     \* the lines of the hint file still to be read
  alg,       \* the compression option
  maxp,      \* ErofsLoadCompressHints' maxPclustersize, in blocks
  pmax,      \* GCfg.MkfsPclusterSizeMax, in blocks
  feat,      \* sbi.FeatureIncompat
  nblocks,   \* main's nblocks
  run,       \* the number of this run of the command
  shorts     \* the runs in which the kernel wrote less than it was offered

dev  == <<file, fpos, io, res, alive>>
conf == <<hints, alg, maxp, pmax, feat>>
mvars == <<vars, dev, conf, pc, nblocks, run, shorts>>

\* A cell; sum is the checksum in a superblock's head, chk and inc are the
\* feature bits in its body, by the run that wrote it.
CellOf(tag, sum, chk, inc, by) == [tag |-> tag, sum |-> sum, chk |-> chk, inc |-> inc, by |-> by]
Zero == CellOf("zero", <<>>, FALSE, {}, 0)
Old  == CellOf("old", <<>>, FALSE, {}, 0)
SbHead(sum)      == CellOf("magic", sum, FALSE, {}, 0)
SbBody(chk, inc, by) == CellOf("body", <<>>, chk, inc, by)

Dev == INSTANCE DevIo WITH
  Datum <- {Zero}, ZERO <- Zero, JUNKCELL <- CellOf("junk", <<>>, FALSE, {}, 0),
  FirstFile <- OldFile, Buffer <- {}, ReadCap <- MaxBlk, Offset <- {}, Length <- {},
  Blocks <- {}

\* MkfsDefaultOptions: clusters of one block, and one feature bit.
DefaultPmax == 1
DefaultFeat == {"0padding"}

\* Up to ErofsBufferInit: the options, and DevOpen.
MkfsInit ==
  /\ Init /\ Dev!DevInit
  /\ maxp = 0 /\ pmax = DefaultPmax /\ feat = DefaultFeat /\ nblocks = 0
  /\ hints \in HintFile /\ alg \in Alg
  /\ pc = "balloc" /\ run = 1 /\ shorts = {}

Own == <<nblocks, run, shorts>>

\* main goes from pc = a to pc = b and makes a call, or a step of one, on the
\* buffer manager, which touches neither main's options nor the device.
Calling(a, b) == pc = a /\ pc' = b /\ UNCHANGED <<dev, conf, run, shorts>>
----------------------------------------------------------------------------
(***************************************************************************)
(* ReserveSuperblock.  Its error paths lead to "unpinned", where the model *)
(* stops: SbPinned says that main never gets there.                        *)
(***************************************************************************)

ReserveBalloc ==
  /\ Calling("balloc", "setop") /\ UNCHANGED nblocks
  /\ BallocNew(SbBb, SbBh, "META", 0, 0, 0)
BUG_ReserveSetOp ==
  /\ Calling("setop", "balloon") /\ UNCHANGED nblocks
  /\ SetOp(SbBh, "drop")
ReserveSetOp ==
  /\ Calling("setop", "balloon") /\ UNCHANGED nblocks
  /\ SetOp(SbBh, "skip")
ReserveBalloon ==
  /\ BhBalloon(SbBh, SuperEnd)
  /\ Calling("balloon", IF blk' = blk THEN "unpinned" ELSE "map") /\ UNCHANGED nblocks
ReserveMap ==
  /\ MapBh(head[SbBh].blk)
  /\ Calling("map", IF call' = Idle THEN "tell" ELSE "mapping") /\ UNCHANGED nblocks
ReserveMapping ==
  /\ MapStep
  /\ Calling("mapping", IF call' = Idle THEN "tell" ELSE "mapping") /\ UNCHANGED nblocks
ReserveTell ==
  /\ pc = "tell" /\ pc' = IF BhTell(SbBh) = 0 THEN "hints" ELSE "unpinned"
  /\ UNCHANGED <<vars, dev, conf, Own>>

ReserveSuperblock ==
  ReserveBalloc \/ ReserveSetOp \/ ReserveBalloon \/ ReserveMap \/ ReserveMapping \/ ReserveTell
----------------------------------------------------------------------------
(***************************************************************************)
(* ErofsLoadCompressHints: one step per line.  A line is                   *)
(*   "skip"   empty, a comment, or with a size that is no whole number of  *)
(*            blocks;                                                      *)
(*   "bad"    too few fields, no size, or no valid configuration index     *)
(*            (an algorithm's name is none); a file that cannot be opened  *)
(*            ends the call in the same way and is one with such a line;   *)
(*   "index"  a configuration index in range but not configured, or a line *)
(*            longer than the buffer it is copied to: either panics;       *)
(*   "regex"  blks blocks for a pattern that does not compile;             *)
(*   "good"   blks blocks for a pattern that does.                         *)
(***************************************************************************)

HintLine ==
  /\ pc = "hints" /\ hints # <<>>
  /\ hints' = Tail(hints)
  /\ LET l == Head(hints) IN
     \/ /\ l.is = "skip"
        /\ UNCHANGED <<vars, pc, maxp>>
     \/ /\ l.is = "bad"
        /\ pc' = "exit"
        /\ UNCHANGED <<vars, maxp>>
     \/ /\ l.is \in {"index", "good"}   \* past the end of a slice or array; ListAddTail
        /\ pc' = "dead" /\ Die("panic")  \* to CompressHintsHead, which is all zeros
        /\ UNCHANGED maxp
     \/ /\ l.is = "regex"                \* the error is ignored
        /\ maxp' = IF l.blks > maxp THEN l.blks ELSE maxp
        /\ UNCHANGED <<vars, pc>>
  /\ UNCHANGED <<dev, alg, pmax, feat, Own>>

\* The comparison and the assignment cut maxPclustersize to 32 bits.
BUG_PmaxAfter == maxp % WordBlks
PmaxAfter == IF pmax < maxp % WordBlks THEN maxp % WordBlks ELSE pmax
HintsEnd ==
  /\ pc = "hints" /\ hints = <<>> /\ pc' = "compress"
  /\ pmax' = PmaxAfter
  /\ UNCHANGED <<vars, dev, hints, alg, maxp, feat, Own>>

\* The table of compressors holds one, and that one has no SetLevel.
Compressors == {"lz4"}
CompressorSetUp == alg.name \in Compressors /\ alg.level < 0

\* The feature bits in question; BIG_PCLUSTER and COMPR_CFGS are the same one.
ClearLz40Padding == feat' = feat \ {"0padding"}
SetBigPcluster   == feat' = feat \cup {"compr_cfgs"}

\* ZErofsCompressInit
CompressInit ==
  /\ pc = "compress"
  /\ \/ /\ alg.name = ""
        /\ pc' = "flush" /\ ClearLz40Padding
     \/ /\ alg.name # "" /\ (CompressorSetUp => pmax > PclusterMax)
        /\ pc' = "exit" /\ UNCHANGED feat
     \/ /\ CompressorSetUp /\ pmax = 1
        /\ pc' = "flush" /\ UNCHANGED feat
     \/ /\ CompressorSetUp /\ pmax \in 2..PclusterMax
        /\ pc' = "cfgs" /\ SetBigPcluster
  /\ UNCHANGED <<vars, dev, hints, alg, maxp, pmax, Own>>

\* ZErofsBuildComprCfgs attaches a record behind the superblock.  BhBalloon has
\* made the superblock's head a ring of its own, so Battach always refuses, and
\* the model has nothing behind "attached".
BuildComprCfgs ==
  /\ \E new \in BufHead : Battach(SbBh, new, "META", CfgSize)
  /\ Calling("cfgs", IF head' = head THEN "no cfgs" ELSE "attached") /\ UNCHANGED nblocks
----------------------------------------------------------------------------
(***************************************************************************)
(* Flush, superblock, size, checksum.                                      *)
(***************************************************************************)

FlushAll ==
  /\ ErofsBflush(NIL)
  /\ Calling("flush", IF call' = Idle THEN "map all" ELSE "flushing") /\ UNCHANGED nblocks
FlushGoesOn ==
  /\ Flush
  /\ Calling("flushing", IF call' # Idle THEN "flushing"
                        ELSE IF ret' = "0" THEN "map all"
                        ELSE IF status' = "run" THEN "exit" ELSE "dead")
  /\ UNCHANGED nblocks

\* WriteSuperBlock, up to its write: nblocks is MapBh's result, TailBlkAddr.
MapAll ==
  /\ Calling("map all", "mapping all") /\ UNCHANGED nblocks
  /\ MapBh(NIL)
MappingAll ==
  /\ MapStep
  /\ Calling("mapping all", IF call' = Idle THEN "write" ELSE "mapping all")
  /\ nblocks' = IF call' = Idle THEN tail' ELSE nblocks

\* The superblock as WriteSuperBlock builds it: the checksum is left out, and its
\* feature bit cleared.
BUG_FlagKept == <<Zero, SbHead(<<>>), SbBody(TRUE, feat, run)>> \o [i \in 1..(BlkSz - 3) |-> Zero]
SuperBlock == <<Zero, SbHead(<<>>), SbBody(FALSE, feat, run)>> \o [i \in 1..(BlkSz - 3) |-> Zero]

WriteSb ==
  /\ pc = "write" /\ pc' = "writing"
  /\ Dev!DevWrite(SuperBlock, BhTell(SbBh), SuperEnd)
  /\ UNCHANGED <<vars, conf, Own>>

\* The transfer in progress, in WriteSuperBlock or ErofsEnableSbChksum.  Where
\* the block size is EROFS_MAX_BLOCK_SIZE, the buffer of ErofsEnableSbChksum is as
\* long as what it writes, and a short write is followed by a panic.
Transfer ==
  /\ pc \in {"writing", "reading", "rewriting"}
  /\ Dev!DevStep
  /\ shorts' = IF Dev!PwriteGoesOn /\ io'.fn = "write" /\ io'.done < io'.want
               THEN shorts \cup {run} ELSE shorts
  /\ pc' = IF alive' THEN pc ELSE "dead"
  /\ UNCHANGED <<vars, conf, nblocks, run>>

\* WriteSuperBlock drops its head, whatever the write came to.
BUG_IgnoreWrite == "resize"
AfterWrite == IF res.ret = 0 THEN "resize" ELSE "exit"
DropSb ==
  /\ io = Dev!Resting
  /\ Calling("writing", AfterWrite) /\ UNCHANGED nblocks
  /\ BDrop(SbBh, FALSE)

Resize ==
  /\ pc = "resize"
  /\ Dev!DevResize(nblocks)
  /\ pc' = IF res'.ret = 0 THEN "read" ELSE "exit"
  /\ UNCHANGED <<vars, conf, Own>>

\* ErofsEnableSbChksum: read, check the magic, set the bit and the checksum (a
\* CRC, taken for injective) of everything from the superblock to the end of the
\* block, and write block 0.
BUG_SumOfBody(b) == <<b[SuperOffset + 2]>>
SumOf(b) == SubSeq(b, SuperOffset + 1, BlkSz)
WithSum(b) ==
  LET flagged == [b EXCEPT ![SuperOffset + 2].chk = TRUE]
  IN  [flagged EXCEPT ![SuperOffset + 1].sum = SumOf(flagged)]

ReadSb ==
  /\ pc = "read" /\ pc' = "reading"
  /\ Dev!BlkRead(0, (SuperEnd \div BlkSz + 1) * BlkSz)
  /\ UNCHANGED <<vars, conf, Own>>
CheckSb ==
  /\ pc = "reading" /\ io = Dev!Resting
  /\ IF res.ret = 0 /\ res.out[SuperOffset + 1].tag = "magic"
     THEN pc' = "rewriting" /\ Dev!DevWrite(WithSum(res.out), 0, BlkSz)
     ELSE pc' = "exit" /\ UNCHANGED dev
  /\ UNCHANGED <<vars, conf, Own>>
Rewritten ==
  /\ pc = "rewriting" /\ io = Dev!Resting
  /\ pc' = IF res.ret = 0 THEN "done" ELSE "exit"
  /\ UNCHANGED <<vars, dev, conf, Own>>
----------------------------------------------------------------------------
Main ==
  \/ ReserveSuperblock \/ HintLine \/ HintsEnd \/ CompressInit \/ BuildComprCfgs
  \/ FlushAll \/ FlushGoesOn \/ MapAll \/ MappingAll
  \/ WriteSb \/ Transfer \/ DropSb \/ Resize \/ ReadSb \/ CheckSb \/ Rewritten

\* The process is killed, or has ended, and the command is run again on the image.
Rerun ==
  /\ run < MaxRuns /\ run' = run + 1
  /\ Die("run")            \* the buffer manager as in Init
  /\ maxp' = 0 /\ pmax' = DefaultPmax /\ feat' = DefaultFeat /\ nblocks' = 0
  /\ hints' \in HintFile /\ alg' \in Alg
  /\ pc' = "balloc"
  /\ io' = Dev!Resting /\ res' = Dev!Resting /\ fpos' = 0 /\ alive' = TRUE
  /\ UNCHANGED <<file, shorts>>

MkfsNext == Main \/ Rerun

\* The process runs on until it ends; nobody has to run it again.
MkfsSpec     == MkfsInit /\ [][MkfsNext]_mvars
MkfsFairSpec == MkfsSpec /\ WF_mvars(Main)
----------------------------------------------------------------------------
(***************************************************************************)
(* Properties.                                                             *)
(***************************************************************************)

\* main's own state: where it stands, what it was told, and a cluster size that
\* no hint file can bring down to nothing.
MkfsTypeOK ==
  /\ pc \in {"balloc", "setop", "balloon", "map", "mapping", "tell", "hints", "compress",
             "cfgs", "flush", "flushing", "map all", "mapping all", "write", "writing",
             "resize", "read", "reading", "rewriting", "done", "exit", "no cfgs", "dead"}
  /\ alg \in Alg /\ hints \in Seq(HintRec)
  /\ maxp \in Nat /\ pmax \in Nat \ {0} /\ nblocks \in Nat
  /\ feat \subseteq {"0padding", "compr_cfgs"}
  /\ run \in 1..MaxRuns /\ shorts \subseteq 1..run

\* What a reader of the image makes of the checksum: the field itself counts as
\* zero.
Verified(f) ==
  f[SuperOffset + 1].sum = SubSeq([f EXCEPT ![SuperOffset + 1].sum = <<>>], SuperOffset + 1, BlkSz)
HasSuper(f) == /\ Len(f) >= SuperEnd
               /\ f[SuperOffset + 1].tag = "magic" /\ f[SuperOffset + 2].tag = "body"
Flagged(f)  == HasSuper(f) /\ f[SuperOffset + 2].chk
ChecksumRight(f) == Flagged(f) => Len(f) >= BlkSz /\ Verified(f)

\* So does the image the first run finds, if it is one.
ASSUME OldFileAssumption == \A f \in OldFile : f \in Seq(Range(f)) /\ ChecksumRight(f)

\* An image whose superblock says it has a checksum has the right one, whenever
\* the process is killed and whatever image it was started on: WriteSuperBlock
\* takes the flag away before anything changes, and ErofsEnableSbChksum puts it
\* back together with the sum.
FlagMeansChecksum == shorts = {} => ChecksumRight(file)

\* When main says that the checksum was written, the file is as long as the blocks
\* that were mapped, and block 0 is the superblock of this run, flagged, with the
\* right checksum and this run's features.  (Short writes shift what
\* ErofsIoPwrite writes: WriteFaithful in DevIo.)
DoneMeansWritten ==
  pc = "done" /\ run \notin shorts =>
    /\ \A b \in Range(blks) : Mapped(b) => Len(file) >= Pos(EndBlk(b))
    /\ Len(file) = Pos(nblocks) /\ HasSuper(file) /\ Verified(file)
    /\ file[SuperOffset + 2] = SbBody(TRUE, feat, run)

\* From ReserveSuperblock until WriteSuperBlock drops it, the superblock's head
\* lies at the start of the image, inside a block that nothing else frees or moves:
\* not the compressor's attachments, not the flush, not the second mapping.
SbPinned ==
  pc \in {"hints", "compress", "cfgs", "flush", "flushing", "map all", "mapping all",
          "write", "writing"} =>
    /\ Usable(SbBh) /\ BhTell(SbBh) = 0
    /\ head[SbBh].len <= blk[head[SbBh].blk].off

\* The process panics only over a line of the hint file, or in the write of the
\* checksummed block after the kernel wrote less than it was offered: no other
\* sequence of calls that main makes on the buffer manager or the device trips an
\* assertion, an index or a nil pointer.
DiesOnlyAsKnown ==
  [][status = "run" /\ alive /\ ~(status' = "run" /\ alive') =>
       pc = "hints" \/ (pc = "rewriting" /\ run \in shorts)]_mvars

Ended == pc \in {"done", "exit", "no cfgs", "dead"}

\* A run of the command ends, or is killed and the next one ends: the walk over
\* the superblock's heads, which BhBalloon has turned into a ring of one, is no
\* endless loop.
RunEnds == pc = "balloc" ~> Ended

\* A usable hint is taken in, "ErofsInsertCompressHints inserts a compression
\* hint" (compress.go:244), and one for a configuration that is not set up is
\* refused as an "invalid compressing configuration" (compress.go:210): neither
\* makes the command panic.
OnLine(is) == pc = "hints" /\ hints # <<>> /\ Head(hints).is = is
HintsLoad == [][OnLine("good") \/ OnLine("index") => status' = "run"]_mvars

\* The compression configurations are built when they are needed: "Attach buffer"
\* (compress.go:430) behind the superblock.
ComprCfgsBuilt == pc # "no cfgs"
=============================================================================
