# A TLA+ development for ErgoFS

ErgoFS is a Go port of `mkfs.erofs`: a single-threaded command that lays out and writes an
EROFS image. This directory holds specifications of its parts, the TLC instances that
model-check them, and TLAPS proofs of what matters most. All paths below are relative to
the repository root; `internal.go` without a directory is `pkg/types/internal.go`, and so on.

Run everything from this directory:

    tlc -config BufMgr_layout.cfg MC_BufMgr.tla     # one model-checking run
    tlapm BufMgrProofs.tla                          # one module of proofs

`PROJECT.json` lists the runs, the findings, the mutants, the theorems and, for every
definition, the lines of source it stands for.

## 1. The system

The command (`cmd/mkfs/main.go`) opens the image, reserves the superblock in the buffer
manager, loads compression hints, sets up the compressor, flushes the buffers, writes the
superblock, resizes the image and writes a checksum.

| part | source | state it keeps | operations | calls |
|---|---|---|---|---|
| intrusive list | `list.go` | `Prev`/`Next` of every node | init, add, add at the tail, delete | nothing |
| block arithmetic | `utils.go` | none | round up and down, blocks of a length | nothing |
| buffer manager | `buffer.go`, `internal.go`, `helper.go` | block list, heads of each block, `TailBlkAddr`, `MetaBlkCnt`, `LastMappedBlock`, buckets | `Balloc`, `Battach`, `BhBalloon`, `MapBh`, `BhTell`, `BDrop`, `ErofsBflush` | lists, arithmetic; a head's flush operation (callback); zero-fill of the device |
| device I/O | `io.go`, `file.go` | the image file, a file cursor | pread, pwrite, read, zero-fill, truncate and the block-level calls on top | system calls |
| superblock | `superblkinfo.go`, `superblock.go`, `buffer.go`, `macros.go` | feature bits, checksum | reserve, write, add the checksum | buffer manager, device I/O |
| compression set-up | `pkg/compression` | algorithm table, configurations, hint list | hints file, initialisation, configuration records | list, buffer manager, device I/O |
| image opening | `pkg/util/diskbuf.go` | descriptor | open | system calls |
| command | `cmd/mkfs/main.go` | what each step returned | the steps above, in order | everything above |
| inodes | `inode.go`, `inode1.go` | the inodes, their hash table | create, fill, hash, allocate data, number, release | buffer manager, lists; never called by the command |
| file data | `inode1.go` | none | copy a file into the image | device I/O, buffer manager |
| fragments | `dedupe.go`, `inode1.go`, `inode.go` | the packed file, the hash table of fragments | begin a file, find, pack, insert, flush | system calls, lists; called by the inode code |

The package does not build as it stands (an import cycle), there are no tests, and
`pkg/writer/builder.go` is commented out. Identifiers, messages and error numbers
(`uuid.go`, `debug.go`, `error.go`) hold no state worth a property.

Hard behaviours: the process has one goroutine, so nothing is interleaved; what is hard is
the *order of calls* on the buffer manager (each one leaves lists, addresses and counters
that later calls rely on), system calls that are interrupted, write less than asked or fail
half-way through a multi-call transfer, and a stop between two writes to the image.

What makes each part correct:

* **list**: every ring stays a ring, with each node once;
* **arithmetic**: a record that fits in the last block adds no block; rounding never loses a cell;
* **buffer manager**: no two blocks share image addresses; the cells handed out belong to one
  head; the order of the list is the order of the addresses; a flush zeroes padding only, ends,
  and leaves only what it must; no assertion fails;
* **device I/O**: a transfer stays inside its range, and success means that it is complete,
  however the kernel cuts it up;
* **superblock and command**: what the image says about itself (flag, checksum, size, features)
  is true at every moment a reader can look, and "checksum written" is said only then;
* **compression set-up**: usable hints are taken in, others refused; the records are written when
  the feature bit promises them;
* **inodes**: a number tells where its inode is, and no other one has it; data blocks are inside the
  image; the hash table's rings hold what was hashed and not released;
* **file data**: the whole file, and nothing else, is in the image;
* **fragments**: what was reported as packed is where the inode says, apart from all other files, and
  the table describes it truly.

## 2. The modules

| module | models | extends or instantiates |
|---|---|---|
| `IntrusiveList` | `list.go` as functions on a heap of `prev`/`next` pointers | |
| `BlockMath` | rounding and block counts, any block size `BlkSz` | |
| `ImageLayout` | what the manager promises about the image: the abstract specification that `BufMgr` implements | |
| `BufMgr` | the buffer manager and the client's calls | `IntrusiveList`, `BlockMath`; instance of `ImageLayout` |
| `Inode` | `ErofsFillInode`, `ErofsIput`, `ErofsAllocateInodeBhData`, `ErofsLookupNid` and the hash table of `inode1.go` | `BufMgr` |
| `Fragments` | `ErofsBeginCompressedFile`, `ZErofsPackFileFromFd`, `dedupe.go`, `InitPackedFile` | `IntrusiveList` |
| `DevIo` | `io.go`, one action per system call | `BlockMath` |
| `FileData` | `WriteUncompressedFileFromFd` and `ErofsIoXcopy` of `inode1.go` | `BlockMath`, two instances of `DevIo` (input file, image) |
| `Mkfs` | `main.go` with `ReserveSuperblock`, `WriteSuperBlock`, `ErofsEnableSbChksum`, the hints and the compressor's set-up | `BufMgr`, instance of `DevIo` |
| `MC_BufMgr`, `MC_DevIo`, `MC_FileData`, `MC_Mkfs`, `MC_Inode`, `MC_Fragments` | small instances | |
| `Lemmas` | proofs about blocks' arithmetic, lists, sequences and runs of cells | `BlockMath`, `IntrusiveList` |
| `BufMgrProofs`, `LayoutProofs` | proofs about `BufMgr`: its list; the image, the cells, the rings of heads, the flush | `BufMgr`, `Lemmas` |
| `InodeProofs`, `FragmentsProofs`, `DevIoProofs`, `FileDataProofs`, `MkfsProofs` | proofs about the module of that name | that module, `Lemmas`; `InodeProofs` also `LayoutProofs`, `MkfsProofs` also `BufMgrProofs` |

### BufMgr

The ring anchored at `BufferManager.BlkH` is the sequence `blks`; the fields of a
`BufferBlock` are `blk[b]`, those of a `BufferHead` `head[h]`. The rings of heads are kept as
pointers (`heap`), because the code breaks them in ways that a sequence cannot show: `BhBalloon`
links a linked head. The fields `st`, `by` and `len` of a head are history for the properties.
Calls that do not loop over blocks are one action (`Battach`, `BhBalloon`, `BDrop`,
`BallocNew`, `SetOp`). `MapBh` and `ErofsBflush` are an action that enters the call and one per
turn of the loop (`MapStep`; `FlushBlock`, `FlushHead`, `FlushEnd`), with their locals in `call`.
`Balloc` is three actions, by what `BfindForAttach` does: it refuses (`BallocNoSpace`), asks for
a new block (`BallocNew`) or searches (`BallocSearch`), which never ends well: `ContainerOf`
returns a freshly allocated zeroed block whenever the list's own head is not what it was given, so
the loop never meets `&bmgr.BlkH`. For the same reason `ErofsBfree` leaves `LastMappedBlock` at
such a block when it frees the last mapped one: `JUNK`. A panic or an endless loop ends the
process: `Die` forgets the state.

`ImageLayout` forgets lists, heads, buckets and calls. Every client has at most one room, a run of
file-system blocks; `end` is where the next one goes. A step gives a room at the end or behind it, makes the last room
longer, or stops. `Layout` in `BufMgr` maps a block to its room (`RoomOf`: address and number of blocks) and
`TailBlkAddr` to `end`; that `BufMgr` implements it (`ImplementsLayout`) says of every step what `ExtentsDisjoint`
says of every state: no address is given twice, and a mapped block is never moved, cut or given away.

### Inode

The operations on inodes make several calls on the manager, each of which is an action of `BufMgr`;
`todo` says what is left of the operation in progress, and the manager's own loops run under it (`Turn`). In between,
other users reserve blocks, attach to them and flush (`UserStep`). An inode's life is in its `st`: made, filled (and
hashed), stored (its data has blocks), released. Two things the repository lacks are supplied: `ErofsPrepareInodeBuffer`, which
the code calls and nobody defines, is a `Battach` of one inode slot behind any head; and since `ErofsNewInode` always panics and
`NewInode` leaves the count at zero and the lists without pointers, callers may set these (exported) fields (`Made`).
`Setting` fixes `MetaBlkAddr`, `ForceInodeVersion` and whether `ErofsInodeManagerInit` was called. Numbers are
64-bit differences, hence `% Word`. The
head that `ErofsAllocateInodeBhData` gets is `busy` to a flush (`AllocBusy`), as its operations are not the ones that `ErofsBflush` passes over.
An inode may be released at any time, also one that was never filled; what was released is not used again.

### Fragments

`packed` is the temporary file and `cur` its descriptor's position; `frag[f]` the inode's `Fragmentoff` and
`FragmentSize`; the table is a heap of `IntrusiveList` over the buckets and the items, so that a nil pointer in a bucket
that was never initialised is what panics. A cell of a file is the file's name and its place: the table never
compares contents, since every item it looks at is a zeroed copy. `call` says where `ErofsBeginCompressedFile` stands; each system
call is one step and may fail or be short. `Collect` is the garbage collection that closes the packed file, whose
`os.File` `ErofsTempfile` drops. `opt` fixes the configuration and what the files are like. Three restrictions name what
callers do: `Begin` is for a rewound descriptor (`ErofsMkfsBuildSpecialFromFd` seeks first), a
file is begun again only after a failure, and nothing is packed after the flush.

### DevIo

`file` is the image cell by cell. `io` holds the locals of the loop in progress, `res` what
the last call returned; the kernel chooses how much each system call takes, or an error. `EINTR` on
pread and pwrite changes nothing, and is a stutter.
The buffer that `ErofsIoPwrite` shortens and slices again is kept as the code keeps it.

### FileData

`job.at` says where the copy stands, `inode` holds the fields it fills in. `copy_file_range` and
`sendfile` are one step each; reading and writing are `DevIo`'s, once over the input file and
once over the image. The address of the blocks is a choice: in the program `Balloc` gives one only if an
earlier DATA block is long enough, which is `BufMgr`'s matter. The command does not call this code yet;
the inputs are those its callers in `inode1.go` pass.

### Mkfs

`pc` says where `main` stands between two calls. Every step is an action of `BufMgr` or
of `DevIo` with a change of `pc`. An image block is `BlkSz` cells: what comes before the
superblock, its head (magic and checksum), its body (feature bits and the rest), and
what comes behind. A compression option is a name and a level; only `lz4` without a level is accepted. The checksum is the sequence of cells it is taken over, that is, a CRC without
collisions. A line of the hint file is one of five classes (skipped, refused, index without a
configuration, pattern that does not compile, usable); a file that cannot be opened counts as one with a refused line, and a line longer
than the loader's buffer as one with such an index, since they end the same way. `Rerun` kills the process, or follows its end,
and starts it again on the same image: `DevOpen` truncates nothing on the path `main` takes.

## 3. What TLC checks

| run | instance | shows |
|---|---|---|
| `layout` | 3 blocks of 4 cells, 2 heads; sizes 0, 3, 4; extensions 0, 2 | `ExtentsDisjoint`, `AddressesGrow`, `BucketMatches`, `FillsOnlyPadding`, `ImplementsLayout`, types |
| `heads` | 2 blocks, 3 heads, every flush operation, fairness | `AttachedCellsPrivate`, `RingInv`, `HeadsLinked`, `NoMapBug`, `FlushLeaves`, `CallsReturn` |
| `device_io` | a file of up to 9 cells; offsets 1, 4; lengths 0, 2, 5; zero buffer of 4 | `WritesStayInside`, `FillZeroes`, `WriteCovers`, `ReadFaithful`, `IoReadFaithful`, types |
| `file_data` | blocks of 2 cells; files of 0 to 8 cells; sizes 0, 1, 4, 5, 7 and one past 32 bits (`Word = 8`) | `CopyStaysInside`, `CopiesInStep`, `DoneMeansStored`, `CopyEnds`, types |
| `inodes` | 2 inodes, 2 blocks of 4 cells, 4 heads; an initialised and an uninitialised table; metadata at block 0 and 2 | `NumberLocates`, `NumbersDiffer`, `DataInsideImage`, `HashRings`, types |
| `fragments` | 3 files of 0 to 3 cells, 8 configurations, a checksum of 1 cell, items of 2 | `PackedAsPromised`, `FragmentsApart`, `ItemsTrue`, `BucketRing`, `FragCallsEnd`, types |
| `command` | blocks of 8 cells, two runs, three old images, eight hint files | `FlagMeansChecksum`, `DoneMeansWritten`, `SbPinned`, `DiesOnlyAsKnown`, `RunEnds`, types |

**Why these bounds are enough.** Each hazard of the manager needs at most: one block mapped, one not,
and one inserted between or behind (3 blocks); a head, one before and one behind it (3 heads); a length
just below, at and just above a block, also reached in two steps (`BlkSz = 4`, sizes 3 and 4,
`MaxOff = 6`). `MaxMeta` bounds `MetaBlkCnt` by keeping a flush or drop from starting above it; nothing
reads the counter. The device needs an offset inside and past the file, a length of more than one zero
buffer, and a read that is cut twice. The copy needs two whole blocks and a tail, a chunk longer than
its buffer (3 cells), and files shorter and longer than their size. The command needs one run to leave an image behind and
one to run into it. Two inodes need a metadata block with three heads (the one they attach to, and one each); an
inode's data needs a block that was made long enough (one head), a head of its own, and one mapped behind it; with four heads an
inode has a number and a data head at once, and a flush meets both. The fragments need a file as long as a
checksum, one as long as an item and a longer one, a chunk shorter than the file (`BufSize = 2`), and a failed pack
with another behind it (`MaxPacked = 4`).

Blocks, heads and inodes are interchangeable: `layout` uses symmetry. `heads`, which checks liveness, and `inodes` instead
take unused objects in one order (`AllocatedInOrder`, an action constraint): the allocator returns some unused object, and all
of them are alike. In `inodes` at most one inode is made without its lists (`OneSpoiled`).

**Fairness.** `FairSpec` has weak fairness of the steps inside `MapBh` and `ErofsBflush`,
`FdFairSpec` of the steps of a copy, `FragFairSpec` of those of a pack, and `MkfsFairSpec` of `main`'s steps: one goroutine, which waits for nobody and which the scheduler runs on.
A system call is assumed to return (and not to be interrupted for ever). Nothing makes a
client call the manager or anybody run the command again.

**Restrictions inside the properties.**
`ExtentsDisjoint` is checked with `Revoke = {FALSE}`; with `TRUE` it is violated (`revoke`).
`HeadsLinked` is about blocks none of whose heads `BhBalloon` has linked twice: such a head becomes
a ring of its own (theorem `RelinkTail`), and `compr_cfgs` shows what that leads to.
`FlagMeansChecksum` and `DoneMeansWritten` are about runs without a short write; after one, the content
is wrong (`write_faithful`). `CopiesInStep` and `DoneMeansStored` are about copies without a short write
or an interrupted `read` (see below); `CopyStaysInside` and `CopyEnds` are about all.
`NumberLocates`, `NumbersDiffer` and `DataInsideImage` are about managers on which nobody calls `BDrop` (with `tryRevoke` it gives addresses away).
`PackedAsPromised` is about what was written; whether the descriptor still leads to it is `Collect`'s matter. A bucket other than the first never gets an
item, so `ItemsTrue` knows one bucket only.

### Disagreements between the code and what it says

Each is a run that TLC ends with a counterexample; the lines are quoted in `PROJECT.json`.

| run | property | what happens |
|---|---|---|
| `revoke` | `ExtentsDisjoint` | `BDrop` gives the addresses of a listed block away |
| `balloc_hang` | `BallocReturns` | the search in `BfindForAttach` never ends |
| `write_faithful` | `WriteFaithful` | after a short write the wrong bytes follow |
| `hints_load` | `HintsLoad` | a usable hint panics (the list head is never initialised), and so does an unconfigured index |
| `compr_cfgs` | `ComprCfgsBuilt` | the compression records can never be attached |

Seen on the way, with no run of their own:

* `Balloc` that fails leaves its new block, without a head, in the list (`internal.go:216`). A new block is empty,
  so every request for whole blocks fails unless an older block of its kind is long enough, and the head it then
  gets begins where its cells end (`internal.go:224`): the cells it was asked for are another head's.
* `BhBalloon` links a linked head once more and moves its start (`helper.go:297`).
* `ErofsBlkRead` returns 0 for a read that failed at once (`io.go:14`). It does no harm in the command: the buffer
  then has no magic, and `DoneMeansWritten` holds.
* `ErofsLookupNid` panics when the inode lies *behind* the metadata's start, as it should (`inode1.go:613`); in front of it, the number wraps around.
* `ErofsNewInode` writes through a nil pointer (`inode1.go:592`).
* Of a file of 4 GiB or more only the size modulo 2^32 is written (`inode1.go:389`); one that has shrunk by
  whole blocks counts as written (`inode1.go:492`).
* `InitPackedFile` initialises the first of 65536 hash lists 65536 times (`inode.go:360`), and a fragment is
  looked up through a zeroed copy (`dedupe.go:93`): none is ever found.
* An interrupted `read` is not repeated as it should be ("except for interrupts which we retry", `io.go:103`): the
  position moves by -1, so the next slice starts one cell early, or is out of range (`io.go:110`).
* `ErofsIoFallocate` never ends on a device that keeps failing, since `ret < 0` never holds (`io.go:174`); only zero-fills of more
  than `EROFS_MAX_BLOCK_SIZE` get there, and the program makes none.
* The loop over the blocks of a file never moves `ii` (`inode1.go:396`): right only because a chunk can be as long as 32 bits allow.
* The size of a regular file is never recorded: its `case` is empty, and a Go case does not fall through (`inode1.go:562`). So
  `WriteUncompressedFileFromFd` and the packing see a file of no bytes.
* An inode without a number counts as the packed one, as `EROFS_PACKED_NID_UNALLOCATED` is 0 (`inode1.go:766`): a new inode
  always gets the compact form, wide owner or not, and is neither deduplicated nor packed.
* `IGid` takes `st.Uid` (`inode1.go:681`). A 16-bit mode never has Go's directory bit, so data blocks are always of type DATA (`inode1.go:521`).
  `IBlkaddr` is the address of the buffer block, although the head begins further on (`inode1.go:540`).
* `ErofsAllocateInodeBhData` gives its head `&SkipWriteBhops` (`inode1.go:531`), which is not the `SkipWriteOps` that
  `ErofsBflush` compares with (`internal.go:60`). Its `Flush` returns -EBUSY, and `ErofsBflush` returns at once: after one such
  allocation no full flush succeeds any more, and the blocks behind are neither mapped nor freed. The inodes keep their places all the
  same (`DataInsideImage`, `NumberLocates`).
* `NewInode` leaves the count at zero, and `ErofsIput` takes the -1 it gets for a large number: such an inode stays
  in the hash table for good. `ErofsInodeManagerInit` has no caller, so the first inode that is hashed panics.
* `ErofsFlushPackedInode` takes the 0 of a successful `lseek` for a failure and returns 0 (`inode1.go:48`): the packed inode is never
  written, and anything packed afterwards would overwrite the packed file from its start.
* `GIctx` is never set, so `ErofsBeginCompressedFile` panics unless a caller sets it (`inode1.go:195`). It is shared by all files, so
  one too short to be hashed has the checksum of the file before it; harmless, because such a file is not listed.
* `zErodsApplyCompressHints` reads a field of a nil pointer (`compressHints.go:69`): with a hints file, building an inode panics.
* The sample `compress_hints.txt` names algorithms where the loader wants numbers: its first line
  makes the command fail.

### Mutants

Definitions named `BUG_...` are plausible mistakes in the operator below them. The mutants of `PROJECT.json`
put each in place of it, and TLC then finds the property violated under the run's own configuration.

## 4. What is proved

For every pool of blocks and heads, every block size and every choice of requests
(`PoolAssumption`, `SizeAssumption`, `ClientAssumption`, `BlkSzAssumption`):

* `TypesHold`, `RingInvHolds`, `MapNeverPanics` (`BufMgrProofs`), together from the inductive invariant
  `RingIInv == TypeOK /\ RingInv /\ NoMapBug`. None of the three is inductive alone. `MapBh` trips its
  assertion unless the mapped blocks come first in the list and `LastMappedBlock` is the last of them
  (`MappedFirst`). That survives a turn of a loop only if the walk agrees with the list
  (`WalkOK`): `ErofsBflush` maps the blocks itself, in order, saves the next block, then frees
  the current one, so the blocks before it must be mapped and the saved one must still be
  the next. And a block must be allocated before it is listed (`OwnersOK`), or `Balloc` could insert it twice.
  There is one lemma per action (`...KeepsRing`); four carry the argument: `MapKeeps` (mapping the next
  block), `RemoveKeeps` (freeing one), `InsertKeeps` (inserting one), `RingStutterKeeps` (all else).
* `ExtentsHold` and `LayoutImplemented` (`LayoutProofs`): without `tryRevoke`, `ExtentsDisjoint` is an invariant and
  `BufMgr` implements `ImageLayout`. The inductive invariant adds to `RingIInv` that an unallocated block has no
  address and no cells (`PoolFresh`): otherwise a new block would bring a room with it. Every step then does one of four things to the layout
  (`LayoutStep`: stay, give, grow, forget). `MapIsStep`: mapping gives a room at the tail and moves the tail past it.
  `AttachIsStep`: a mapped block grows inside its last file-system block, by `FittingKeepsBlocks`, or at the tail, and then only if it is
  the last room (`TailRoomKeepsApart`). `LayoutStepKeeps`: each of the four keeps rooms apart.
* the rest of `LayoutProofs`, about the cells and rings inside the blocks. `CellsStayPrivate`: every step leaves all cells alone, puts one head behind everything
  its block holds, or ends the process (`CellStep`), and each of the three keeps `AttachedCellsPrivate` and that a head with cells
  lies in an allocated block (`HeadsHoused`). `FillsSpareData`: the zero-fill starts where the data of the block ends and
  stays in its last file-system block, which by `ExtentsDisjoint` no other room reaches. `BucketsTell`: a bucket is written whenever `off` changes on
  a mapped block and emptied when the block leaves the ring (`InRing` moves only as `RemovedRange` and `InsertedRange` say). `ListInOrder`: a room
  is given at the tail, behind all others, to the block behind the last mapped one. `RingsStayLinked`: `HeadsLinked` alone is not inductive,
  since a ring that `BhBalloon` broke could spill into another block's. `HeapInv` adds that the links of a block, broken or not, never leave its anchor
  and the heads that name it (`Enclosed`), and, where nothing was broken, that freed heads are linked to nothing.
  `FlushDoesItAll` (an action property) needs it too: `FlushInv` says that the blocks before the one `ErofsBflush` stands at are settled, and
  that `skip` and the head it stands at are the current block's. Dropping a head keeps it because, by `Enclosed`, that writes to no
  other block's anchor, whether or not the ring is broken.
* `DevIoProofs`: all of `DevIo`'s invariants, for every file, buffer, range and size of the zero buffer, and however the kernel cuts a transfer.
  The inductive invariant `DevInv` says what is true half-way (`WriteJob`, `ReadJob`, `IoReadJob`) and what the last result claims
  (`WriteDone`, `ReadDone`, `IoReadDone`). A write's job knows only that each cell still in its buffer comes from the caller
  (`Allowed`), since short writes shift the buffer; hence `WritesCover` and no more, and `FillZeroes` because zeros are all alike.
* `FileDataProofs`: all of `FileData`'s safety, for every file, size, image and buffer, and whatever the kernel moves (`FileDataAssumption`: no input
  holds an uninitialised cell, and a word holds at least two blocks, and whole ones). `NothingElseCopied` and `CopyTypes` follow from `FdInv`: the chunk lies in the blocks of the file
  (`ChunkInside`), which have an address before anything is copied (`Addressed`), and a read or write in progress asks for no more than is left of it
  (`ReadJob`, `WriteJob`). `HandsOver` and `SaidAndStored` need `Content` besides: one chunk holds all whole blocks
  (`OneChunk`, with `BlocksFit`), so the loop turns once; and the image holds the input up to the two positions (`Together`), or, while a buffer has been read and not
  written, up to where that read began (`Brought`). `InputGoesOn` is the step all three ways of copying share.
* `InodeProofs`: all of `Inode`'s properties, on top of the above, for every set of inodes, files, blocks and heads (`InodeAssumption`). The calls the inode code
  and its neighbours make (`ManagerStep`) are shown to leave a live head and an allocated block where they are (`HeadsLast`, `BlocksLast`),
  as nobody drops heads (`HeadsLive`). `PlacesInv` then says of each inode what its head and its data block are (`Sound1`), that the head's slot is its own
  (`OwnSlots`) and what the operation in progress has reached (`Working`). `NumbersLocate` comes from this and the wrapping subtraction;
  `InodeNumbersDiffer` also needs `AttachedCellsPrivate` and `ExtentsDisjoint`, so that equal places would be the same head, and that the
  subtraction wraps once only: hence the assumption `Pos(s.meta) <= Word` (`MetaBlkAddr` has 32 bits). For `HashBuckets`, `HashRings`
  alone is not inductive: inodes could form a ring without an anchor, which the insertion and `ListDel` preserve; `Ranked` gives every inode a rank that
  falls along `next`, `TableOK` says that a released inode never reaches the count at which it is taken out again, and `Single` that one
  that was never filled is in no ring but its own, so that releasing it touches no bucket.
* `FragmentsProofs`: all of `Fragments`' safety, for every set of files, configurations, buckets and sizes (`FragmentsAssumption`). `FragInv` adds
  what a call in progress has written and where (`CallOK`), what a finished one left (`FilesOK`), and which file an item is of (`ItemsOK`).
  `ItemsTrue` is false if a checksum can be as long as an item, which TLC's instance cannot see: hence the
  assumption `HashLen < InMem` (16 bytes and 256 KiB, `constants.go:330`).
* `MkfsProofs`: all of `Mkfs`' safety, for every block size that holds the superblock twice, every old image and hint file, and any number of runs, kills
  and short writes. `MkfsInv` is `MkfsTypeOK` with two parts. `ManagerInv` adds to `RingIInv` the state of the one block and the one head at each place of
  `main` (`Fresh`, `Grown`, `Unplaced`, `Placed`, `FlushOfOne`, `Dropped`): `SuperblockIsPinned` follows. `DeviceInv` says for each place what the file and the
  locals of the transfer hold as long as the kernel wrote all it was offered: `Plain` (this run's superblock, unflagged), then
  `Signed` (flagged, with its sum), and in between a write whose next step replaces the whole block; `FlagMeansChecksum` is part of it. After a
  short write only the types are known, which is why `DeathsAreKnown` names one panic there: the checksummed write
  slices its buffer again by what is left and runs out of it (`io.go:209`). `OldFileAssumption`: no image the first run finds claims a wrong sum.
* `Lemmas`: the arithmetic of blocks, inserting into and removing from a sequence, runs of cells, and lists: adding an unlinked node
  and deleting one keep a ring well linked (`AddTailLinked`, `DelLinked`), and adding the last node once more makes it a
  ring of one (`RelinkTail`).

With this every safety property that a passing run checks, state or action, is a theorem. Only model-checked: liveness (`CallsReturn`, `CopyEnds`,
`RunEnds`, `FragCallsEnd`), which is out of the prover's reach, and the counterexamples of section 3.
The kernel is `DevIo`'s throughout: what it writes comes in the order it was asked for.

## 5. Not modelled

* `ErofsMkfsBuildSpecialFromFd` as a whole: it calls `ErofsPrepareInodeBuffer`, `ErofsWriteTailEnd` and `ErofsWriteCompressedFile`, which
  the repository does not define. Extended attributes and device numbers of inodes, and reading inodes back (commented out).
* Flag parsing, messages, random identifiers, time stamps: no property depends on them.
* The contents of the superblock beyond magic, checksum, flag and features; block devices; blobs;
  `ErofsVFile.Ops`; dry runs: constant or unused in the program.
* Allocation failure: Go panics.
* `DevOpen`'s descriptor, which a garbage collection may close: to the command it is I/O that fails,
  which `DevIo` lets happen at any call.

## 6. Plan

Done: `IntrusiveList`, `BlockMath`, `BufMgr` and its proofs, `ImageLayout` and the refinement; `DevIo` and its proofs;
`FileData`, `Inode`, `Fragments` and `Mkfs` and their proofs.

Next, in order:

1. `HintLoader`: `ErofsLoadCompressHints` field by field (sizes with their widths, indices, the list of
   hints as a heap), and the classes of `Mkfs` as its abstraction (refinement).
2. An atomic write as the abstract specification of `DevIo`, for the parts the code gets right.
3. `FileData` and `Inode` composed, once the repository defines what lies between them.

Theorems still worth proving, in order: that between two starts `Mkfs` steps on the manager as `BufMgr`'s specification with
a suitable client does, so that its theorems carry over instead of being repeated in `ManagerInv`; that `DevIo` implements the
atomic write of item 2; what bounds a walk over a sound ring of heads, the safety half of `CallsReturn`.
