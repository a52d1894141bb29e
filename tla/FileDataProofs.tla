--------------------------- MODULE FileDataProofs ---------------------------
(***************************************************************************)
(* Copying a file into the image: the three ways of copying, and the loops *)
(* of reading and writing under the last of them, stay inside the blocks   *)
(* that the file was given and, unless a read was interrupted or the       *)
(* kernel wrote less than offered, store the input there, for every file,  *)
(* size, image and buffer.                                                 *)
(***************************************************************************)
EXTENDS FileData, Lemmas

\* What a cell of the input, the image or a buffer may hold.
Cell == (UNION {Range(s) : s \in Source}) \cup Range(Image) \cup {ZERO, JUNKCELL}

(***************************************************************************)
(* The operators on cells.                                                 *)
(***************************************************************************)

LEMMA InputsAreSeqs ==
  /\ \A s \in Source : s \in Seq(Cell)
  /\ Image \in Seq(Cell)
<1>1. ASSUME NEW s, s \in Seq(Range(s)), Range(s) \subseteq Cell PROVE s \in Seq(Cell)
  <2>1. Len(s) \in Nat /\ s \in [1..Len(s) -> Range(s)]
    BY <1>1, LenProperties
  <2>2. s \in [1..Len(s) -> Cell]
    BY <1>1, <2>1
  <2>. QED
    BY <2>1, <2>2, SeqOfFcn
<1>2. Range(Image) \subseteq Cell /\ \A s \in Source : Range(s) \subseteq Cell
  BY DEF Cell
<1>. QED
  BY <1>1, <1>2, FileDataAssumption

\* A slice expression, and what copying over it leaves, are those of Lemmas.
LEMMA SlicesAreCells ==
  /\ \A s, a, b : In!Slice(s, a, b) = Cells(s, a, b) /\ Out!Slice(s, a, b) = Cells(s, a, b)
  /\ \A buf, i, d : In!Overlay(buf, i, d) = Patch(buf, i, d)
  BY DEF In!Slice, Out!Slice, In!Overlay, Cells, Patch

\* What n cells from pos on of the file f hold once d was written there.
PutAt(f, pos, d, i) ==
  IF i \in (pos + 1)..(pos + Len(d)) THEN d[i - pos] ELSE IF i <= Len(f) THEN f[i] ELSE ZERO
PutLen(f, pos, d) == IF Len(f) >= pos + Len(d) THEN Len(f) ELSE pos + Len(d)
Wrote(f, pos, d, g) ==
  g \in Seq(Cell) /\ Len(g) = PutLen(f, pos, d) /\ \A i \in 1..Len(g) : g[i] = PutAt(f, pos, d, i)

LEMMA PutCells ==
  ASSUME NEW f \in Seq(Cell), NEW pos \in Nat, NEW d \in Seq(Cell)
  PROVE  Wrote(f, pos, d, Out!Put(f, pos, d))
<1>. DEFINE n == PutLen(f, pos, d)
            e(i) == PutAt(f, pos, d, i)
            p == Out!Put(f, pos, d)
<1>1. p = [i \in 1..n |-> e(i)]
  BY DEF Out!Put, PutAt, PutLen
<1>2. Len(f) \in Nat /\ Len(d) \in Nat /\ n \in Nat
  BY DEF PutLen
<1>3. ASSUME NEW i \in 1..n PROVE e(i) \in Cell
  <2>1. CASE i \in (pos + 1)..(pos + Len(d))
    <3>1. i - pos \in 1..Len(d)
      BY <1>2, <2>1
    <3>. QED
      BY <2>1, <3>1 DEF PutAt
  <2>2. CASE i \notin (pos + 1)..(pos + Len(d))
    <3>1. ZERO \in Cell
      BY DEF Cell
    <3>. QED
      BY <1>2, <2>2, <3>1 DEF PutAt
  <2>. QED
    BY <2>1, <2>2
<1>. HIDE DEF n, e, p
<1>4. p \in [1..n -> Cell]
  BY <1>1, <1>3
<1>5. p \in Seq(Cell) /\ Len(p) = n
  BY <1>2, <1>4, SeqOfFcn
<1>6. \A i \in 1..n : p[i] = e(i)
  BY <1>1
<1>. QED
  BY <1>5, <1>6 DEF n, e, p, Wrote
----------------------------------------------------------------------------
(***************************************************************************)
(* The inductive invariant.                                                *)
(***************************************************************************)

InodeRec == [isize : ISize, addr : Nat \cup {NULL_ADDR}, idata : Seq(Cell), diskbuf : BOOLEAN]
JobRec ==
  [at : Places, i : Nat, chunk : Nat, pos : Nat, left : Nat, put : Nat, intr : BOOLEAN,
   short : BOOLEAN]

\* A call of ErofsIoRead or ErofsIoPwrite, and what the first one returned.
CallRec(fn) ==
  [fn : {fn}, off : Nat, len : Nat, from : Seq(Cell), old : Seq(Cell), buf : Seq(Cell),
   pos : Nat, want : Nat, done : Int, rest : Nat, intr : BOOLEAN]
ResultRec ==
  [fn : {"ioread"}, off : Nat, len : Nat, from : Seq(Cell), old : Seq(Cell), intr : BOOLEAN,
   ret : Int, err : BOOLEAN, out : Seq(Cell)]

\* Half-way through a read: never more than was asked for, into a buffer that has
\* room for it.
Reads(c, n) ==
  /\ c \in CallRec("ioread")
  /\ c.want = n /\ c.len = n /\ c.done <= n
  /\ Len(c.buf) = BufSize
HasRead(r, n) == r \in ResultRec /\ r.len = n /\ r.ret <= n /\ Len(r.out) = BufSize

\* Half-way through a write of the cells [pos, pos + n).
Writes(c, pos, n) ==
  /\ c \in CallRec("write")
  /\ c.want = n /\ c.done \in 0..n /\ c.rest = 0
  /\ c.pos = pos + c.done

\* The loop of reading and writing asks for no more than is left.
Wanted == In!Least(BufSize, job.left)
ReadJob  == alive /\ job.at = "reading" =>
              /\ job.left > 0
              /\ Reads(rd, Wanted) \/ (rd = In!Resting /\ HasRead(rdres, Wanted))
WriteJob == alive /\ job.at = "writing" =>
              /\ rdres.ret \in 1..job.left
              /\ \/ Writes(wr, job.pos, rdres.ret)
                 \/ wr = Out!Resting /\ job.put <= job.left

\* The chunk being copied lies in the blocks of the file.
ChunkInside ==
  Copying => /\ job.pos >= Base
             /\ job.pos + job.left = Base + job.chunk
             /\ job.chunk <= NBlocks * BlkSz
\* A file with a whole block is given an address, and before it is copied.
Addressed ==
  /\ job.at = "start" => inode.addr = NULL_ADDR
  /\ job.at \notin {"start", "failed"} => NBlocks = 0 \/ inode.addr \in Nat
CopyAddressed == Copying => inode.addr \in Nat

Typed ==
  /\ src \in Seq(Cell) /\ img \in Seq(Cell) /\ Len(img) >= Len(Image)
  /\ spos \in 0..Len(src) /\ alive \in BOOLEAN
  /\ inode \in InodeRec /\ job \in JobRec
Placed == ChunkInside /\ Addressed /\ CopyAddressed
FdInv == Typed /\ Placed /\ ReadJob /\ WriteJob /\ CopyStaysInside

LEMMA Blocks32 ==
  ASSUME inode \in InodeRec
  PROVE  /\ NBlocks \in Nat /\ TailSize \in Nat /\ NBlocks * BlkSz \in Nat
         /\ BlkSz \in Nat \ {0} /\ MaxChunk \in Nat
         /\ inode.addr \in Nat => Base \in Nat
<1>. DEFINE x == inode.isize % Word
<1>1. BlkSz \in Nat \ {0} /\ Word \in Nat \ {0} /\ Word >= 2 * BlkSz
  BY BlkSzAssumption, FileDataAssumption
<1>2. inode.isize \in Nat
  BY FileDataAssumption DEF InodeRec
<1>3. x \in Nat
  BY <1>1, <1>2, DivMod
<1>. HIDE DEF x
<1>4. x \div BlkSz \in Nat /\ x % BlkSz \in Nat
  BY <1>1, <1>3
<1>5. NBlocks \in Nat /\ TailSize \in Nat
  BY <1>4 DEF NBlocks, TailSize, x
<1>. HIDE DEF NBlocks
<1>6. NBlocks * BlkSz \in Nat
  BY <1>1, <1>5
<1>7. inode.addr \in Nat => Base \in Nat
  BY <1>1 DEF Base
<1>. QED
  BY <1>1, <1>5, <1>6, <1>7 DEF MaxChunk

\* Cells written inside the blocks of the file disturb no other.
LEMMA WrittenInside ==
  ASSUME Typed, CopyStaysInside, inode.addr \in Nat, inode' = inode, NEW pos \in Nat,
         NEW d \in Seq(Cell), img' = Out!Put(img, pos, d),
         Base <= pos, pos + Len(d) <= Base + NBlocks * BlkSz
  PROVE  img' \in Seq(Cell) /\ Len(img') >= Len(Image) /\ CopyStaysInside'
<1>1. /\ img \in Seq(Cell) /\ Len(img) \in Nat /\ Len(d) \in Nat /\ Len(img) >= Len(Image)
      /\ Image \in Seq(Cell) /\ Len(Image) \in Nat
  BY InputsAreSeqs DEF Typed
<1>2. Wrote(img, pos, d, img')
  BY <1>1, PutCells
<1>3. Len(img') = PutLen(img, pos, d) /\ img' \in Seq(Cell) /\ Len(img') \in Nat
  BY <1>2 DEF Wrote
<1>4. Len(img') >= Len(Image)
  BY <1>1, <1>3 DEF PutLen
<1>. DEFINE n == NBlocks * BlkSz
<1>5. n \in Nat /\ Base \in Nat /\ Base' = Base /\ (NBlocks * BlkSz)' = n
  BY Blocks32 DEF Typed, Base, NBlocks
<1>6. pos + Len(d) <= Base + n
  OBVIOUS
<1>. HIDE DEF n
<1>7. ASSUME NEW i \in 1..Len(img'), i <= Base \/ i > Base + n
      PROVE  img'[i] = (IF i <= Len(Image) THEN Image[i] ELSE ZERO)
  <2>1. i \notin (pos + 1)..(pos + Len(d))
    BY <1>1, <1>3, <1>5, <1>6, <1>7
  <2>2. img'[i] = IF i <= Len(img) THEN img[i] ELSE ZERO
    BY <1>2, <2>1 DEF Wrote, PutAt
  <2>3. CASE i <= Len(img)
    <3>1. i \in 1..Len(img)
      BY <1>1, <1>3, <2>3
    <3>. QED
      BY <1>7, <2>2, <2>3, <3>1 DEF CopyStaysInside, n
  <2>4. CASE ~(i <= Len(img))
    BY <1>1, <1>3, <2>2, <2>4
  <2>. QED
    BY <2>3, <2>4
<1>8. inode'.addr # NULL_ADDR
  BY FileDataAssumption
<1>. QED
  BY <1>3, <1>4, <1>5, <1>7, <1>8 DEF CopyStaysInside
----------------------------------------------------------------------------
(***************************************************************************)
(* The steps of the system calls.                                          *)
(***************************************************************************)

\* What a read may take: no more than there is room for, nor past the end.
LEMMA AvailableCells ==
  ASSUME src \in Seq(Cell), NEW pos \in Nat, NEW room \in Nat,
         NEW k \in 1..Len(In!Available(pos, room))
  PROVE  /\ k <= room /\ pos + k <= Len(src)
         /\ In!Slice(In!Available(pos, room), 0, k) \in Seq(Cell)
         /\ Len(In!Slice(In!Available(pos, room), 0, k)) = k
<1>. DEFINE b == In!Least(Len(src), pos + room)
            a == SubSeq(src, pos + 1, b)
<1>1. b \in Nat /\ b <= Len(src) /\ b <= pos + room
  BY DEF In!Least
<1>2. In!Available(pos, room) = a
  BY DEF In!Available, In!Slice
<1>. HIDE DEF b
<1>3. a \in Seq(Cell) /\ Len(a) = (IF pos <= b THEN b - pos ELSE 0)
  BY <1>1, CutCells, Zenon DEF IsCut, Cells
<1>. HIDE DEF a
<1>4. k \in 1..Len(a)
  BY <1>2
<1>5. k \in Nat /\ k <= Len(a) /\ 0 \in Nat /\ k <= room /\ pos + k <= Len(src)
  BY <1>1, <1>3, <1>4
<1>6. SubSeq(a, 0 + 1, k) \in Seq(Cell) /\ Len(SubSeq(a, 0 + 1, k)) = (IF 0 <= k THEN k - 0 ELSE 0)
  <2>1. IsCut(Cell, a, 0, k)
    BY <1>3, <1>5, CutCells
  <2>. QED
    BY <2>1, Zenon DEF IsCut, Cells
<1>7. In!Slice(In!Available(pos, room), 0, k) = SubSeq(a, 0 + 1, k)
  BY <1>2 DEF In!Slice
<1>. QED
  BY <1>5, <1>6, <1>7

LEMMA ReadStep ==
  ASSUME src \in Seq(Cell), spos \in 0..Len(src), alive = TRUE, NEW n \in Nat, n <= BufSize,
         Reads(rd, n), In!DevStep
  PROVE  /\ src' = src /\ spos' \in 0..Len(src) /\ alive' \in BOOLEAN
         /\ alive' => Reads(rd', n) \/ (rd' = In!Resting /\ HasRead(rdres', n))
<1>0. /\ rd \in CallRec("ioread") /\ rd.fn = "ioread" /\ rd.want = n /\ rd.len = n /\ rd.done <= n
      /\ rd.done \in Int /\ rd.buf \in Seq(Cell) /\ Len(rd.buf) = BufSize /\ spos \in Nat
      /\ BufSize \in Nat
  BY FileDataAssumption DEF Reads, CallRec
<1>1. CASE In!IoReadSome
  <2>. DEFINE room == rd.want - rd.done
  <2>1. /\ rd.done \in Nat /\ rd.done < rd.want
        /\ \E k \in 1..Len(In!Available(spos, room)) :
             /\ rd' = In!AfterRead(In!Slice(In!Available(spos, room), 0, k))
             /\ spos' = spos + k
        /\ src' = src /\ alive' = alive
    BY <1>0, <1>1 DEF In!IoReadSome, In!IoReadGoesOn
  <2>2. PICK k \in 1..Len(In!Available(spos, room)) :
          /\ rd' = In!AfterRead(In!Slice(In!Available(spos, room), 0, k))
          /\ spos' = spos + k
    BY <2>1
  <2>. DEFINE d == In!Slice(In!Available(spos, room), 0, k)
              b == In!Overlay(rd.buf, rd.done, d)
  <2>3. room \in Nat /\ rd.done + room = n
    BY <1>0, <2>1
  <2>. HIDE DEF room
  <2>4. k <= room /\ spos + k <= Len(src) /\ d \in Seq(Cell) /\ Len(d) = k
    BY <1>0, <2>2, <2>3, AvailableCells
  <2>5. rd' = [rd EXCEPT !.buf = b, !.done = @ + Len(d)]
    BY <2>2 DEF In!AfterRead
  <2>6. k \in Nat
    BY <2>2
  <2>. HIDE DEF d
  <2>7. b \in Seq(Cell) /\ Len(b) = BufSize
    <3>1. rd.done + Len(d) <= Len(rd.buf)
      BY <1>0, <2>1, <2>3, <2>4, <2>6
    <3>. QED
      BY <1>0, <2>1, <2>4, <3>1, PatchCells, SlicesAreCells DEF IsPatch
  <2>. HIDE DEF b
  <2>8. /\ rd' \in CallRec("ioread") /\ rd'.want = n /\ rd'.len = n
        /\ rd'.done = rd.done + k /\ rd'.buf = b
    <3>1. rd.done + k \in Int
      BY <1>0, <2>6
    <3>. QED
      BY <1>0, <2>4, <2>5, <2>7, <3>1 DEF CallRec
  <2>9. rd.done + k <= n /\ spos' \in 0..Len(src)
    BY <1>0, <2>1, <2>2, <2>3, <2>4, <2>6
  <2>. QED
    BY <2>1, <2>7, <2>8, <2>9 DEF Reads
<1>2. CASE In!IoReadInterrupted
  <2>1. /\ rd' = [rd EXCEPT !.done = @ - 1, !.intr = TRUE]
        /\ src' = src /\ spos' = spos /\ alive' = alive
    BY <1>2 DEF In!IoReadInterrupted
  <2>2. rd.done - 1 \in Int /\ rd.done - 1 <= n
    BY <1>0
  <2>3. /\ rd' \in CallRec("ioread") /\ rd'.want = n /\ rd'.len = n
        /\ rd'.done = rd.done - 1 /\ rd'.buf = rd.buf
    BY <1>0, <2>1, <2>2 DEF CallRec
  <2>. QED
    BY <1>0, <2>1, <2>2, <2>3 DEF Reads
<1>3. CASE In!IoReadReturns \/ In!IoReadFails
  <2>1. PICK err \in BOOLEAN : In!Return(rd.done, err, rd.buf)
    BY <1>3 DEF In!IoReadReturns, In!IoReadFails
  <2>2. /\ rd' = In!Resting /\ src' = src /\ spos' = spos /\ alive' = alive
        /\ rdres' = [fn |-> rd.fn, off |-> rd.off, len |-> rd.len, from |-> rd.from,
                     old |-> rd.old, intr |-> rd.intr, ret |-> rd.done, err |-> err,
                     out |-> rd.buf]
    BY <2>1 DEF In!Return
  <2>3. /\ rdres' \in ResultRec /\ rdres'.len = n /\ rdres'.ret = rd.done
        /\ rdres'.out = rd.buf
    BY <1>0, <2>1, <2>2 DEF CallRec, ResultRec
  <2>. QED
    BY <1>0, <2>2, <2>3 DEF HasRead
<1>4. CASE In!IoReadPanics
  BY <1>4 DEF In!IoReadPanics, In!Panic
<1>5. ~In!PwriteSome /\ ~In!PwritePanics /\ ~In!PwriteReturns
  BY <1>0 DEF In!PwriteSome, In!PwritePanics, In!PwriteReturns, In!PwriteGoesOn, In!During
<1>6. ~In!PreadSome /\ ~In!PreadReturns /\ ~In!PreadFails
  BY <1>0 DEF In!PreadSome, In!PreadReturns, In!PreadFails, In!During
<1>. QED
  BY <1>1, <1>2, <1>3, <1>4, <1>5, <1>6 DEF In!DevStep

\* A pwrite writes its cells at pos, and no more than it was given.
WritesAt(pos, n) ==
  \E d \in Seq(Cell) : Len(d) <= n /\ img' = Out!Put(img, pos, d)

LEMMA WriteStep ==
  ASSUME img \in Seq(Cell), alive = TRUE, NEW pos \in Nat, NEW n \in Nat, Writes(wr, pos, n), Out!DevStep
  PROVE  /\ alive' \in BOOLEAN
         /\ alive' => Writes(wr', pos, n) \/ wr' = Out!Resting
         /\ wr.done \in 0..n
         /\ img' = img \/ (wr.done < n /\ WritesAt(pos + wr.done, n - wr.done))
<1>0. /\ wr \in CallRec("write") /\ wr.fn = "write" /\ wr.want = n /\ wr.done \in 0..n
      /\ wr.rest = 0 /\ wr.pos = pos + wr.done /\ wr.pos \in Nat /\ wr.buf \in Seq(Cell)
      /\ wr.done \in Nat /\ Len(wr.buf) \in Nat
  <2>1. wr.buf \in Seq(Cell)
    BY DEF Writes, CallRec
  <2>. QED
    BY <2>1 DEF Writes, CallRec
<1>1. CASE Out!PwriteSome
  <2>1. /\ wr.done < wr.want /\ wr.want <= Len(wr.buf) /\ alive' = alive
        /\ \E k \in 1..Len(Out!Chunk) :
             img' = Out!Put(img, wr.pos, Out!Slice(Out!Chunk, 0, k)) /\ wr' = Out!AfterPwrite(k)
    BY <1>1 DEF Out!PwriteSome, Out!PwriteGoesOn
  <2>2. PICK k \in 1..Len(Out!Chunk) :
          img' = Out!Put(img, wr.pos, Out!Slice(Out!Chunk, 0, k)) /\ wr' = Out!AfterPwrite(k)
    BY <2>1
  <2>. DEFINE c == SubSeq(wr.buf, wr.done + 1, wr.want)
              d == SubSeq(c, 0 + 1, k)
              b == SubSeq(wr.buf, k + 1, Len(wr.buf))
  <2>3. c \in Seq(Cell) /\ Len(c) = n - wr.done
    <3>1. wr.done \in Nat /\ wr.want \in Nat /\ wr.want <= Len(wr.buf) /\ wr.done < wr.want
      BY <1>0, <2>1
    <3>2. c \in Seq(Cell) /\ Len(c) = (IF wr.done <= wr.want THEN wr.want - wr.done ELSE 0)
      <4>1. IsCut(Cell, wr.buf, wr.done, wr.want)
        BY <1>0, <3>1, CutCells
      <4>. QED
        BY <4>1, Zenon DEF IsCut, Cells
    <3>. QED
      BY <1>0, <3>1, <3>2
  <2>4. Out!Chunk = c
    BY DEF Out!Chunk, Out!Slice
  <2>. HIDE DEF c
  <2>5. k \in Nat /\ k >= 1 /\ k <= n - wr.done /\ k <= Len(c) /\ k <= Len(wr.buf)
    BY <1>0, <2>1, <2>2, <2>3, <2>4
  <2>6. d \in Seq(Cell) /\ Len(d) = (IF 0 <= k THEN k - 0 ELSE 0)
    <3>1. 0 \in Nat
      OBVIOUS
    <3>. QED
      <4>1. IsCut(Cell, c, 0, k)
        BY <2>3, <2>5, <3>1, CutCells
      <4>. QED
        BY <4>1, Zenon DEF IsCut, Cells
  <2>7. b \in Seq(Cell)
    <3>1. Len(wr.buf) <= Len(wr.buf)
      BY <1>0
    <3>. QED
      BY <1>0, <2>5, <3>1, CutCells, Zenon DEF IsCut, Cells
  <2>8. img' = Out!Put(img, wr.pos, d) /\ wr' = [wr EXCEPT !.buf = b, !.done = @ + k, !.pos = @ + k]
    BY <2>2, <2>4 DEF Out!Slice, Out!AfterPwrite
  <2>. HIDE DEF b, d
  <2>9. /\ wr' \in CallRec("write") /\ wr'.want = n /\ wr'.done = wr.done + k
        /\ wr'.rest = 0 /\ wr'.pos = wr.pos + k
    <3>1. wr.done + k \in Int /\ wr.pos + k \in Nat
      BY <1>0, <2>5
    <3>. QED
      BY <1>0, <2>7, <2>8, <3>1 DEF CallRec
  <2>10. wr.done + k \in 0..n /\ wr.pos + k = pos + (wr.done + k) /\ wr.done < n
    <3>1. wr.done \in Nat /\ wr.done < n /\ wr.pos = pos + wr.done
      BY <1>0, <2>1
    <3>. QED
      BY <2>5, <3>1
  <2>11. Writes(wr', pos, n)
    BY <2>9, <2>10 DEF Writes
  <2>12. Len(d) <= n - wr.done
    BY <2>5, <2>6
  <2>13. WritesAt(pos + wr.done, n - wr.done)
    BY <1>0, <2>6, <2>8, <2>12 DEF WritesAt
  <2>. QED
    BY <1>0, <2>1, <2>10, <2>11, <2>13
<1>2. CASE Out!PwritePanics
  BY <1>0, <1>2 DEF Out!PwritePanics, Out!Panic
<1>3. CASE Out!PwriteReturns
  <2>1. ~(wr.rest > 0)
    BY <1>0
  <2>2. wr' = Out!Resting /\ img' = img /\ alive' = alive
    BY <1>3, <2>1 DEF Out!PwriteReturns, Out!Return
  <2>. QED
    BY <1>0, <2>2
<1>4. ~Out!PreadSome /\ ~Out!PreadReturns /\ ~Out!PreadFails
  BY <1>0 DEF Out!PreadSome, Out!PreadReturns, Out!PreadFails, Out!During
<1>5. ~Out!IoReadSome /\ ~Out!IoReadPanics /\ ~Out!IoReadInterrupted /\ ~Out!IoReadReturns /\ ~Out!IoReadFails
  BY <1>0 DEF Out!IoReadSome, Out!IoReadPanics, Out!IoReadInterrupted, Out!IoReadReturns,
              Out!IoReadFails, Out!IoReadGoesOn, Out!During
<1>. QED
  BY <1>1, <1>2, <1>3, <1>4, <1>5 DEF Out!DevStep
----------------------------------------------------------------------------
(***************************************************************************)
(* The steps of the copy.                                                  *)
(***************************************************************************)

LEMMA JobTyped ==
  ASSUME FdInv
  PROVE  /\ job \in JobRec /\ job.at \in Places /\ job.i \in Nat /\ job.chunk \in Nat
         /\ job.pos \in Nat /\ job.left \in Nat /\ job.put \in Nat
         /\ job.intr \in BOOLEAN /\ job.short \in BOOLEAN
  BY DEF FdInv, Typed, JobRec

\* A step writes inside the blocks of the file, or nothing.
InPlace ==
  \/ img' = img
  \/ inode.addr \in Nat /\ \E pos \in Nat, d \in Seq(Cell) :
       /\ img' = Out!Put(img, pos, d)
       /\ Base <= pos /\ pos + Len(d) <= Base + NBlocks * BlkSz

LEMMA StepKeeps ==
  ASSUME FdInv, src' = src, spos' \in 0..Len(src), alive' \in BOOLEAN, inode' = inode,
         job' \in JobRec, InPlace, Placed', ReadJob', WriteJob'
  PROVE  FdInv'
<1>1. CASE img' = img
  <2>1. CopyStaysInside'
    BY <1>1 DEF FdInv, CopyStaysInside, Base, NBlocks
  <2>. QED
    BY <1>1, <2>1 DEF FdInv, Typed
<1>2. CASE inode.addr \in Nat /\ \E pos \in Nat, d \in Seq(Cell) :
             /\ img' = Out!Put(img, pos, d)
             /\ Base <= pos /\ pos + Len(d) <= Base + NBlocks * BlkSz
  <2>1. Typed /\ CopyStaysInside
    BY DEF FdInv
  <2>2. img' \in Seq(Cell) /\ Len(img') >= Len(Image) /\ CopyStaysInside'
    BY <1>2, <2>1, WrittenInside
  <2>. QED
    BY <2>1, <2>2 DEF FdInv, Typed
<1>. QED
  BY <1>1, <1>2 DEF InPlace

\* The copy moves on by n cells of its chunk, or stays (n = 0), or fails.
LEMMA MovesOn ==
  ASSUME FdInv, Copying, inode' = inode, job'.chunk = job.chunk, NEW n \in Nat, n <= job.left,
         job'.pos = job.pos + n, job'.left = job.left - n, job'.at \notin {"start", "failed"}
  PROVE  Placed'
<1>1. /\ job.pos \in Nat /\ job.left \in Nat /\ job.chunk \in Nat
      /\ job.pos >= Base /\ job.pos + job.left = Base + job.chunk
      /\ job.chunk <= NBlocks * BlkSz /\ inode.addr \in Nat
  BY JobTyped DEF FdInv, Placed, ChunkInside, CopyAddressed
<1>2. Base \in Nat /\ NBlocks * BlkSz \in Nat
  BY <1>1, Blocks32 DEF FdInv, Typed
<1>3. Base' = Base /\ (NBlocks * BlkSz)' = NBlocks * BlkSz
  BY DEF Base, NBlocks
<1>. DEFINE t == NBlocks * BlkSz
<1>. HIDE DEF t
<1>4. job'.pos >= Base /\ job'.pos + job'.left = Base + job.chunk
  BY <1>1, <1>2
<1>. QED
  BY <1>1, <1>3, <1>4 DEF Placed, ChunkInside, Addressed, CopyAddressed

LEMMA FailsKeeps ==
  ASSUME FdInv, job' = [job EXCEPT !.at = "failed"], src' = src, spos' = spos, alive' = alive,
         img' = img, inode' = inode
  PROVE  FdInv'
<1>1. job' \in JobRec /\ job'.at = "failed"
  BY JobTyped DEF JobRec, Places
<1>2. Placed' /\ ReadJob' /\ WriteJob'
  BY <1>1 DEF Placed, ChunkInside, Addressed, CopyAddressed, Copying, ReadJob, WriteJob
<1>3. spos' \in 0..Len(src) /\ alive' \in BOOLEAN
  BY DEF FdInv, Typed
<1>. QED
  BY <1>1, <1>2, <1>3, StepKeeps DEF InPlace

\* The kernel moves cells of the input itself (copy_file_range, sendfile).
LEMMA KernelMoves ==
  ASSUME FdInv, Copying, NEW n \in Movable, Moved(n), Still, inode' = inode,
         NEW at \in {"sendfile", "manual"}, job' = [AfterMove(n) EXCEPT !.at = at]
  PROVE  FdInv'
<1>1. /\ src \in Seq(Cell) /\ Len(src) \in Nat /\ spos \in 0..Len(src) /\ job.left \in Nat
      /\ job \in JobRec /\ job.pos \in Nat /\ alive \in BOOLEAN
  BY JobTyped DEF FdInv, Typed
<1>2. n \in Nat /\ n <= job.left /\ spos + n <= Len(src)
  BY <1>1 DEF Movable, In!Least
<1>. DEFINE d == SubSeq(src, spos + 1, spos + n)
<1>3. d \in Seq(Cell) /\ Len(d) = n
  <2>1. IsCut(Cell, src, spos, spos + n)
    BY <1>1, <1>2, CutCells
  <2>2. d \in Seq(Cell) /\ Len(d) = (IF spos <= spos + n THEN (spos + n) - spos ELSE 0)
    BY <2>1, Zenon DEF IsCut, Cells
  <2>. HIDE DEF d
  <2>. QED
    BY <1>1, <1>2, <2>2
<1>4. ((n = 0 /\ img' = img) \/ img' = Out!Put(img, job.pos, d)) /\ spos' = spos + n
  BY DEF Moved, In!Slice
<1>. HIDE DEF d
<1>5. /\ job' \in JobRec /\ job'.at = at /\ job'.chunk = job.chunk /\ job'.pos = job.pos + n
      /\ job'.left = job.left - n
  <2>1. job.pos + n \in Nat /\ job.left - n \in Nat /\ at \in Places
    BY <1>1, <1>2 DEF Places
  <2>. QED
    BY <1>1, <2>1 DEF AfterMove, JobRec
<1>6. Placed'
  BY <1>2, <1>5, MovesOn
<1>7. ReadJob' /\ WriteJob'
  BY <1>5 DEF ReadJob, WriteJob
<1>8. InPlace
  <2>1. /\ inode.addr \in Nat /\ job.pos >= Base /\ job.pos + job.left = Base + job.chunk
        /\ job.chunk <= NBlocks * BlkSz
    BY DEF FdInv, Placed, ChunkInside, CopyAddressed
  <2>2. Base \in Nat /\ NBlocks * BlkSz \in Nat /\ job.chunk \in Nat
    BY <2>1, Blocks32, JobTyped DEF FdInv, Typed
  <2>. DEFINE t == NBlocks * BlkSz
  <2>3. t \in Nat /\ job.chunk <= t
    BY <2>1, <2>2
  <2>. HIDE DEF t
  <2>4. Base <= job.pos /\ job.pos + Len(d) <= Base + t
    BY <1>1, <1>2, <1>3, <2>1, <2>2, <2>3
  <2>. QED
    BY <1>1, <1>3, <1>4, <2>1, <2>4 DEF InPlace, t
<1>9. src' = src /\ alive' \in BOOLEAN /\ spos' \in 0..Len(src)
  BY <1>1, <1>2, <1>4 DEF Still
<1>. QED
  BY <1>5, <1>6, <1>7, <1>8, <1>9, StepKeeps

LEMMA AllocateKeeps ==
  ASSUME FdInv, Allocate
  PROVE  FdInv'
<1>1. /\ job.at = "start" /\ src' = src /\ spos' = spos /\ alive' = alive /\ img' = img
  BY DEF Allocate, At, Still
<1>2. CASE NBlocks = 0 /\ GoTo("loop") /\ UNCHANGED inode
  <2>1. job' \in JobRec /\ job'.at = "loop"
    BY <1>2, JobTyped DEF GoTo, JobRec, Places
  <2>2. Placed' /\ ReadJob' /\ WriteJob'
    BY <1>2, <2>1 DEF Placed, ChunkInside, Addressed, CopyAddressed, Copying, ReadJob, WriteJob, NBlocks
  <2>3. spos' \in 0..Len(src) /\ alive' \in BOOLEAN
    BY <1>1 DEF FdInv, Typed
  <2>. QED
    BY <1>1, <1>2, <2>1, <2>2, <2>3, StepKeeps DEF InPlace
<1>3. CASE NBlocks > 0 /\ GoTo("failed") /\ UNCHANGED inode
  BY <1>1, <1>3, FailsKeeps DEF GoTo
<1>4. CASE GoTo("loop") /\ \E a \in Addr : inode' = [inode EXCEPT !.addr = a]
  <2>1. PICK a \in Addr : inode' = [inode EXCEPT !.addr = a]
    BY <1>4
  <2>2. a \in Nat /\ inode \in InodeRec
    BY FileDataAssumption DEF FdInv, Typed
  <2>3. inode' \in InodeRec /\ inode'.addr = a /\ inode'.isize = inode.isize
    BY <2>1, <2>2 DEF InodeRec
  <2>4. job' \in JobRec /\ job'.at = "loop"
    BY <1>4, JobTyped DEF GoTo, JobRec, Places
  <2>5. Placed' /\ ReadJob' /\ WriteJob'
    BY <2>2, <2>3, <2>4 DEF Placed, ChunkInside, Addressed, CopyAddressed, Copying, ReadJob, WriteJob
  <2>6. Typed'
    BY <1>1, <2>3, <2>4 DEF FdInv, Typed
  <2>7. CopyStaysInside'
    <3>1. inode.addr = NULL_ADDR
      BY <1>1 DEF FdInv, Placed, Addressed
    <3>. QED
      BY <1>1, <3>1 DEF FdInv, CopyStaysInside
  <2>. QED
    BY <2>5, <2>6, <2>7 DEF FdInv
<1>. QED
  BY <1>2, <1>3, <1>4 DEF Allocate

LEMMA CopyChunkKeeps ==
  ASSUME FdInv, CopyChunk
  PROVE  FdInv'
<1>. DEFINE t == NBlocks * BlkSz
            len == In!Least(MaxChunk, t)
<1>1. /\ job.at = "loop" /\ src' = src /\ spos' = spos /\ alive' = alive /\ img' = img
      /\ inode' = inode /\ job.i < NBlocks
      /\ job' = [job EXCEPT !.at = "range", !.chunk = len, !.pos = Base, !.left = len]
  BY DEF CopyChunk, At, Still
<1>2. t \in Nat /\ NBlocks \in Nat /\ MaxChunk \in Nat /\ job.i \in Nat
      /\ (inode.addr \in Nat => Base \in Nat)
  BY Blocks32, JobTyped DEF FdInv, Typed
<1>3. inode.addr \in Nat /\ Base \in Nat
  <2>1. NBlocks # 0
    BY <1>1, <1>2
  <2>. QED
    BY <1>1, <1>2, <2>1 DEF FdInv, Placed, Addressed
<1>4. t' = t /\ Base' = Base
  BY <1>1 DEF NBlocks, Base
<1>. HIDE DEF t
<1>5. len \in Nat /\ len <= t
  BY <1>2 DEF In!Least
<1>. HIDE DEF len
<1>6. /\ job' \in JobRec /\ job'.at = "range" /\ job'.chunk = len /\ job'.pos = Base
      /\ job'.left = len
  BY <1>1, <1>3, <1>5, JobTyped DEF JobRec, Places
<1>7. Placed'
  <2>1. job'.pos >= Base' /\ job'.pos + job'.left = Base' + job'.chunk /\ job'.chunk <= t'
    BY <1>3, <1>4, <1>5, <1>6
  <2>2. job'.at \notin {"start", "failed"} /\ job'.at # "start" /\ inode'.addr \in Nat
    BY <1>1, <1>3, <1>6
  <2>. QED
    BY <2>1, <2>2 DEF Placed, ChunkInside, Addressed, CopyAddressed, t
<1>8. ReadJob' /\ WriteJob'
  BY <1>6 DEF ReadJob, WriteJob
<1>9. spos' \in 0..Len(src) /\ alive' \in BOOLEAN
  BY <1>1 DEF FdInv, Typed
<1>. QED
  BY <1>1, <1>6, <1>7, <1>8, <1>9, StepKeeps DEF InPlace

LEMMA KernelCopyKeeps ==
  ASSUME FdInv, CopyFileRange \/ Sendfile
  PROVE  FdInv'
<1>1. Copying
  BY DEF CopyFileRange, Sendfile, At, Copying
<1>2. CASE CopyFileRange
  <2>1. PICK n \in Movable :
          /\ Moved(n)
          /\ job' = [AfterRange(n) EXCEPT
                       !.at = IF job.left > n /\ ~inode.diskbuf THEN "sendfile" ELSE "manual"]
    BY <1>2 DEF CopyFileRange
  <2>2. PICK at \in {"sendfile", "manual"} : job' = [AfterMove(n) EXCEPT !.at = at]
    BY <2>1 DEF AfterRange
  <2>3. Still /\ inode' = inode
    BY <1>2 DEF CopyFileRange
  <2>. QED
    BY <1>1, <2>1, <2>2, <2>3, KernelMoves
<1>3. CASE Sendfile
  <2>1. PICK n \in Movable : Moved(n) /\ job' = [AfterMove(n) EXCEPT !.at = "manual"]
    BY <1>3 DEF Sendfile, AfterSendfile
  <2>2. Still /\ inode' = inode /\ "manual" \in {"sendfile", "manual"}
    BY <1>3 DEF Sendfile
  <2>. QED
    BY <1>1, <2>1, <2>2, KernelMoves
<1>. QED
  BY <1>2, <1>3

LEMMA LeastProps ==
  ASSUME NEW m \in Nat, NEW n \in Nat
  PROVE  In!Least(m, n) \in Nat /\ In!Least(m, n) <= m /\ In!Least(m, n) <= n
  BY DEF In!Least

LEMMA ReadSomeKeeps ==
  ASSUME FdInv, ReadSome
  PROVE  FdInv'
<1>1. /\ job.at = "manual" /\ job.left > 0 /\ img' = img /\ inode' = inode
      /\ job' = [job EXCEPT !.at = "reading"]
      /\ In!Begin("ioread", spos, Wanted, <<>>, In!NewBuf, Wanted, 0)
  BY DEF ReadSome, At, GoTo, In!IoRead, Wanted
<1>2. /\ rd' = [fn |-> "ioread", off |-> spos, len |-> Wanted, from |-> <<>>, old |-> src,
                buf |-> In!NewBuf, pos |-> spos, want |-> Wanted, done |-> 0, rest |-> 0,
                intr |-> FALSE]
      /\ src' = src /\ spos' = spos /\ alive' = alive
  BY <1>1 DEF In!Begin
<1>3. /\ src \in Seq(Cell) /\ spos \in 0..Len(src) /\ spos \in Nat /\ alive \in BOOLEAN
      /\ job.left \in Nat /\ BufSize \in Nat
  BY JobTyped, FileDataAssumption DEF FdInv, Typed
<1>4. Wanted \in Nat /\ Wanted <= BufSize
  BY <1>3, LeastProps DEF Wanted
<1>5. In!NewBuf \in Seq(Cell) /\ Len(In!NewBuf) = BufSize
  <2>1. In!NewBuf \in [1..BufSize -> Cell]
    BY DEF In!NewBuf, Cell
  <2>. QED
    BY <1>3, <2>1, SeqOfFcn
<1>. HIDE DEF Wanted
<1>6. Reads(rd', Wanted)
  <2>1. rd' \in CallRec("ioread")
    <3>1. <<>> \in Seq(Cell) /\ 0 \in Nat /\ 0 \in Int /\ FALSE \in BOOLEAN
      OBVIOUS
    <3>. QED
      BY <1>2, <1>3, <1>4, <1>5, <3>1 DEF CallRec
  <2>. QED
    BY <1>2, <1>4, <1>5, <2>1 DEF Reads
<1>7. /\ job' \in JobRec /\ job'.at = "reading" /\ job'.chunk = job.chunk /\ job'.pos = job.pos
      /\ job'.left = job.left
  BY <1>1, JobTyped DEF JobRec, Places
<1>8. Placed'
  <2>1. 0 \in Nat /\ 0 <= job.left /\ job.pos + 0 = job.pos /\ job.left - 0 = job.left /\ Copying
    BY <1>1, <1>3, JobTyped DEF Copying
  <2>. QED
    BY <1>1, <1>7, <2>1, MovesOn
<1>9. ReadJob' /\ WriteJob'
  <2>1. Wanted' = Wanted
    BY <1>7 DEF Wanted
  <2>. QED
    BY <1>1, <1>6, <1>7, <2>1 DEF ReadJob, WriteJob
<1>. QED
  BY <1>1, <1>2, <1>3, <1>7, <1>8, <1>9, StepKeeps DEF InPlace

LEMMA ReadingKeeps ==
  ASSUME FdInv, Reading
  PROVE  FdInv'
<1>1. /\ job.at = "reading" /\ alive = TRUE /\ rd # In!Resting /\ img' = img /\ inode' = inode
      /\ In!DevStep /\ job' = [job EXCEPT !.intr = @ \/ In!IoReadInterrupted]
  BY DEF Reading, At, FdInv, Typed
<1>2. /\ src \in Seq(Cell) /\ spos \in 0..Len(src) /\ job.left \in Nat /\ job.left > 0
      /\ BufSize \in Nat /\ Reads(rd, Wanted)
  BY <1>1, JobTyped, FileDataAssumption DEF FdInv, Typed, ReadJob
<1>3. Wanted \in Nat /\ Wanted <= BufSize
  BY <1>2, LeastProps DEF Wanted
<1>4. /\ src' = src /\ spos' \in 0..Len(src) /\ alive' \in BOOLEAN
      /\ alive' => Reads(rd', Wanted) \/ (rd' = In!Resting /\ HasRead(rdres', Wanted))
  BY <1>1, <1>2, <1>3, ReadStep
<1>5. /\ job' \in JobRec /\ job'.at = "reading" /\ job'.chunk = job.chunk /\ job'.pos = job.pos
      /\ job'.left = job.left
  <2>1. (job.intr \/ In!IoReadInterrupted) \in BOOLEAN
    OBVIOUS
  <2>. DEFINE i == job.intr \/ In!IoReadInterrupted
  <2>2. job' = [job EXCEPT !.intr = i]
    BY <1>1
  <2>. HIDE DEF i
  <2>. QED
    BY <1>1, <2>1, <2>2, JobTyped DEF JobRec, i
<1>6. Placed'
  <2>1. 0 \in Nat /\ 0 <= job.left /\ job.pos + 0 = job.pos /\ job.left - 0 = job.left /\ Copying
    BY <1>1, <1>2, JobTyped DEF Copying
  <2>. QED
    BY <1>1, <1>5, <2>1, MovesOn
<1>7. ReadJob' /\ WriteJob'
  <2>1. Wanted' = Wanted
    BY <1>5 DEF Wanted
  <2>. QED
    BY <1>2, <1>4, <1>5, <2>1 DEF ReadJob, WriteJob
<1>. QED
  BY <1>1, <1>4, <1>5, <1>6, <1>7, StepKeeps DEF InPlace

\* What the read came to is known once it returned.
LEMMA ReadReturned ==
  ASSUME FdInv, alive, job.at = "reading", rd = In!Resting
  PROVE  HasRead(rdres, Wanted) /\ Wanted \in Nat /\ Wanted <= BufSize /\ Wanted <= job.left
<1>1. job.left \in Nat /\ BufSize \in Nat
  BY JobTyped, FileDataAssumption
<1>2. ~Reads(rd, Wanted)
  BY DEF Reads, CallRec, In!Resting
<1>. QED
  BY <1>1, <1>2, LeastProps DEF FdInv, ReadJob, Wanted

LEMMA NothingReadKeeps ==
  ASSUME FdInv, NothingRead
  PROVE  FdInv'
<1>1. /\ job.at = "reading" /\ job' = [job EXCEPT !.at = "copied"] /\ img' = img /\ inode' = inode
      /\ src' = src /\ spos' = spos /\ alive' = alive
  BY DEF NothingRead, ReadDone, At, GoTo, Still, AtEnd
<1>2. /\ job' \in JobRec /\ job'.at = "copied" /\ job'.chunk = job.chunk /\ job'.pos = job.pos
      /\ job'.left = job.left
  BY <1>1, JobTyped DEF JobRec, Places
<1>3. Placed'
  <2>1. 0 \in Nat /\ 0 <= job.left /\ job.pos + 0 = job.pos /\ job.left - 0 = job.left /\ Copying
    BY <1>1, JobTyped DEF Copying
  <2>. QED
    BY <1>1, <1>2, <2>1, MovesOn
<1>4. ReadJob' /\ WriteJob'
  BY <1>2 DEF ReadJob, WriteJob
<1>5. spos' \in 0..Len(src) /\ alive' \in BOOLEAN
  BY <1>1 DEF FdInv, Typed
<1>. QED
  BY <1>1, <1>2, <1>3, <1>4, <1>5, StepKeeps DEF InPlace

LEMMA WriteSomeKeeps ==
  ASSUME FdInv, WriteSome
  PROVE  FdInv'
<1>. DEFINE f == Filled(rdres.out)
            b == SubSeq(f, 0 + 1, rdres.len)
<1>1. /\ job.at = "reading" /\ alive /\ rd = In!Resting /\ job' = [job EXCEPT !.at = "writing"]
      /\ img' = img /\ inode' = inode /\ src' = src /\ spos' = spos /\ rdres' = rdres /\ rdres.ret > 0
      /\ Out!Begin("write", job.pos, rdres.ret, b, b, rdres.ret, 0)
  BY DEF WriteSome, ReadDone, At, GoTo, Out!DevWrite, In!Slice
<1>2. /\ wr' = [fn |-> "write", off |-> job.pos, len |-> rdres.ret, from |-> b, old |-> img,
                buf |-> b, pos |-> job.pos, want |-> rdres.ret, done |-> 0, rest |-> 0,
                intr |-> FALSE]
      /\ alive' = alive
  BY <1>1 DEF Out!Begin
<1>3. /\ HasRead(rdres, Wanted) /\ Wanted \in Nat /\ Wanted <= BufSize /\ Wanted <= job.left
      /\ job.left \in Nat /\ job.pos \in Nat /\ img \in Seq(Cell) /\ BufSize \in Nat
  BY <1>1, ReadReturned, JobTyped, FileDataAssumption DEF FdInv, Typed
<1>4. /\ rdres.out \in Seq(Cell) /\ Len(rdres.out) = BufSize /\ rdres.len = Wanted
      /\ rdres.ret \in Int /\ rdres.ret <= Wanted
  BY <1>3 DEF HasRead, ResultRec
<1>5. f \in Seq(Cell) /\ Len(f) = BufSize
  <2>1. f \in [1..BufSize -> Cell]
    <3>1. ASSUME NEW i \in 1..BufSize PROVE rdres.out[i] \in Cell /\ ZERO \in Cell
      BY <1>4 DEF Cell
    <3>. QED
      BY <1>4, <3>1 DEF Filled
  <2>. HIDE DEF f
  <2>. QED
    BY <1>3, <2>1, SeqOfFcn
<1>. HIDE DEF f, Wanted
<1>6. b \in Seq(Cell)
  <2>1. 0 \in Nat /\ rdres.len \in Nat /\ rdres.len <= Len(f)
    BY <1>3, <1>4, <1>5
  <2>2. IsCut(Cell, f, 0, rdres.len)
    BY <1>5, <2>1, CutCells
  <2>. QED
    BY <2>2, Zenon DEF IsCut, Cells
<1>. HIDE DEF b
<1>7. rdres.ret \in Nat /\ rdres.ret \in 1..job.left
  BY <1>1, <1>3, <1>4
<1>8. Writes(wr', job.pos, rdres.ret)
  <2>1. wr' \in CallRec("write")
    <3>1. 0 \in Nat /\ 0 \in Int /\ FALSE \in BOOLEAN
      OBVIOUS
    <3>. QED
      BY <1>2, <1>3, <1>6, <1>7, <3>1 DEF CallRec
  <2>2. job.pos = job.pos + 0 /\ 0 \in 0..rdres.ret
    BY <1>3, <1>7
  <2>. QED
    BY <1>2, <2>1, <2>2 DEF Writes
<1>9. /\ job' \in JobRec /\ job'.at = "writing" /\ job'.chunk = job.chunk /\ job'.pos = job.pos
      /\ job'.left = job.left
  BY <1>1, JobTyped DEF JobRec, Places
<1>10. Placed'
  <2>1. 0 \in Nat /\ 0 <= job.left /\ job.pos + 0 = job.pos /\ job.left - 0 = job.left /\ Copying
    BY <1>1, <1>3, JobTyped DEF Copying
  <2>. QED
    BY <1>1, <1>9, <2>1, MovesOn
<1>11. ReadJob' /\ WriteJob'
  BY <1>1, <1>7, <1>8, <1>9 DEF ReadJob, WriteJob
<1>12. spos' \in 0..Len(src) /\ alive' \in BOOLEAN
  BY <1>1, <1>2 DEF FdInv, Typed
<1>. QED
  BY <1>1, <1>9, <1>10, <1>11, <1>12, StepKeeps DEF InPlace

\* m cells at p + q, when n <= l were asked for at p, q of them are written, and
\* the l cells from p end where the chunk does.
LEMMA InsideChunk ==
  ASSUME NEW p \in Nat, NEW q \in Nat, NEW n \in Nat, NEW l \in Nat, NEW B \in Nat,
         NEW c \in Nat, NEW t \in Nat, NEW m \in Nat,
         n <= l, m + q <= n, p >= B, p + l = B + c, c <= t
  PROVE  p + q \in Nat /\ B <= p + q /\ (p + q) + m <= B + t
  OBVIOUS

LEMMA WritingKeeps ==
  ASSUME FdInv, Writing
  PROVE  FdInv'
<1>. DEFINE n == rdres.ret
            short == job.short \/ (wr.done < wr.want /\ (wr' = Out!Resting \/ wr'.done < wr.want))
<1>1. /\ job.at = "writing" /\ alive = TRUE /\ wr # Out!Resting /\ Out!DevStep
      /\ job' = [job EXCEPT !.put = wr.done, !.short = short]
      /\ src' = src /\ spos' = spos /\ rdres' = rdres /\ inode' = inode
  BY DEF Writing, At, FdInv, Typed
<1>1a. short \in BOOLEAN
  OBVIOUS
<1>. HIDE DEF short
<1>2. /\ img \in Seq(Cell) /\ job.pos \in Nat /\ job.left \in Nat /\ n \in 1..job.left
      /\ Writes(wr, job.pos, n) /\ n \in Nat
  BY <1>1, JobTyped DEF FdInv, Typed, WriteJob
<1>3. /\ alive' \in BOOLEAN
      /\ alive' => Writes(wr', job.pos, n) \/ wr' = Out!Resting
      /\ wr.done \in 0..n
      /\ img' = img \/ (wr.done < n /\ WritesAt(job.pos + wr.done, n - wr.done))
  BY <1>1, <1>2, WriteStep
<1>4. /\ job' \in JobRec /\ job'.at = "writing" /\ job'.chunk = job.chunk /\ job'.pos = job.pos
      /\ job'.left = job.left /\ job'.put = wr.done
  <2>1. wr.done \in Nat
    BY <1>2, <1>3
  <2>. QED
    BY <1>1, <1>1a, <2>1, JobTyped DEF JobRec, Places
<1>5. Placed'
  <2>1. 0 \in Nat /\ 0 <= job.left /\ job.pos + 0 = job.pos /\ job.left - 0 = job.left /\ Copying
    BY <1>1, <1>2, JobTyped DEF Copying
  <2>. QED
    BY <1>1, <1>4, <2>1, MovesOn
<1>6. ReadJob' /\ WriteJob'
  <2>1. wr.done <= job.left
    BY <1>2, <1>3
  <2>. QED
    BY <1>1, <1>2, <1>3, <1>4, <2>1 DEF ReadJob, WriteJob
<1>7. InPlace
  <2>1. CASE img' = img
    BY <2>1 DEF InPlace
  <2>2. CASE wr.done < n /\ WritesAt(job.pos + wr.done, n - wr.done)
    <3>1. PICK d \in Seq(Cell) : Len(d) <= n - wr.done /\ img' = Out!Put(img, job.pos + wr.done, d)
      BY <2>2 DEF WritesAt
    <3>2. /\ inode.addr \in Nat /\ job.pos >= Base /\ job.pos + job.left = Base + job.chunk
          /\ job.chunk <= NBlocks * BlkSz
      BY <1>1 DEF FdInv, Placed, ChunkInside, CopyAddressed, Copying
    <3>3. Base \in Nat /\ NBlocks * BlkSz \in Nat /\ job.chunk \in Nat /\ Len(d) \in Nat
      BY <3>2, Blocks32, JobTyped DEF FdInv, Typed
    <3>. DEFINE t == NBlocks * BlkSz
    <3>4. t \in Nat /\ job.chunk <= t
      BY <3>2, <3>3
    <3>. HIDE DEF t
    <3>5. /\ job.pos + wr.done \in Nat /\ Base <= job.pos + wr.done
          /\ (job.pos + wr.done) + Len(d) <= Base + t
      <4>1. /\ wr.done \in Nat /\ n \in Nat /\ n <= job.left /\ Len(d) + wr.done <= n
            /\ job.pos \in Nat /\ job.left \in Nat
        <5>1. wr.done \in Nat /\ n \in Nat /\ n <= job.left /\ job.left \in Nat /\ job.pos \in Nat
          BY <1>2, <1>3
        <5>. QED
          BY <3>1, <3>3, <5>1
      <4>2. /\ job.pos >= Base /\ job.pos + job.left = Base + job.chunk /\ job.chunk <= t
            /\ Base \in Nat /\ job.chunk \in Nat /\ Len(d) \in Nat /\ t \in Nat
        BY <3>2, <3>3, <3>4
      <4>. HIDE DEF n
      <4>. QED
        BY <4>1, <4>2, InsideChunk, Zenon
    <3>. QED
      BY <3>1, <3>2, <3>5 DEF InPlace, t
  <2>. QED
    BY <1>3, <2>1, <2>2
<1>8. spos' \in 0..Len(src)
  BY <1>1 DEF FdInv, Typed
<1>. QED
  BY <1>1, <1>3, <1>4, <1>5, <1>6, <1>7, <1>8, StepKeeps

LEMMA WrittenKeeps ==
  ASSUME FdInv, Written
  PROVE  FdInv'
<1>1. /\ job.at = "writing" /\ alive /\ wr = Out!Resting /\ img' = img /\ inode' = inode
      /\ src' = src /\ spos' = spos /\ alive' = alive
      /\ job' = [AfterMove(job.put) EXCEPT !.at = "manual"]
  BY DEF Written, At, Still
<1>2. job.put \in Nat /\ job.left \in Nat /\ job.pos \in Nat /\ job.put <= job.left
  <2>1. ~Writes(wr, job.pos, rdres.ret)
    BY <1>1 DEF Writes, CallRec, Out!Resting
  <2>. QED
    BY <1>1, <2>1, JobTyped DEF FdInv, WriteJob
<1>3. /\ job' \in JobRec /\ job'.at = "manual" /\ job'.chunk = job.chunk
      /\ job'.pos = job.pos + job.put /\ job'.left = job.left - job.put
  <2>1. job.pos + job.put \in Nat /\ job.left - job.put \in Nat
    BY <1>2
  <2>. QED
    BY <1>1, <2>1, JobTyped DEF AfterMove, JobRec, Places
<1>4. Placed'
  <2>1. Copying
    BY <1>1 DEF Copying
  <2>. QED
    BY <1>1, <1>2, <1>3, <2>1, MovesOn
<1>5. ReadJob' /\ WriteJob'
  BY <1>3 DEF ReadJob, WriteJob
<1>6. spos' \in 0..Len(src) /\ alive' \in BOOLEAN
  BY <1>1 DEF FdInv, Typed
<1>. QED
  BY <1>1, <1>3, <1>4, <1>5, <1>6, StepKeeps DEF InPlace

LEMMA CopiedKeeps ==
  ASSUME FdInv, Copied
  PROVE  FdInv'
<1>. DEFINE i == job.i + job.chunk \div BlkSz
<1>1. /\ job.at \in {"copied", "manual"} /\ img' = img /\ inode' = inode
      /\ src' = src /\ spos' = spos /\ alive' = alive
      /\ job' = [job EXCEPT !.at = "loop", !.i = i]
  BY DEF Copied, At, Still
<1>2. i \in Nat
  <2>1. job.i \in Nat /\ job.chunk \in Nat /\ BlkSz \in Nat \ {0}
    BY JobTyped, BlkSzAssumption
  <2>2. job.chunk \div BlkSz \in Nat
    BY <2>1
  <2>. QED
    BY <2>1, <2>2
<1>. HIDE DEF i
<1>3. job' \in JobRec /\ job'.at = "loop"
  BY <1>1, <1>2, JobTyped DEF JobRec, Places
<1>4. Placed'
  <2>1. inode.addr \in Nat
    BY <1>1 DEF FdInv, Placed, CopyAddressed, Copying
  <2>. QED
    BY <1>1, <1>3, <2>1 DEF Placed, ChunkInside, Addressed, CopyAddressed, Copying
<1>5. ReadJob' /\ WriteJob'
  BY <1>3 DEF ReadJob, WriteJob
<1>6. spos' \in 0..Len(src) /\ alive' \in BOOLEAN
  BY <1>1 DEF FdInv, Typed
<1>. QED
  BY <1>1, <1>3, <1>4, <1>5, <1>6, StepKeeps DEF InPlace

LEMMA ReadTailKeeps ==
  ASSUME FdInv, ReadTail
  PROVE  FdInv'
<1>1. job.at = "loop" /\ img' = img /\ src' = src /\ alive' = alive
  BY DEF ReadTail, At, Still
<1>2. /\ src \in Seq(Cell) /\ spos \in 0..Len(src) /\ alive \in BOOLEAN /\ inode \in InodeRec
      /\ TailSize \in Nat /\ Len(src) \in Nat
  BY Blocks32 DEF FdInv, Typed
<1>3. CASE GoTo("failed") /\ UNCHANGED <<spos, inode>>
  BY <1>1, <1>3, FailsKeeps DEF GoTo
<1>4. CASE GoTo("done") /\ UNCHANGED <<spos, inode>>
  <2>1. job' \in JobRec /\ job'.at = "done" /\ inode' = inode /\ spos' = spos
    BY <1>4, JobTyped DEF GoTo, JobRec, Places
  <2>2. Placed' /\ ReadJob' /\ WriteJob'
    BY <1>1, <2>1 DEF FdInv, Placed, ChunkInside, Addressed, CopyAddressed, Copying, ReadJob,
                      WriteJob, NBlocks
  <2>. QED
    BY <1>1, <1>2, <2>1, <2>2, StepKeeps DEF InPlace
<1>5. CASE /\ spos + TailSize <= Len(src)
           /\ inode' = [inode EXCEPT !.idata = Rest] /\ spos' = spos + TailSize
           /\ GoTo("done")
  <2>. DEFINE r == SubSeq(src, spos + 1, spos + TailSize)
  <2>1. r \in Seq(Cell)
    <3>1. spos \in Nat /\ spos + TailSize \in Nat
      BY <1>2
    <3>2. IsCut(Cell, src, spos, spos + TailSize)
      BY <1>2, <1>5, <3>1, CutCells
    <3>. QED
      BY <3>2, Zenon DEF IsCut, Cells
  <2>2. inode' = [inode EXCEPT !.idata = r]
    BY <1>5 DEF Rest, In!Slice
  <2>. HIDE DEF r
  <2>3. inode' \in InodeRec /\ inode'.addr = inode.addr /\ inode'.isize = inode.isize
    BY <1>2, <2>1, <2>2 DEF InodeRec
  <2>4. job' \in JobRec /\ job'.at = "done"
    BY <1>5, JobTyped DEF GoTo, JobRec, Places
  <2>5. Placed' /\ ReadJob' /\ WriteJob'
    BY <1>1, <2>3, <2>4 DEF FdInv, Placed, ChunkInside, Addressed, CopyAddressed, Copying,
                            ReadJob, WriteJob, NBlocks
  <2>6. CopyStaysInside'
    BY <1>1, <2>3 DEF FdInv, CopyStaysInside, Base, NBlocks
  <2>7. Typed'
    <3>1. spos' \in 0..Len(src)
      BY <1>2, <1>5
    <3>. QED
      BY <1>1, <2>3, <2>4, <3>1 DEF FdInv, Typed
  <2>. QED
    BY <2>5, <2>6, <2>7 DEF FdInv
<1>. QED
  BY <1>3, <1>4, <1>5 DEF ReadTail

LEMMA NextKeeps ==
  ASSUME FdInv, [WriteUncompressedFileFromFd]_fdvars
  PROVE  FdInv'
<1>1. CASE ReadFailed
  BY <1>1, FailsKeeps DEF ReadFailed, ReadDone, GoTo, Still
<1>2. CASE WriteFailed
  BY <1>2, FailsKeeps DEF WriteFailed, GoTo, Still
<1>3. CASE CopyFileRange \/ Sendfile
  BY <1>3, KernelCopyKeeps
<1>4. CASE ReadSome
  BY <1>4, ReadSomeKeeps
<1>5. CASE Reading
  BY <1>5, ReadingKeeps
<1>6. CASE NothingRead
  BY <1>6, NothingReadKeeps
<1>7. CASE WriteSome
  BY <1>7, WriteSomeKeeps
<1>8. CASE Writing
  BY <1>8, WritingKeeps
<1>9. CASE Written
  BY <1>9, WrittenKeeps
<1>10. CASE Copied
  BY <1>10, CopiedKeeps
<1>11. CASE Allocate
  BY <1>11, AllocateKeeps
<1>12. CASE CopyChunk
  BY <1>12, CopyChunkKeeps
<1>13. CASE ReadTail
  BY <1>13, ReadTailKeeps
<1>14. CASE UNCHANGED fdvars
  BY <1>14 DEF fdvars, FdInv, Typed, Placed, ChunkInside, Addressed, CopyAddressed, Copying,
               ReadJob, WriteJob, Wanted, CopyStaysInside, Base, NBlocks
<1>. QED
  BY <1>1, <1>2, <1>3, <1>4, <1>5, <1>6, <1>7, <1>8, <1>9, <1>10, <1>11, <1>12, <1>13, <1>14
     DEF WriteUncompressedFileFromFd, Xcopy

LEMMA InitHolds ==
  ASSUME FdInit
  PROVE  FdInv
<1>1. src \in Seq(Cell) /\ img = Image /\ Image \in Seq(Cell) /\ Len(src) \in Nat /\ Len(Image) \in Nat
  BY InputsAreSeqs DEF FdInit
<1>2. inode \in InodeRec /\ inode.addr = NULL_ADDR
  <2>1. <<>> \in Seq(Cell)
    OBVIOUS
  <2>. QED
    BY <2>1 DEF FdInit, InodeRec
<1>3. job \in JobRec /\ job.at = "start"
  BY DEF FdInit, JobRec, Places
<1>4. Typed
  BY <1>1, <1>2, <1>3 DEF FdInit, Typed
<1>5. CopyStaysInside
  BY <1>1 DEF CopyStaysInside
<1>. QED
  BY <1>2, <1>3, <1>4, <1>5 DEF FdInv, Placed, ChunkInside, Addressed, CopyAddressed, Copying,
                                ReadJob, WriteJob

LEMMA AlwaysFdInv == FdSpec => []FdInv
<1>1. FdInit => FdInv
  BY InitHolds
<1>2. FdInv /\ [WriteUncompressedFileFromFd]_fdvars => FdInv'
  BY NextKeeps
<1>. QED
  BY <1>1, <1>2, PTL DEF FdSpec
----------------------------------------------------------------------------
(***************************************************************************)
(* What the image holds.                                                   *)
(***************************************************************************)

\* The image with the first n cells of s at B: WithInput with its state as arguments.
InputAt(B, s, n) == IF n = 0 THEN Image ELSE Out!Put(Image, B, Cells(s, 0, n))

LEMMA WithInputAt ==
  ASSUME NEW n
  PROVE  WithInput(n) = InputAt(Base, src, n)
  BY DEF WithInput, InputAt, In!Slice, Cells

\* Cells put where the ones before them end go on with the input.
LEMMA InputGoesOn ==
  ASSUME NEW s \in Seq(Cell), NEW B \in Nat, NEW n \in Nat, NEW k \in Nat \ {0}, n + k <= Len(s)
  PROVE  Out!Put(InputAt(B, s, n), B + n, Cells(s, n, n + k)) = InputAt(B, s, n + k)
<1>. DEFINE d == Cells(s, n, n + k)
            e == Cells(s, 0, n + k)
<1>1. /\ Len(s) \in Nat /\ n <= Len(s) /\ n + k \in Nat /\ n + k # 0
      /\ Image \in Seq(Cell) /\ Len(Image) \in Nat
  BY InputsAreSeqs
<1>2. e \in Seq(Cell) /\ Len(e) = n + k /\ \A i \in 1..(n + k) : e[i] = s[i]
  BY <1>1, FirstCells, Zenon
<1>3. InputAt(B, s, n + k) = Out!Put(Image, B, e)
  BY <1>1, Zenon DEF InputAt
<1>4. CASE n = 0
  <2>1. InputAt(B, s, n) = Image /\ B + n = B /\ d = e
    BY <1>4 DEF InputAt
  <2>. QED
    BY <1>3, <2>1
<1>5. CASE n # 0
  <2>. DEFINE c == Cells(s, 0, n)
              g == Out!Put(Image, B, c)
              h == Out!Put(g, B + n, d)
              r == Out!Put(Image, B, e)
  <2>1. c \in Seq(Cell) /\ Len(c) = n /\ \A i \in 1..n : c[i] = s[i]
    BY <1>1, FirstCells, Zenon
  <2>2. d \in Seq(Cell) /\ Len(d) = k /\ \A i \in 1..k : d[i] = s[n + i]
    <3>1. IsCut(Cell, s, n, n + k)
      BY <1>1, CutCells
    <3>2. /\ d \in Seq(Cell) /\ Len(d) = (IF n <= n + k THEN (n + k) - n ELSE 0)
          /\ \A i \in 1..((n + k) - n) : d[i] = s[n + i]
      BY <3>1, Zenon DEF IsCut
    <3>. HIDE DEF d
    <3>3. (n + k) - n = k /\ n <= n + k
      BY <1>1
    <3>. QED
      BY <3>2, <3>3
  <2>3. g = InputAt(B, s, n)
    BY <1>5 DEF InputAt
  <2>. HIDE DEF c, d, e
  <2>4. Wrote(Image, B, c, g)
    BY <1>1, <2>1, PutCells
  <2>5. g \in Seq(Cell) /\ B + n \in Nat
    BY <1>1, <2>4 DEF Wrote
  <2>. HIDE DEF g
  <2>6. Wrote(g, B + n, d, h)
    BY <2>2, <2>5, PutCells
  <2>7. Wrote(Image, B, e, r)
    BY <1>1, <1>2, PutCells
  <2>. HIDE DEF h, r
  <2>8. /\ Len(g) = (IF Len(Image) >= B + n THEN Len(Image) ELSE B + n)
        /\ \A i \in 1..Len(g) :
             g[i] = IF i \in (B + 1)..(B + n) THEN c[i - B]
                    ELSE IF i <= Len(Image) THEN Image[i] ELSE ZERO
    BY <2>1, <2>4 DEF Wrote, PutLen, PutAt
  <2>9. /\ h \in Seq(Cell) /\ Len(h) = (IF Len(g) >= (B + n) + k THEN Len(g) ELSE (B + n) + k)
        /\ \A i \in 1..Len(h) :
             h[i] = IF i \in (B + n + 1)..((B + n) + k) THEN d[i - (B + n)]
                    ELSE IF i <= Len(g) THEN g[i] ELSE ZERO
    BY <2>2, <2>6 DEF Wrote, PutLen, PutAt
  <2>10. /\ r \in Seq(Cell) /\ Len(r) = (IF Len(Image) >= B + (n + k) THEN Len(Image) ELSE B + (n + k))
         /\ \A i \in 1..Len(r) :
              r[i] = IF i \in (B + 1)..(B + (n + k)) THEN e[i - B]
                     ELSE IF i <= Len(Image) THEN Image[i] ELSE ZERO
    BY <1>2, <2>7 DEF Wrote, PutLen, PutAt
  <2>11. Len(h) = Len(r) /\ Len(g) \in Nat
    BY <1>1, <2>8, <2>9, <2>10
  <2>12. ASSUME NEW i \in 1..Len(h)
         PROVE  h[i] = r[i]
    <3>1. CASE i \in (B + n + 1)..((B + n) + k)
      <4>1. i - (B + n) \in 1..k /\ n + (i - (B + n)) = i - B /\ i - B \in 1..(n + k)
        BY <3>1
      <4>2. h[i] = s[i - B]
        BY <2>2, <2>9, <3>1, <4>1
      <4>3. r[i] = s[i - B]
        <5>1. i \in (B + 1)..(B + (n + k)) /\ i \in 1..Len(r)
          BY <2>11, <3>1
        <5>2. r[i] = e[i - B]
          BY <2>10, <5>1
        <5>. QED
          BY <1>2, <4>1, <5>2
      <4>. QED
        BY <4>2, <4>3
    <3>2. CASE i \in (B + 1)..(B + n)
      <4>1. i - B \in 1..n /\ i - B \in 1..(n + k) /\ i \in 1..Len(g)
        BY <1>1, <2>8, <3>2
      <4>2. h[i] = s[i - B]
        <5>1. g[i] = c[i - B]
          BY <2>8, <3>2, <4>1
        <5>2. h[i] = g[i]
          <6>1. i \notin (B + n + 1)..((B + n) + k) /\ i <= Len(g)
            BY <3>2, <4>1
          <6>. QED
            BY <2>9, <6>1
        <5>. QED
          BY <2>1, <4>1, <5>1, <5>2
      <4>3. r[i] = s[i - B]
        <5>1. i \in (B + 1)..(B + (n + k)) /\ i \in 1..Len(r)
          BY <2>11, <3>2
        <5>2. r[i] = e[i - B]
          BY <2>10, <5>1
        <5>. QED
          BY <1>2, <4>1, <5>2
      <4>. QED
        BY <4>2, <4>3
    <3>3. CASE i \notin (B + 1)..(B + (n + k))
      <4>1. i \notin (B + 1)..(B + n) /\ i \notin (B + n + 1)..((B + n) + k) /\ i \in Nat /\ i >= 1
        BY <2>9, <3>3
      <4>2. h[i] = IF i <= Len(g) THEN g[i] ELSE ZERO
        BY <2>9, <4>1
      <4>3. r[i] = IF i <= Len(Image) THEN Image[i] ELSE ZERO
        BY <2>10, <2>11, <3>3
      <4>4. i <= Len(g) => g[i] = IF i <= Len(Image) THEN Image[i] ELSE ZERO
        BY <2>8, <2>11, <4>1
      <4>5. i <= Len(Image) => i <= Len(g)
        BY <1>1, <2>8
      <4>. QED
        BY <4>2, <4>3, <4>4, <4>5
    <3>. QED
      BY <1>1, <2>9, <2>11, <3>1, <3>2, <3>3
  <2>13. h = r
    BY <2>9, <2>10, <2>11, <2>12, SeqEqual
  <2>. QED
    BY <1>3, <2>3, <2>13 DEF h, r, d
<1>. QED
  BY <1>4, <1>5

\* The first n cells of b are those of s from P on.
Holds(b, n, s, P) == \A k \in 1..n : b[k] = s[P + k]

\* The two positions agree, and the image holds the input up to them.
Together(P) == P \in Nat /\ job.pos = Base + P /\ img = InputAt(Base, src, P)

\* A read has brought n cells into the buffer b, and the image does not have them yet.
Brought(b, n) ==
  \E P \in Nat : P + n = spos /\ Together(P) /\ Holds(b, n, src, P)

ReadContent ==
  \/ Reads(rd, Wanted) /\ rd.done \in Nat /\ Brought(rd.buf, rd.done)
  \/ /\ rd = In!Resting /\ HasRead(rdres, Wanted)
     /\ rdres.ret \in Nat /\ Brought(rdres.out, rdres.ret)
     /\ rdres.ret = 0 /\ ~rdres.err => spos = Len(src)

\* The cells are written by one system call, or the kernel wrote less than offered.
Offers(c, n) == c.buf \in Seq(Cell) /\ Len(c.buf) >= n /\ Brought(c.buf, n)
WriteContent ==
  LET n == rdres.ret IN
  \/ wr # Out!Resting /\ wr.done = 0 /\ Offers(wr, n)
  \/ /\ (wr # Out!Resting /\ wr.done = n) \/ (wr = Out!Resting /\ job.put = n)
     /\ \E P \in Nat : P + n = spos /\ job.pos = Base + P
     /\ img = InputAt(Base, src, spos)

\* One chunk is all there is to copy.
OneChunk ==
  /\ src \in Source
  /\ job.at # "done" => inode.idata = <<>>
  /\ job.at = "start" => job.i = 0 /\ spos = 0 /\ img = Image
  /\ job.at = "loop" /\ job.i < NBlocks => job.i = 0 /\ spos = 0 /\ img = Image
  /\ Copying => job.i = 0 /\ job.chunk = NBlocks * BlkSz

InStep ==
  /\ job.at = "loop" => /\ img = InputAt(Base, src, spos)
                        /\ job.i >= NBlocks => spos \in {NBlocks * BlkSz, Len(src)}
  /\ job.at \in {"range", "sendfile", "manual"} => Together(spos)
  /\ job.at = "copied" => Together(spos) /\ spos = Len(src)
  /\ alive /\ job.at = "reading" => ReadContent
  /\ alive /\ job.at = "writing" => WriteContent
  /\ DoneMeansStored

Content == OneChunk /\ (Undisturbed => InStep)
----------------------------------------------------------------------------
(***************************************************************************)
(* The system calls, cell by cell.                                         *)
(***************************************************************************)

LEMMA AvailableAre ==
  ASSUME src \in Seq(Cell), NEW pos \in Nat, NEW room \in Nat,
         NEW k \in 1..Len(In!Available(pos, room)), NEW j \in 1..k
  PROVE  In!Slice(In!Available(pos, room), 0, k)[j] = src[pos + j]
<1>. DEFINE b == In!Least(Len(src), pos + room)
            a == Cells(src, pos, b)
<1>1. b \in Nat /\ b <= Len(src)
  BY DEF In!Least
<1>2. In!Available(pos, room) = a
  BY SlicesAreCells DEF In!Available
<1>. HIDE DEF b
<1>3. /\ a \in Seq(Cell) /\ Len(a) = (IF pos <= b THEN b - pos ELSE 0)
      /\ \A i \in 1..(b - pos) : a[i] = src[pos + i]
  BY <1>1, CutCells, Zenon DEF IsCut
<1>. HIDE DEF a
<1>4. k \in Nat /\ k <= Len(a) /\ j \in 1..(b - pos)
  BY <1>1, <1>2, <1>3
<1>5. Cells(a, 0, k)[j] = a[j]
  BY <1>3, <1>4, FirstCells
<1>. QED
  BY <1>2, <1>3, <1>4, <1>5, SlicesAreCells

LEMMA NothingAvailable ==
  ASSUME src \in Seq(Cell), NEW pos \in 0..Len(src), NEW room \in Nat \ {0},
         In!Available(pos, room) = <<>>
  PROVE  pos = Len(src)
<1>. DEFINE b == In!Least(Len(src), pos + room)
            a == Cells(src, pos, b)
<1>1. b \in Nat /\ b <= Len(src) /\ (pos < Len(src) => pos < b) /\ Len(src) \in Nat /\ pos \in Nat
  BY DEF In!Least
<1>2. In!Available(pos, room) = a
  BY SlicesAreCells DEF In!Available
<1>. HIDE DEF b
<1>3. Len(a) = (IF pos <= b THEN b - pos ELSE 0)
  BY <1>1, CutCells, Zenon DEF IsCut
<1>4. Len(a) = 0
  BY <1>2
<1>. HIDE DEF a
<1>. QED
  BY <1>1, <1>3, <1>4

LEMMA AvailableCut ==
  ASSUME src \in Seq(Cell), NEW pos \in Nat, NEW room \in Nat,
         NEW v, v = In!Available(pos, room), NEW k \in 1..Len(v), NEW d, d = In!Slice(v, 0, k)
  PROVE  k <= room /\ d \in Seq(Cell) /\ Len(d) = k
  BY AvailableCells

\* k cells behind the m that begin behind P.
LEMMA OnwardCell ==
  ASSUME NEW P \in Nat, NEW m \in Nat, NEW k \in Nat, NEW j \in (m + 1)..(m + k), NEW q, P + m = q
  PROVE  j - m \in 1..k /\ q + (j - m) = P + j
  OBVIOUS

LEMMA OnwardSum ==
  ASSUME NEW P \in Nat, NEW m \in Nat, NEW k \in Nat, NEW q, P + m = q
  PROVE  m + k \in Nat /\ P + (m + k) = q + k
  OBVIOUS

LEMMA ReadCells ==
  ASSUME src \in Seq(Cell), spos \in 0..Len(src), alive = TRUE, NEW n \in Nat \ {0}, n <= BufSize,
         Reads(rd, n), In!DevStep, ~In!IoReadInterrupted, rd.done \in Nat,
         NEW P \in Nat, P + rd.done = spos, Holds(rd.buf, rd.done, src, P)
  PROVE  alive' =>
           \/ /\ Reads(rd', n) /\ rd'.done \in Nat
              /\ P + rd'.done = spos' /\ Holds(rd'.buf, rd'.done, src, P)
           \/ /\ rd' = In!Resting /\ HasRead(rdres', n)
              /\ rdres'.ret \in Nat /\ P + rdres'.ret = spos' /\ Holds(rdres'.out, rdres'.ret, src, P)
              /\ rdres'.ret = 0 /\ ~rdres'.err => spos' = Len(src)
<1>0. /\ rd \in CallRec("ioread") /\ rd.fn = "ioread" /\ rd.want = n /\ rd.len = n /\ rd.done <= n
      /\ rd.buf \in Seq(Cell) /\ Len(rd.buf) = BufSize /\ spos \in Nat
      /\ BufSize \in Nat /\ Len(src) \in Nat
  BY FileDataAssumption DEF Reads, CallRec
<1>1. /\ src' = src
      /\ alive' => Reads(rd', n) \/ (rd' = In!Resting /\ HasRead(rdres', n))
  <2>1. n \in Nat
    OBVIOUS
  <2>. QED
    BY <2>1, ReadStep
<1>2. CASE In!IoReadSome
  <2>. DEFINE room == n - rd.done
              v == In!Available(spos, room)
  <2>1. rd.done < n /\ \E k \in 1..Len(v) : rd' = In!AfterRead(In!Slice(v, 0, k)) /\ spos' = spos + k
    BY <1>0, <1>2 DEF In!IoReadSome, In!IoReadGoesOn
  <2>2. PICK k \in 1..Len(v) : rd' = In!AfterRead(In!Slice(v, 0, k)) /\ spos' = spos + k
    BY <2>1
  <2>. DEFINE d == In!Slice(v, 0, k)
              b == In!Overlay(rd.buf, rd.done, d)
  <2>3. room \in Nat /\ rd.done + room = n
    BY <1>0, <2>1
  <2>. HIDE DEF room
  <2>4. k \in Nat /\ k >= 1 /\ k <= room /\ d \in Seq(Cell) /\ Len(d) = k
    <3>1. k \in 1..Len(v) /\ spos \in Nat /\ v = In!Available(spos, room) /\ d = In!Slice(v, 0, k)
      BY <1>0, <2>2
    <3>. HIDE DEF v, d
    <3>2. k <= room /\ d \in Seq(Cell) /\ Len(d) = k
      BY <2>3, <3>1, AvailableCut
    <3>3. k \in Nat /\ k >= 1
      BY <3>1
    <3>. QED
      BY <3>2, <3>3
  <2>5. ASSUME NEW j \in 1..k PROVE d[j] = src[spos + j]
    BY <1>0, <2>2, <2>3, <2>5, AvailableAre
  <2>6. rd' = [rd EXCEPT !.buf = b, !.done = @ + Len(d)]
    BY <2>2 DEF In!AfterRead
  <2>. HIDE DEF v, d
  <2>7. IsPatch(Cell, rd.buf, rd.done, d) /\ b = Patch(rd.buf, rd.done, d)
    <3>1. rd.done + Len(d) <= Len(rd.buf)
      BY <1>0, <2>3, <2>4
    <3>. QED
      BY <1>0, <2>4, <3>1, PatchCells, SlicesAreCells
  <2>8. \A j \in 1..BufSize : b[j] = IF j \in (rd.done + 1)..(rd.done + k) THEN d[j - rd.done] ELSE rd.buf[j]
    BY <1>0, <2>4, <2>7 DEF IsPatch
  <2>. HIDE DEF b
  <2>9. rd'.done = rd.done + k /\ rd'.buf = b
    BY <1>0, <2>4, <2>6 DEF CallRec
  <2>10. ASSUME NEW j \in 1..(rd.done + k) PROVE b[j] = src[P + j]
    <3>1. j \in 1..BufSize
      BY <1>0, <2>3, <2>4
    <3>2. CASE j \in (rd.done + 1)..(rd.done + k)
      <4>1. j - rd.done \in 1..k /\ spos + (j - rd.done) = P + j
        BY <2>4, <3>2, OnwardCell
      <4>. QED
        BY <2>5, <2>8, <3>1, <3>2, <4>1
    <3>3. CASE j \notin (rd.done + 1)..(rd.done + k)
      <4>1. j \in 1..rd.done
        BY <3>3
      <4>. QED
        BY <2>8, <3>1, <3>3, <4>1 DEF Holds
    <3>. QED
      BY <3>2, <3>3
  <2>11. rd.done + k \in Nat /\ P + (rd.done + k) = spos'
    <3>1. spos' = spos + k /\ k \in Nat
      BY <2>2, <2>4
    <3>. QED
      BY <3>1, OnwardSum
  <2>12. rd' # In!Resting
    BY <1>0, <2>9, <2>6 DEF CallRec, In!Resting
  <2>. QED
    BY <1>1, <2>9, <2>10, <2>11, <2>12 DEF Holds
<1>3. CASE In!IoReadReturns \/ In!IoReadFails
  <2>1. PICK err \in BOOLEAN :
          /\ In!Return(rd.done, err, rd.buf)
          /\ ~err => rd.done >= n \/ In!Available(spos, n - rd.done) = <<>>
    BY <1>0, <1>3 DEF In!IoReadReturns, In!IoReadFails
  <2>2. /\ rd' = In!Resting /\ spos' = spos
        /\ rdres' = [fn |-> rd.fn, off |-> rd.off, len |-> rd.len, from |-> rd.from,
                     old |-> rd.old, intr |-> rd.intr, ret |-> rd.done, err |-> err,
                     out |-> rd.buf]
    BY <2>1 DEF In!Return
  <2>3. ~Reads(rd', n)
    BY <2>2 DEF Reads, CallRec, In!Resting
  <2>4. rdres'.ret = rd.done /\ rdres'.out = rd.buf /\ rdres'.err = err
    BY <2>2
  <2>5. ASSUME rd.done = 0, ~err PROVE spos = Len(src)
    <3>1. In!Available(spos, n) = <<>>
      BY <1>0, <2>1, <2>5
    <3>. QED
      BY <1>0, <3>1, NothingAvailable
  <2>. QED
    BY <1>1, <2>2, <2>3, <2>4, <2>5
<1>4. CASE In!IoReadPanics
  BY <1>4 DEF In!IoReadPanics, In!Panic
<1>5. ~In!PwriteSome /\ ~In!PwritePanics /\ ~In!PwriteReturns
  BY <1>0 DEF In!PwriteSome, In!PwritePanics, In!PwriteReturns, In!PwriteGoesOn, In!During
<1>6. ~In!PreadSome /\ ~In!PreadReturns /\ ~In!PreadFails
  BY <1>0 DEF In!PreadSome, In!PreadReturns, In!PreadFails, In!During
<1>. QED
  BY <1>2, <1>3, <1>4, <1>5, <1>6 DEF In!DevStep

LEMMA AllCells ==
  ASSUME NEW s \in Seq(Cell)
  PROVE  Cells(s, 0, Len(s)) = s
<1>. DEFINE n == Len(s)
            c == Cells(s, 0, n)
<1>1. n \in Nat /\ n <= Len(s)
  OBVIOUS
<1>2. c \in Seq(Cell) /\ Len(c) = n /\ \A k \in 1..n : c[k] = s[k]
  BY <1>1, FirstCells, Zenon
<1>. HIDE DEF c
<1>3. c = s
  BY <1>2, SeqEqual
<1>. QED
  BY <1>3 DEF c

\* The first pwrite of what a read brought takes all of it, or less than offered.
LEMMA WriteCells ==
  ASSUME img \in Seq(Cell), alive = TRUE, NEW pos \in Nat, NEW n \in Nat \ {0},
         Writes(wr, pos, n), Out!DevStep, wr.done = 0, Len(wr.buf) >= n
  PROVE  alive' => \/ wr' = Out!Resting
                   \/ wr'.done < n
                   \/ wr'.done = n /\ wr' # Out!Resting /\ img' = Out!Put(img, pos, Cells(wr.buf, 0, n))
<1>0. /\ wr \in CallRec("write") /\ wr.fn = "write" /\ wr.want = n /\ wr.rest = 0
      /\ wr.pos = pos /\ wr.buf \in Seq(Cell) /\ Len(wr.buf) \in Nat
  <2>1. wr.buf \in Seq(Cell)
    BY DEF Writes, CallRec
  <2>. QED
    BY <2>1 DEF Writes, CallRec
<1>1. CASE Out!PwriteSome
  <2>. DEFINE c == Cells(wr.buf, 0, n)
  <2>1. Out!Chunk = c
    BY <1>0, SlicesAreCells DEF Out!Chunk
  <2>2. c \in Seq(Cell) /\ Len(c) = n /\ \A k \in 1..n : c[k] = wr.buf[k]
    BY <1>0, FirstCells
  <2>3. PICK k \in 1..Len(c) : img' = Out!Put(img, pos, Cells(c, 0, k)) /\ wr' = Out!AfterPwrite(k)
    BY <1>0, <1>1, <2>1, SlicesAreCells DEF Out!PwriteSome
  <2>. HIDE DEF c
  <2>4. k \in 1..n
    BY <2>2, <2>3
  <2>5. wr'.done = k /\ wr' # Out!Resting
    <3>. DEFINE b == Out!Slice(wr.buf, k, Len(wr.buf))
    <3>1. wr' = [wr EXCEPT !.buf = b, !.done = @ + k, !.pos = @ + k]
      BY <2>3 DEF Out!AfterPwrite
    <3>. HIDE DEF b
    <3>2. wr'.done = k /\ wr'.fn = "write"
      BY <1>0, <2>4, <3>1 DEF CallRec
    <3>. QED
      BY <3>2 DEF Out!Resting
  <2>6. ASSUME k = n PROVE Cells(c, 0, k) = c
    BY <2>2, <2>6, AllCells
  <2>7. CASE k = n
    BY <2>3, <2>5, <2>6, <2>7 DEF c
  <2>8. CASE k # n
    BY <2>4, <2>5, <2>8
  <2>. QED
    BY <2>7, <2>8
<1>2. CASE Out!PwritePanics
  BY <1>2 DEF Out!PwritePanics, Out!Panic
<1>3. CASE Out!PwriteReturns
  <2>1. ~(wr.rest > 0)
    BY <1>0
  <2>2. wr' = Out!Resting
    BY <1>3, <2>1 DEF Out!PwriteReturns, Out!Return
  <2>. QED
    BY <2>2
<1>4. ~Out!PreadSome /\ ~Out!PreadReturns /\ ~Out!PreadFails
  BY <1>0 DEF Out!PreadSome, Out!PreadReturns, Out!PreadFails, Out!During
<1>5. ~Out!IoReadSome /\ ~Out!IoReadPanics /\ ~Out!IoReadInterrupted /\ ~Out!IoReadReturns /\ ~Out!IoReadFails
  BY <1>0 DEF Out!IoReadSome, Out!IoReadPanics, Out!IoReadInterrupted, Out!IoReadReturns,
              Out!IoReadFails, Out!IoReadGoesOn, Out!During
<1>. QED
  BY <1>1, <1>2, <1>3, <1>4, <1>5 DEF Out!DevStep

\* A pwrite that has written all returns.
LEMMA WriteEnds ==
  ASSUME alive = TRUE, NEW pos \in Nat, NEW n \in Nat, Writes(wr, pos, n), Out!DevStep, wr.done = n
  PROVE  alive' => wr' = Out!Resting /\ img' = img
<1>0. wr \in CallRec("write") /\ wr.fn = "write" /\ wr.want = n /\ wr.rest = 0 /\ ~(wr.done < wr.want)
  BY DEF Writes, CallRec
<1>1. CASE Out!PwriteReturns
  <2>1. ~(wr.rest > 0)
    BY <1>0
  <2>. QED
    BY <1>1, <2>1 DEF Out!PwriteReturns, Out!Return
<1>2. ~Out!PwriteSome /\ ~Out!PwritePanics
  BY <1>0 DEF Out!PwriteSome, Out!PwritePanics, Out!PwriteGoesOn
<1>3. ~Out!PreadSome /\ ~Out!PreadReturns /\ ~Out!PreadFails
  BY <1>0 DEF Out!PreadSome, Out!PreadReturns, Out!PreadFails, Out!During
<1>4. ~Out!IoReadSome /\ ~Out!IoReadPanics /\ ~Out!IoReadInterrupted /\ ~Out!IoReadReturns /\ ~Out!IoReadFails
  BY <1>0 DEF Out!IoReadSome, Out!IoReadPanics, Out!IoReadInterrupted, Out!IoReadReturns,
              Out!IoReadFails, Out!IoReadGoesOn, Out!During
<1>. QED
  BY <1>1, <1>2, <1>3, <1>4 DEF Out!DevStep
----------------------------------------------------------------------------
(***************************************************************************)
(* One chunk holds every whole block.                                      *)
(***************************************************************************)

LEMMA LessFactor ==
  ASSUME NEW b \in Nat \ {0}, NEW m \in Int, NEW n \in Int, b * m < b * n
  PROVE  b * m + b <= b * n
<1>1. m < n
  <2>1. SUFFICES ASSUME n <= m PROVE FALSE
    OBVIOUS
  <2>2. PICK k \in Nat : m = n + k
    <3>1. m - n \in Nat /\ m = n + (m - n)
      BY <2>1
    <3>. QED
      BY <3>1
  <2>3. b * m = b * n + b * k /\ b * k \in Nat /\ b * n \in Int
    BY <2>2
  <2>. QED
    BY <2>3
<1>2. PICK k \in Nat : n = m + 1 + k
  <2>1. n - m - 1 \in Nat /\ n = m + 1 + (n - m - 1)
    BY <1>1
  <2>. QED
    BY <2>1
<1>3. b * n = b * m + b + b * k /\ b * k \in Nat /\ b * m \in Int
  BY <1>2
<1>. QED
  BY <1>3

LEMMA BlocksFit ==
  ASSUME inode \in InodeRec
  PROVE  /\ NBlocks * BlkSz <= MaxChunk
         /\ (NBlocks * BlkSz) \div BlkSz = NBlocks
         /\ inode.isize < Word => inode.isize = NBlocks * BlkSz + TailSize
<1>. DEFINE x == inode.isize % Word
            w == Word \div BlkSz
            q == x \div BlkSz
            r == x % BlkSz
<1>1. BlkSz \in Nat \ {0} /\ Word \in Nat \ {0} /\ Word % BlkSz = 0 /\ inode.isize \in Nat
  <2>1. BlkSz \in Nat \ {0} /\ Word \in Nat /\ Word >= 2 * BlkSz /\ Word % BlkSz = 0
    BY BlkSzAssumption, FileDataAssumption
  <2>2. inode.isize \in Nat
    BY FileDataAssumption DEF InodeRec
  <2>. QED
    BY <2>1, <2>2
<1>2. x \in 0..(Word - 1) /\ (inode.isize < Word => x = inode.isize)
  <2>1. x \in 0..(Word - 1)
    <3>1. inode.isize \in Int
      BY <1>1
    <3>. QED
      BY <1>1, <3>1, DivMod
  <2>2. ASSUME inode.isize < Word PROVE x = inode.isize
    <3>1. inode.isize \in 0..(Word - 1) /\ 0 \in Int /\ inode.isize = Word * 0 + inode.isize
      BY <1>1, <2>2
    <3>. QED
      BY <1>1, <3>1, DivUnique
  <2>. QED
    BY <2>1, <2>2
<1>. HIDE DEF x
<1>3. w \in Int /\ Word = BlkSz * w
  <2>1. /\ Word \div BlkSz \in Int
        /\ Word = BlkSz * (Word \div BlkSz) + (Word % BlkSz)
    BY <1>1, DivMod
  <2>2. BlkSz * w \in Int
    BY <1>1, <2>1
  <2>. QED
    BY <1>1, <2>1, <2>2
<1>4. q \in Int /\ r \in 0..(BlkSz - 1) /\ x = BlkSz * q + r
  <2>1. x \in Int
    BY <1>1, <1>2
  <2>. QED
    BY <1>1, <2>1, DivMod
<1>5. NBlocks = q /\ TailSize = r
  BY DEF NBlocks, TailSize, x
<1>. HIDE DEF w, q, r
<1>6. BlkSz * q \in Int /\ q * BlkSz = BlkSz * q
  BY <1>1, <1>4
<1>7. BlkSz * q < BlkSz * w
  BY <1>1, <1>2, <1>3, <1>4, <1>6
<1>8. BlkSz * q + BlkSz <= Word
  BY <1>1, <1>3, <1>4, <1>7, LessFactor
<1>9. (q * BlkSz) \div BlkSz = q
  <2>1. 0 \in 0..(BlkSz - 1) /\ q * BlkSz = BlkSz * q + 0 /\ q * BlkSz \in Int
    BY <1>1, <1>6
  <2>. QED
    BY <1>1, <1>4, <2>1, DivUnique
<1>10. q * BlkSz <= MaxChunk
  BY <1>1, <1>6, <1>8 DEF MaxChunk
<1>11. inode.isize < Word => inode.isize = q * BlkSz + r
  BY <1>2, <1>4, <1>6
<1>. QED
  BY <1>5, <1>9, <1>10, <1>11
----------------------------------------------------------------------------
(***************************************************************************)
(* Every step keeps the input and the image in step.                       *)
(***************************************************************************)

LEMMA Around ==
  ASSUME FdInv
  PROVE  /\ src \in Seq(Cell) /\ Len(src) \in Nat /\ spos \in 0..Len(src) /\ spos \in Nat
         /\ img \in Seq(Cell) /\ alive \in BOOLEAN /\ inode \in InodeRec
         /\ NBlocks \in Nat /\ TailSize \in Nat /\ NBlocks * BlkSz \in Nat
         /\ Copying => Base \in Nat
  BY Blocks32 DEF FdInv, Typed, Placed, CopyAddressed

LEMMA FailsInStep ==
  ASSUME FdInv, Content, job.at # "done", job' = [job EXCEPT !.at = "failed"], src' = src,
         inode' = inode
  PROVE  Content'
<1>1. job'.at = "failed"
  BY JobTyped DEF JobRec
<1>. QED
  BY <1>1 DEF Content, OneChunk, InStep, DoneMeansStored, Copying, Undisturbed

LEMMA AllocateInStep ==
  ASSUME FdInv, Content, Allocate
  PROVE  Content'
<1>1. /\ job.at = "start" /\ src' = src /\ spos' = spos /\ alive' = alive /\ img' = img
      /\ inode.idata = <<>> /\ src \in Source /\ job.i = 0 /\ spos = 0 /\ img = Image
  BY DEF Allocate, At, Still, Content, OneChunk
<1>2. CASE NBlocks > 0 /\ GoTo("failed") /\ UNCHANGED inode
  BY <1>1, <1>2, FailsInStep DEF GoTo
<1>3. CASE GoTo("loop") /\ inode'.idata = inode.idata /\ (NBlocks' = 0 \/ NBlocks' \in Nat \ {0})
  <2>1. job'.at = "loop" /\ job'.i = 0
    BY <1>1, <1>3, JobTyped DEF GoTo, JobRec
  <2>2. OneChunk'
    BY <1>1, <1>3, <2>1 DEF OneChunk, Copying
  <2>3. img' = InputAt(Base', src', spos')
    BY <1>1 DEF InputAt
  <2>4. ASSUME job'.i >= NBlocks' PROVE spos' \in {NBlocks' * BlkSz, Len(src')}
    <3>1. NBlocks' = 0
      BY <1>3, <2>1, <2>4
    <3>2. 0 * BlkSz = 0
      BY BlkSzAssumption
    <3>. QED
      BY <1>1, <3>1, <3>2
  <2>5. InStep'
    BY <2>1, <2>3, <2>4 DEF InStep, DoneMeansStored
  <2>. QED
    BY <2>2, <2>5 DEF Content
<1>4. CASE NBlocks = 0 /\ GoTo("loop") /\ UNCHANGED inode
  BY <1>3, <1>4 DEF NBlocks
<1>5. CASE NBlocks > 0 /\ GoTo("loop") /\ \E b \in Addr : inode' = [inode EXCEPT !.addr = b]
  <2>1. inode'.idata = inode.idata /\ inode'.isize = inode.isize /\ NBlocks \in Nat
    BY <1>5, Around DEF InodeRec
  <2>2. NBlocks' = NBlocks
    BY <2>1 DEF NBlocks
  <2>. QED
    BY <1>3, <1>5, <2>1, <2>2
<1>. QED
  BY <1>2, <1>4, <1>5 DEF Allocate

LEMMA CopyChunkInStep ==
  ASSUME FdInv, Content, CopyChunk
  PROVE  Content'
<1>. DEFINE t == NBlocks * BlkSz
            len == In!Least(MaxChunk, t)
<1>1. /\ job.at = "loop" /\ src' = src /\ spos' = spos /\ alive' = alive /\ img' = img
      /\ inode' = inode /\ job.i < NBlocks
      /\ job' = [job EXCEPT !.at = "range", !.chunk = len, !.pos = Base, !.left = len]
  BY DEF CopyChunk, At, Still
<1>2. job.i = 0 /\ spos = 0 /\ img = Image /\ src \in Source /\ inode.idata = <<>>
  BY <1>1 DEF Content, OneChunk
<1>3. t' = t /\ Base' = Base
  BY <1>1 DEF NBlocks, Base
<1>4. len = t
  <2>1. t \in Nat /\ MaxChunk \in Nat /\ t <= MaxChunk
    BY Around, BlocksFit, Blocks32
  <2>. HIDE DEF t
  <2>. QED
    BY <2>1 DEF In!Least
<1>5. Base + 0 = Base
  <2>1. inode.addr \in Nat
    <3>1. NBlocks # 0
      BY <1>1, <1>2, Around
    <3>. QED
      BY <1>1, <3>1 DEF FdInv, Placed, Addressed
  <2>. QED
    BY <2>1, Around, Blocks32
<1>. HIDE DEF t, len
<1>6. job'.at = "range" /\ job'.i = 0 /\ job'.chunk = t /\ job'.pos = Base
  BY <1>1, <1>2, <1>4, JobTyped DEF JobRec
<1>7. OneChunk'
  BY <1>1, <1>2, <1>3, <1>6 DEF OneChunk, t
<1>8. Together(spos)'
  <2>1. img' = InputAt(Base', src', spos')
    BY <1>1, <1>2 DEF InputAt
  <2>2. spos' \in Nat /\ job'.pos = Base' + spos'
    BY <1>1, <1>2, <1>3, <1>5, <1>6
  <2>. QED
    BY <2>1, <2>2 DEF Together
<1>9. InStep'
  BY <1>6, <1>8 DEF InStep, DoneMeansStored
<1>. QED
  BY <1>7, <1>9 DEF Content

\* Steps inside a chunk: only where the copy stands has to be told.
LEMMA ChunkInStep ==
  ASSUME FdInv, Content, Copying, src' = src, inode' = inode,
         job'.i = job.i, job'.chunk = job.chunk, Copying', Undisturbed' => InStep'
  PROVE  Content'
<1>1. job'.at # "start" /\ job'.at # "loop"
  BY DEF Copying
<1>2. job.at # "done"
  BY DEF Copying
<1>. QED
  BY <1>1, <1>2 DEF Content, OneChunk, NBlocks

LEMMA KernelInStep ==
  ASSUME FdInv, Content, job.at \in {"range", "sendfile"}, NEW n \in Movable, Moved(n), Still,
         inode' = inode, NEW at \in {"sendfile", "manual"}, job' = [AfterMove(n) EXCEPT !.at = at]
  PROVE  Content'
<1>1. /\ job \in JobRec /\ src \in Seq(Cell) /\ Len(src) \in Nat /\ spos \in Nat /\ spos <= Len(src)
      /\ job.left \in Nat /\ job.pos \in Nat /\ Base \in Nat /\ Copying
  BY Around, JobTyped DEF Copying
<1>2. n \in Nat /\ spos + n <= Len(src)
  BY <1>1 DEF Movable, In!Least
<1>3. /\ job'.at = at /\ job'.i = job.i /\ job'.chunk = job.chunk /\ job'.pos = job.pos + n
      /\ job'.intr = job.intr /\ job'.short = job.short
  BY <1>1 DEF AfterMove, JobRec
<1>4. Base' = Base /\ src' = src /\ spos' = spos + n
  BY DEF Base, Still, Moved
<1>5. ASSUME Undisturbed'
      PROVE  Together(spos)'
  <2>1. Together(spos)
    BY <1>3, <1>5 DEF Content, InStep, Undisturbed
  <2>2. spos' \in Nat /\ job'.pos = Base' + spos'
    <3>1. job.pos = Base + spos
      BY <2>1 DEF Together
    <3>. QED
      BY <1>1, <1>2, <1>3, <1>4, <3>1
  <2>3. img' = InputAt(Base, src, spos + n)
    <3>1. CASE n = 0
      BY <1>1, <2>1, <3>1 DEF Moved, Together
    <3>2. CASE n # 0
      <4>1. img' = Out!Put(InputAt(Base, src, spos), Base + spos, Cells(src, spos, spos + n))
        BY <2>1, <3>2, SlicesAreCells DEF Moved, Together
      <4>2. n \in Nat \ {0}
        BY <1>2, <3>2
      <4>. QED
        BY <1>1, <1>2, <4>1, <4>2, InputGoesOn
    <3>. QED
      BY <3>1, <3>2
  <2>. QED
    BY <1>4, <2>2, <2>3 DEF Together
<1>6. Undisturbed' => InStep'
  BY <1>3, <1>5 DEF InStep, DoneMeansStored
<1>7. Copying'
  BY <1>3 DEF Copying
<1>. QED
  BY <1>1, <1>3, <1>4, <1>6, <1>7, ChunkInStep

LEMMA KernelCopyInStep ==
  ASSUME FdInv, Content, CopyFileRange \/ Sendfile
  PROVE  Content'
<1>1. CASE CopyFileRange
  <2>1. PICK n \in Movable :
          /\ Moved(n)
          /\ job' = [AfterRange(n) EXCEPT
                       !.at = IF job.left > n /\ ~inode.diskbuf THEN "sendfile" ELSE "manual"]
    BY <1>1 DEF CopyFileRange
  <2>2. PICK at \in {"sendfile", "manual"} : job' = [AfterMove(n) EXCEPT !.at = at]
    BY <2>1 DEF AfterRange
  <2>3. Still /\ inode' = inode /\ job.at \in {"range", "sendfile"}
    BY <1>1 DEF CopyFileRange, At
  <2>. QED
    BY <2>1, <2>2, <2>3, KernelInStep
<1>2. CASE Sendfile
  <2>1. PICK n \in Movable : Moved(n) /\ job' = [AfterMove(n) EXCEPT !.at = "manual"]
    BY <1>2 DEF Sendfile, AfterSendfile
  <2>2. /\ Still /\ inode' = inode /\ job.at \in {"range", "sendfile"}
        /\ "manual" \in {"sendfile", "manual"}
    BY <1>2 DEF Sendfile, At
  <2>. QED
    BY <2>1, <2>2, KernelInStep
<1>. QED
  BY <1>1, <1>2

LEMMA ReadSomeInStep ==
  ASSUME FdInv, Content, ReadSome
  PROVE  Content'
<1>1. /\ job.at = "manual" /\ job.left > 0 /\ img' = img /\ inode' = inode
      /\ job' = [job EXCEPT !.at = "reading"] /\ alive
      /\ In!Begin("ioread", spos, Wanted, <<>>, In!NewBuf, Wanted, 0)
  BY DEF ReadSome, At, GoTo, In!IoRead, Wanted
<1>2. rd'.done = 0 /\ rd' # In!Resting /\ src' = src /\ spos' = spos
  BY <1>1 DEF In!Begin, In!Resting
<1>3. FdInv'
  BY ReadSomeKeeps
<1>4. /\ job'.at = "reading" /\ job'.i = job.i /\ job'.chunk = job.chunk /\ job'.pos = job.pos
      /\ job'.intr = job.intr /\ job'.short = job.short
  BY <1>1, JobTyped DEF JobRec
<1>5. Copying /\ Copying' /\ Base' = Base
  BY <1>1, <1>4 DEF Copying, Base
<1>6. ASSUME Undisturbed'
      PROVE  ReadContent' \/ ~alive'
  <2>1. Together(spos)
    BY <1>1, <1>4, <1>6 DEF Content, InStep, Undisturbed
  <2>2. spos \in Nat /\ spos + 0 = spos'
    BY <1>2, Around
  <2>3. Brought(rd.buf, 0)'
    <3>1. Holds(rd'.buf, 0, src', spos)
      BY DEF Holds
    <3>2. Together(spos)'
      BY <1>1, <1>2, <1>4, <1>5, <2>1 DEF Together
    <3>. QED
      BY <1>1, <1>2, <1>4, <1>5, <2>1, <2>2, <3>1 DEF Brought, Together
  <2>4. alive' => Reads(rd, Wanted)'
    BY <1>2, <1>3, <1>4 DEF FdInv, ReadJob
  <2>5. rd'.done = 0 /\ 0 \in Nat
    BY <1>2
  <2>. QED
    BY <2>3, <2>4, <2>5 DEF ReadContent
<1>7. Undisturbed' => InStep'
  BY <1>4, <1>6 DEF InStep, DoneMeansStored
<1>. QED
  BY <1>1, <1>2, <1>4, <1>5, <1>7, ChunkInStep

LEMMA ReadingInStep ==
  ASSUME FdInv, Content, Reading
  PROVE  Content'
<1>. DEFINE i == job.intr \/ In!IoReadInterrupted
<1>1. /\ job.at = "reading" /\ alive = TRUE /\ rd # In!Resting /\ img' = img /\ inode' = inode
      /\ In!DevStep /\ job' = [job EXCEPT !.intr = i]
  BY DEF Reading, At, FdInv, Typed
<1>2. /\ src \in Seq(Cell) /\ spos \in 0..Len(src) /\ job.left \in Nat /\ job.left > 0
      /\ BufSize \in Nat \ {0} /\ Reads(rd, Wanted)
  BY <1>1, JobTyped, FileDataAssumption DEF FdInv, Typed, ReadJob
<1>3. Wanted \in Nat \ {0} /\ Wanted <= BufSize
  BY <1>2 DEF Wanted, In!Least
<1>4. /\ job'.at = "reading" /\ job'.i = job.i /\ job'.chunk = job.chunk /\ job'.pos = job.pos
      /\ job'.left = job.left /\ job'.intr = i /\ job'.short = job.short
  <2>. HIDE DEF i
  <2>. QED
    BY <1>1, JobTyped DEF JobRec
<1>5. src' = src
  BY <1>1, <1>2, <1>3, ReadStep
<1>6. Copying /\ Copying' /\ Base' = Base /\ Wanted' = Wanted
  BY <1>1, <1>4 DEF Copying, Base, Wanted
<1>7. ASSUME Undisturbed', alive'
      PROVE  ReadContent'
  <2>1. Undisturbed /\ ~In!IoReadInterrupted
    BY <1>4, <1>7, Zenon DEF Undisturbed, i
  <2>2. rd.done \in Nat /\ Brought(rd.buf, rd.done)
    BY <1>1, <2>1 DEF Content, InStep, ReadContent
  <2>3. PICK P \in Nat : P + rd.done = spos /\ Together(P) /\ Holds(rd.buf, rd.done, src, P)
    BY <2>2 DEF Brought
  <2>. HIDE DEF i, Wanted
  <2>4. \/ /\ Reads(rd', Wanted) /\ rd'.done \in Nat
           /\ P + rd'.done = spos' /\ Holds(rd'.buf, rd'.done, src, P)
        \/ /\ rd' = In!Resting /\ HasRead(rdres', Wanted)
           /\ rdres'.ret \in Nat /\ P + rdres'.ret = spos' /\ Holds(rdres'.out, rdres'.ret, src, P)
           /\ rdres'.ret = 0 /\ ~rdres'.err => spos' = Len(src)
    BY <1>1, <1>2, <1>3, <1>7, <2>1, <2>2, <2>3, ReadCells
  <2>5. P \in Nat /\ job'.pos = Base' + P /\ img' = InputAt(Base', src', P)
    BY <1>1, <1>4, <1>5, <1>6, <2>3 DEF Together
  <2>. QED
    BY <1>5, <1>6, <2>4, <2>5 DEF ReadContent, Brought, Together
<1>8. Undisturbed' => InStep'
  BY <1>4, <1>7 DEF InStep, DoneMeansStored
<1>. QED
  BY <1>1, <1>4, <1>5, <1>6, <1>8, ChunkInStep

\* A call that is over left no locals behind.
LEMMA ReadOver ==
  ASSUME FdInv, Content, Undisturbed, alive, job.at = "reading", rd = In!Resting
  PROVE  /\ rdres.ret \in Nat /\ Brought(rdres.out, rdres.ret)
         /\ rdres.ret = 0 /\ ~rdres.err => spos = Len(src)
<1>1. ~Reads(rd, Wanted)
  BY DEF Reads, CallRec, In!Resting
<1>. QED
  BY <1>1 DEF Content, InStep, ReadContent

LEMMA NothingReadInStep ==
  ASSUME FdInv, Content, NothingRead
  PROVE  Content'
<1>1. /\ job.at = "reading" /\ alive /\ rd = In!Resting /\ ~rdres.err /\ rdres.ret <= 0
      /\ job' = [job EXCEPT !.at = "copied"] /\ img' = img /\ inode' = inode
      /\ src' = src /\ spos' = spos
  BY DEF NothingRead, ReadDone, At, GoTo, Still, AtEnd
<1>2. /\ job'.at = "copied" /\ job'.i = job.i /\ job'.chunk = job.chunk /\ job'.pos = job.pos
      /\ job'.intr = job.intr /\ job'.short = job.short
  BY <1>1, JobTyped DEF JobRec
<1>3. Copying /\ Copying' /\ Base' = Base
  BY <1>1, <1>2 DEF Copying, Base
<1>4. ASSUME Undisturbed'
      PROVE  Together(spos)' /\ spos' = Len(src')
  <2>1. Undisturbed
    BY <1>2, <1>4 DEF Undisturbed
  <2>2. rdres.ret = 0 /\ Brought(rdres.out, rdres.ret) /\ spos = Len(src)
    BY <1>1, <2>1, ReadOver
  <2>3. Together(spos)
    BY <2>2 DEF Brought
  <2>. QED
    BY <1>1, <1>2, <1>3, <2>2, <2>3 DEF Together
<1>5. Undisturbed' => InStep'
  BY <1>2, <1>4 DEF InStep, DoneMeansStored
<1>. QED
  BY <1>1, <1>2, <1>3, <1>5, ChunkInStep

\* No cell of an input is one that was never read.
LEMMA NoJunkRead ==
  ASSUME src \in Source, src \in Seq(Cell), NEW i \in 1..Len(src)
  PROVE  src[i] # JUNKCELL
<1>1. src[i] \in Range(src)
  BY DEF Range
<1>. QED
  BY <1>1, FileDataAssumption

LEMMA SameCells ==
  ASSUME NEW s \in Seq(Cell), NEW b \in Seq(Cell), NEW n \in Nat, NEW P \in Nat,
         n <= Len(b), P + n <= Len(s), Holds(b, n, s, P)
  PROVE  Cells(b, 0, n) = Cells(s, P, P + n)
<1>. DEFINE d == Cells(b, 0, n)
            e == Cells(s, P, P + n)
<1>1. d \in Seq(Cell) /\ Len(d) = n /\ \A k \in 1..n : d[k] = b[k]
  BY FirstCells
<1>2. /\ e \in Seq(Cell) /\ Len(e) = (IF P <= P + n THEN (P + n) - P ELSE 0)
      /\ \A k \in 1..((P + n) - P) : e[k] = s[P + k]
  <2>1. P + n \in Nat
    OBVIOUS
  <2>2. IsCut(Cell, s, P, P + n)
    BY <2>1, CutCells
  <2>. QED
    BY <2>2, Zenon DEF IsCut
<1>. HIDE DEF d, e
<1>3. (P + n) - P = n /\ P <= P + n
  OBVIOUS
<1>4. d = e
  BY <1>1, <1>2, <1>3, SeqEqual DEF Holds
<1>. QED
  BY <1>4 DEF d, e

LEMMA WriteSomeInStep ==
  ASSUME FdInv, Content, WriteSome
  PROVE  Content'
<1>. DEFINE f == Filled(rdres.out)
            b == Cells(f, 0, rdres.len)
            n == rdres.ret
<1>1. /\ job.at = "reading" /\ alive /\ rd = In!Resting /\ job' = [job EXCEPT !.at = "writing"]
      /\ img' = img /\ inode' = inode /\ src' = src /\ spos' = spos /\ rdres' = rdres /\ rdres.ret > 0
      /\ Out!Begin("write", job.pos, rdres.ret, b, b, rdres.ret, 0)
  BY SlicesAreCells DEF WriteSome, ReadDone, At, GoTo, Out!DevWrite
<1>2. wr'.done = 0 /\ wr' # Out!Resting /\ wr'.buf = b
  <2>. HIDE DEF b
  <2>. QED
    BY <1>1 DEF Out!Begin, Out!Resting
<1>3. /\ HasRead(rdres, Wanted) /\ Wanted \in Nat /\ Wanted <= BufSize /\ BufSize \in Nat
  BY <1>1, ReadReturned, FileDataAssumption
<1>4. /\ rdres.out \in Seq(Cell) /\ Len(rdres.out) = BufSize /\ rdres.len = Wanted
      /\ n \in Nat /\ n <= Wanted /\ n <= BufSize
  BY <1>1, <1>3 DEF HasRead, ResultRec
<1>5. f \in Seq(Cell) /\ Len(f) = BufSize
      /\ \A k \in 1..BufSize : f[k] = IF rdres.out[k] = JUNKCELL THEN ZERO ELSE rdres.out[k]
  <2>1. f = [k \in 1..BufSize |-> IF rdres.out[k] = JUNKCELL THEN ZERO ELSE rdres.out[k]]
    BY <1>4 DEF Filled
  <2>2. \A k \in 1..BufSize : rdres.out[k] \in Cell /\ ZERO \in Cell
    BY <1>4 DEF Cell
  <2>. HIDE DEF f
  <2>3. f \in [1..BufSize -> Cell]
    BY <2>1, <2>2
  <2>. QED
    BY <1>3, <2>1, <2>3, SeqOfFcn
<1>. HIDE DEF f, Wanted
<1>6. b \in Seq(Cell) /\ Len(b) = Wanted /\ \A k \in 1..Wanted : b[k] = f[k]
  BY <1>3, <1>4, <1>5, FirstCells
<1>. HIDE DEF b
<1>7. /\ job'.at = "writing" /\ job'.i = job.i /\ job'.chunk = job.chunk /\ job'.pos = job.pos
      /\ job'.intr = job.intr /\ job'.short = job.short
  BY <1>1, JobTyped DEF JobRec
<1>8. Copying /\ Copying' /\ Base' = Base
  BY <1>1, <1>7 DEF Copying, Base
<1>9. ASSUME Undisturbed'
      PROVE  WriteContent'
  <2>1. Undisturbed
    BY <1>7, <1>9 DEF Undisturbed
  <2>2. PICK P \in Nat : P + n = spos /\ Together(P) /\ Holds(rdres.out, n, src, P)
    BY <1>1, <2>1, ReadOver DEF Brought
  <2>3. ASSUME NEW k \in 1..n PROVE b[k] = src[P + k]
    <3>1. k \in 1..Wanted /\ k \in 1..BufSize /\ P + k \in 1..Len(src)
      BY <1>3, <1>4, <2>2, Around
    <3>2. rdres.out[k] = src[P + k] /\ src[P + k] # JUNKCELL
      BY <2>2, <3>1, NoJunkRead, Around DEF Holds, Content, OneChunk
    <3>. QED
      BY <1>5, <1>6, <3>1, <3>2
  <2>4. Together(P)'
    BY <1>1, <1>7, <1>8, <2>2 DEF Together
  <2>5. wr'.buf \in Seq(Cell) /\ Len(wr'.buf) >= rdres'.ret
    BY <1>1, <1>2, <1>3, <1>4, <1>6
  <2>6. Holds(wr'.buf, rdres'.ret, src', P)
    BY <1>1, <1>2, <2>3 DEF Holds
  <2>7. P + rdres'.ret = spos'
    BY <1>1, <2>2
  <2>8. Brought(wr.buf, rdres.ret)'
    BY <2>4, <2>6, <2>7 DEF Brought
  <2>. QED
    BY <1>2, <2>5, <2>8 DEF WriteContent, Offers
<1>10. Undisturbed' => InStep'
  BY <1>7, <1>9 DEF InStep, DoneMeansStored
<1>. QED
  BY <1>1, <1>7, <1>8, <1>10, ChunkInStep

LEMMA WritingInStep ==
  ASSUME FdInv, Content, Writing
  PROVE  Content'
<1>. DEFINE n == rdres.ret
            short == job.short \/ (wr.done < wr.want /\ (wr' = Out!Resting \/ wr'.done < wr.want))
<1>1. /\ job.at = "writing" /\ alive = TRUE /\ wr # Out!Resting /\ Out!DevStep
      /\ job' = [job EXCEPT !.put = wr.done, !.short = short]
      /\ src' = src /\ spos' = spos /\ rdres' = rdres /\ inode' = inode
  BY DEF Writing, At, FdInv, Typed
<1>2. /\ img \in Seq(Cell) /\ job.pos \in Nat /\ job.left \in Nat /\ n \in 1..job.left
      /\ Writes(wr, job.pos, n) /\ n \in Nat \ {0} /\ wr.want = n
  BY <1>1, JobTyped DEF FdInv, Typed, WriteJob, Writes
<1>3. /\ job'.at = "writing" /\ job'.i = job.i /\ job'.chunk = job.chunk /\ job'.pos = job.pos
      /\ job'.put = wr.done /\ job'.intr = job.intr /\ job'.short = short
  <2>. HIDE DEF short
  <2>. QED
    BY <1>1, JobTyped DEF JobRec
<1>4. Copying /\ Copying' /\ Base' = Base
  BY <1>1, <1>3 DEF Copying, Base
<1>5. ASSUME Undisturbed', alive'
      PROVE  WriteContent'
  <2>1. Undisturbed /\ ~(wr.done < n /\ (wr' = Out!Resting \/ wr'.done < n))
    BY <1>2, <1>3, <1>5, Zenon DEF Undisturbed, short
  <2>2. WriteContent
    BY <1>1, <2>1 DEF Content, InStep
  <2>3. CASE wr.done = 0 /\ Offers(wr, n)
    <3>1. PICK P \in Nat : P + n = spos /\ Together(P) /\ Holds(wr.buf, n, src, P)
      BY <2>3 DEF Offers, Brought
    <3>2. wr.buf \in Seq(Cell) /\ Len(wr.buf) >= n
      BY <2>3 DEF Offers
    <3>3. wr.done < n
      BY <1>2, <2>3
    <3>4. wr'.done = n /\ wr' # Out!Resting /\ img' = Out!Put(img, job.pos, Cells(wr.buf, 0, n))
      BY <1>1, <1>2, <1>5, <2>1, <2>3, <3>2, <3>3, WriteCells
    <3>5. Cells(wr.buf, 0, n) = Cells(src, P, P + n)
      BY <1>2, <3>1, <3>2, Around, SameCells
    <3>6. img' = InputAt(Base, src, P + n)
      <4>1. img' = Out!Put(InputAt(Base, src, P), Base + P, Cells(src, P, P + n))
        BY <3>1, <3>4, <3>5 DEF Together
      <4>2. P + n <= Len(src) /\ src \in Seq(Cell) /\ Base \in Nat
        BY <1>4, <3>1, Around
      <4>3. n \in Nat \ {0}
        BY <1>2
      <4>. HIDE DEF n
      <4>4. Out!Put(InputAt(Base, src, P), Base + P, Cells(src, P, P + n)) = InputAt(Base, src, P + n)
        BY <4>2, <4>3, InputGoesOn
      <4>. QED
        BY <4>1, <4>4, Zenon
    <3>7. img' = InputAt(Base', src', spos') /\ P + rdres'.ret = spos' /\ job'.pos = Base' + P
      BY <1>1, <1>3, <1>4, <3>1, <3>6 DEF Together
    <3>. QED
      BY <1>1, <3>1, <3>4, <3>7 DEF WriteContent
  <2>4. CASE wr.done = n /\ img = InputAt(Base, src, spos) /\ \E P \in Nat : P + n = spos /\ job.pos = Base + P
    <3>1. wr' = Out!Resting /\ img' = img
      <4>1. n \in Nat
        BY <1>2
      <4>. QED
        BY <1>1, <1>2, <1>5, <2>4, <4>1, WriteEnds
    <3>2. img' = InputAt(Base', src', spos') /\ job'.put = rdres'.ret
      BY <1>1, <1>3, <1>4, <2>4, <3>1
    <3>3. \E P \in Nat : P + rdres'.ret = spos' /\ job'.pos = Base' + P
      BY <1>1, <1>3, <1>4, <2>4
    <3>. QED
      BY <3>1, <3>2, <3>3 DEF WriteContent
  <2>. QED
    BY <1>1, <2>2, <2>3, <2>4 DEF WriteContent
<1>6. Undisturbed' => InStep'
  BY <1>3, <1>5 DEF InStep, DoneMeansStored
<1>. QED
  BY <1>1, <1>3, <1>4, <1>6, ChunkInStep

LEMMA WrittenInStep ==
  ASSUME FdInv, Content, Written
  PROVE  Content'
<1>1. /\ job.at = "writing" /\ alive /\ wr = Out!Resting /\ img' = img /\ inode' = inode
      /\ src' = src /\ spos' = spos /\ job' = [AfterMove(job.put) EXCEPT !.at = "manual"]
  BY DEF Written, At, Still
<1>2. /\ job'.at = "manual" /\ job'.i = job.i /\ job'.chunk = job.chunk
      /\ job'.pos = job.pos + job.put /\ job'.intr = job.intr /\ job'.short = job.short
  BY <1>1, JobTyped DEF AfterMove, JobRec
<1>3. Copying /\ Copying' /\ Base' = Base /\ Base \in Nat
  BY <1>1, <1>2, Around DEF Copying, Base
<1>4. ASSUME Undisturbed'
      PROVE  Together(spos)'
  <2>1. WriteContent
    BY <1>1, <1>2, <1>4 DEF Undisturbed, Content, InStep
  <2>2. /\ job.put = rdres.ret /\ img = InputAt(Base, src, spos)
        /\ \E P \in Nat : P + rdres.ret = spos /\ job.pos = Base + P
    BY <1>1, <2>1 DEF WriteContent
  <2>3. PICK P \in Nat : P + job.put = spos /\ job.pos = Base + P
    BY <2>2
  <2>4. job.pos + job.put = Base + spos /\ spos \in Nat
    <3>1. job.put \in Nat
      BY JobTyped
    <3>. QED
      BY <1>3, <2>3, <3>1
  <2>. QED
    BY <1>1, <1>2, <1>3, <2>2, <2>4 DEF Together
<1>5. Undisturbed' => InStep'
  BY <1>2, <1>4 DEF InStep, DoneMeansStored
<1>. QED
  BY <1>1, <1>2, <1>3, <1>5, ChunkInStep

LEMMA CopiedInStep ==
  ASSUME FdInv, Content, Copied
  PROVE  Content'
<1>. DEFINE i == job.i + job.chunk \div BlkSz
            t == NBlocks * BlkSz
<1>1. /\ job.at = "copied" \/ (job.at = "manual" /\ job.left = 0)
      /\ img' = img /\ inode' = inode /\ src' = src /\ spos' = spos /\ alive' = alive
      /\ job' = [job EXCEPT !.at = "loop", !.i = i]
  BY DEF Copied, At, Still
<1>2. /\ Copying /\ job.i = 0 /\ job.chunk = t /\ src \in Source /\ inode.idata = <<>>
  BY <1>1 DEF Copying, Content, OneChunk
<1>3. i = NBlocks /\ NBlocks \in Nat /\ t \in Nat
  <2>1. job.chunk \div BlkSz = NBlocks /\ NBlocks \in Nat /\ t \in Nat
    BY <1>2, Around, BlocksFit
  <2>. QED
    BY <1>2, <2>1
<1>. HIDE DEF i
<1>4. job'.at = "loop" /\ job'.i = NBlocks /\ job'.intr = job.intr /\ job'.short = job.short
  BY <1>1, <1>3, JobTyped DEF JobRec
<1>5. NBlocks' = NBlocks /\ t' = t /\ Base' = Base
  BY <1>1 DEF NBlocks, Base
<1>6. OneChunk'
  BY <1>1, <1>2, <1>3, <1>4, <1>5 DEF OneChunk, Copying
<1>7. ASSUME Undisturbed'
      PROVE  img' = InputAt(Base', src', spos') /\ spos' \in {t', Len(src')}
  <2>1. Undisturbed
    BY <1>4, <1>7 DEF Undisturbed
  <2>2. Together(spos)
    BY <1>1, <2>1 DEF Content, InStep
  <2>3. CASE job.at = "copied"
    BY <1>1, <1>5, <2>1, <2>2, <2>3 DEF Content, InStep, Together
  <2>4. CASE job.at = "manual" /\ job.left = 0
    <3>1. job.pos + job.left = Base + job.chunk /\ Base \in Nat /\ job.pos = Base + spos
      BY <1>2, <2>2, Around DEF FdInv, Placed, ChunkInside, Together
    <3>2. spos = t
      <4>. HIDE DEF t
      <4>. QED
        BY <1>2, <1>3, <2>4, <3>1, Around
    <3>. QED
      BY <1>1, <1>5, <2>2, <3>2 DEF Together
  <2>. QED
    BY <1>1, <2>3, <2>4
<1>8. Undisturbed' => InStep'
  BY <1>4, <1>7 DEF InStep, DoneMeansStored
<1>. QED
  BY <1>6, <1>8 DEF Content

\* What the image holds, once it holds the first n cells of the input.
LEMMA StoredCells ==
  ASSUME NEW s \in Seq(Cell), NEW B \in Nat, NEW n \in Nat, n <= Len(s), NEW i \in 1..n
  PROVE  /\ B + i <= Len(InputAt(B, s, n))
         /\ InputAt(B, s, n)[B + i] = s[i]
<1>. DEFINE c == Cells(s, 0, n)
            g == Out!Put(Image, B, c)
<1>1. Image \in Seq(Cell) /\ Len(Image) \in Nat
  BY InputsAreSeqs
<1>2. c \in Seq(Cell) /\ Len(c) = n /\ \A k \in 1..n : c[k] = s[k]
  BY FirstCells
<1>3. InputAt(B, s, n) = g
  BY DEF InputAt
<1>. HIDE DEF c
<1>4. Wrote(Image, B, c, g)
  BY <1>1, <1>2, PutCells
<1>. HIDE DEF g
<1>5. /\ Len(g) = (IF Len(Image) >= B + n THEN Len(Image) ELSE B + n)
      /\ \A k \in 1..Len(g) :
           g[k] = IF k \in (B + 1)..(B + n) THEN c[k - B]
                  ELSE IF k <= Len(Image) THEN Image[k] ELSE ZERO
  BY <1>2, <1>4 DEF Wrote, PutLen, PutAt
<1>6. B + i \in 1..Len(g) /\ B + i \in (B + 1)..(B + n) /\ (B + i) - B = i
  BY <1>1, <1>5
<1>7. g[B + i] = c[i]
  BY <1>5, <1>6
<1>. QED
  BY <1>2, <1>3, <1>6, <1>7

LEMMA ReadTailInStep ==
  ASSUME FdInv, Content, ReadTail
  PROVE  Content'
<1>. DEFINE t == NBlocks * BlkSz
<1>1. /\ job.at = "loop" /\ job.i >= NBlocks /\ img' = img /\ src' = src /\ alive' = alive
      /\ src \in Source /\ inode.idata = <<>>
  BY DEF ReadTail, At, Still, Content, OneChunk
<1>2. CASE GoTo("failed") /\ UNCHANGED <<spos, inode>>
  BY <1>1, <1>2, FailsInStep DEF GoTo
<1>3. ASSUME GoTo("done"), inode'.addr = inode.addr, inode'.isize = inode.isize,
             Undisturbed /\ inode.isize < Word =>
               inode'.idata = Cells(src, inode.isize - TailSize, inode.isize)
      PROVE  Content'
  <2>1. job'.at = "done" /\ job'.intr = job.intr /\ job'.short = job.short
    BY <1>3, JobTyped DEF GoTo, JobRec
  <2>2. OneChunk'
    BY <1>1, <2>1 DEF OneChunk, Copying
  <2>3. t' = t /\ Base' = Base /\ TailSize' = TailSize
    BY <1>3 DEF NBlocks, Base, TailSize
  <2>4. ASSUME Undisturbed', inode'.isize < Word
        PROVE  /\ \A j \in 1..t' : j <= Len(src') => Base' + j <= Len(img') /\ img'[Base' + j] = src'[j]
               /\ inode'.idata = Cells(src', inode'.isize - TailSize', inode'.isize)
    <3>1. Undisturbed
      BY <2>1, <2>4 DEF Undisturbed
    <3>2. img = InputAt(Base, src, spos) /\ spos \in {t, Len(src)}
      BY <1>1, <3>1 DEF Content, InStep
    <3>3. t \in Nat /\ src \in Seq(Cell) /\ Len(src) \in Nat /\ spos \in Nat /\ spos <= Len(src)
      BY Around
    <3>4. ASSUME NEW j \in 1..t, j <= Len(src)
          PROVE  Base + j <= Len(img) /\ img[Base + j] = src[j]
      <4>1. Base \in Nat
        <5>1. NBlocks # 0
          <6>1. 0 * BlkSz = 0
            BY BlkSzAssumption
          <6>2. t # 0
            BY <3>4
          <6>. QED
            BY <6>1, <6>2
        <5>2. inode.addr \in Nat
          BY <1>1, <5>1 DEF FdInv, Placed, Addressed
        <5>. QED
          BY <5>2, Around, Blocks32
      <4>2. j \in 1..spos
        <5>. HIDE DEF t
        <5>. QED
          BY <3>2, <3>3, <3>4
      <4>. QED
        BY <3>2, <3>3, <4>1, <4>2, StoredCells
    <3>5. inode'.idata = Cells(src', inode'.isize - TailSize', inode'.isize)
      BY <1>1, <1>3, <2>3, <2>4, <3>1
    <3>. QED
      BY <1>1, <2>3, <3>4, <3>5
  <2>5. DoneMeansStored'
    BY <2>4, SlicesAreCells DEF DoneMeansStored, Undisturbed
  <2>6. InStep'
    BY <2>1, <2>5 DEF InStep
  <2>. QED
    BY <2>2, <2>6 DEF Content
<1>4. inode.isize \in Nat /\ TailSize \in Nat /\ NBlocks \in Nat /\ BlkSz \in Nat \ {0} /\ t \in Nat
      /\ spos \in Nat /\ Len(src) \in Nat /\ inode \in InodeRec
  BY Around, Blocks32, FileDataAssumption DEF InodeRec
<1>5. inode.isize < Word => inode.isize = t + TailSize
  BY <1>4, BlocksFit
<1>. HIDE DEF t
<1>6. CASE TailSize = 0 /\ GoTo("done") /\ UNCHANGED <<spos, inode>>
  <2>1. Cells(src, inode.isize, inode.isize) = <<>>
    <3>1. inode.isize \in Int /\ inode.isize + 1 > inode.isize
      BY <1>4
    <3>. QED
      BY <1>4, <3>1, Around, SubSeqEmpty DEF Cells
  <2>2. inode.isize - TailSize = inode.isize
    BY <1>4, <1>6
  <2>. QED
    BY <1>1, <1>3, <1>6, <2>1, <2>2
<1>7. CASE /\ TailSize > 0 /\ spos + TailSize <= Len(src)
           /\ inode' = [inode EXCEPT !.idata = Rest] /\ spos' = spos + TailSize
           /\ GoTo("done")
  <2>1. inode'.idata = Cells(src, spos, spos + TailSize)
    BY <1>4, <1>7, SlicesAreCells DEF Rest, InodeRec
  <2>2. inode'.addr = inode.addr /\ inode'.isize = inode.isize
    BY <1>4, <1>7 DEF InodeRec
  <2>3. ASSUME Undisturbed, inode.isize < Word
        PROVE  spos = inode.isize - TailSize /\ spos + TailSize = inode.isize
    <3>1. spos \in {t, Len(src)}
      BY <1>1, <2>3 DEF Content, InStep, t
    <3>2. spos = t
      BY <1>4, <1>7, <3>1
    <3>. QED
      BY <1>4, <1>5, <2>3, <3>2
  <2>. QED
    BY <1>3, <1>7, <2>1, <2>2, <2>3
<1>. QED
  BY <1>2, <1>6, <1>7 DEF ReadTail

LEMMA ContentKept ==
  ASSUME FdInv, Content, [WriteUncompressedFileFromFd]_fdvars
  PROVE  Content'
<1>1. CASE ReadFailed
  BY <1>1, FailsInStep DEF ReadFailed, ReadDone, GoTo, Still, At
<1>2. CASE WriteFailed
  BY <1>2, FailsInStep DEF WriteFailed, GoTo, Still, At
<1>3. CASE CopyFileRange \/ Sendfile
  BY <1>3, KernelCopyInStep
<1>4. CASE ReadSome
  BY <1>4, ReadSomeInStep
<1>5. CASE Reading
  BY <1>5, ReadingInStep
<1>6. CASE NothingRead
  BY <1>6, NothingReadInStep
<1>7. CASE WriteSome
  BY <1>7, WriteSomeInStep
<1>8. CASE Writing
  BY <1>8, WritingInStep
<1>9. CASE Written
  BY <1>9, WrittenInStep
<1>10. CASE Copied
  BY <1>10, CopiedInStep
<1>11. CASE Allocate
  BY <1>11, AllocateInStep
<1>12. CASE CopyChunk
  BY <1>12, CopyChunkInStep
<1>13. CASE ReadTail
  BY <1>13, ReadTailInStep
<1>14. CASE UNCHANGED fdvars
  BY <1>14 DEF fdvars, Content, OneChunk, InStep, Undisturbed, Copying, Together, Brought, Offers,
               ReadContent, WriteContent, DoneMeansStored, Wanted, Base, NBlocks, TailSize
<1>. QED
  BY <1>1, <1>2, <1>3, <1>4, <1>5, <1>6, <1>7, <1>8, <1>9, <1>10, <1>11, <1>12, <1>13, <1>14
     DEF WriteUncompressedFileFromFd, Xcopy

LEMMA AlwaysContent == FdSpec => [](FdInv /\ Content)
<1>1. FdInit => FdInv /\ Content
  <2>1. ASSUME FdInit PROVE Content
    BY <2>1 DEF FdInit, Content, OneChunk, InStep, Copying, DoneMeansStored
  <2>. QED
    BY <2>1, InitHolds
<1>2. (FdInv /\ Content) /\ [WriteUncompressedFileFromFd]_fdvars => (FdInv /\ Content)'
  BY NextKeeps, ContentKept
<1>. QED
  BY <1>1, <1>2, PTL DEF FdSpec
----------------------------------------------------------------------------
(***************************************************************************)
(* The theorems.                                                           *)
(***************************************************************************)

\* The locals of WriteUncompressedFileFromFd and ErofsIoXcopy keep their types, the
\* unsigned length never wraps, and what was moved and what is left make up the chunk,
\* whichever of the three ways of copying moved it.
THEOREM CopyTypes == FdSpec => []FdTypeOK
<1>1. FdInv => FdTypeOK
  BY JobTyped DEF FdInv, Typed, Placed, ChunkInside, FdTypeOK
<1>. QED
  BY <1>1, AlwaysFdInv, PTL

\* Whatever copy_file_range, sendfile and the loop of reading and writing move, together
\* and after any failure, short transfer or interrupted read, no cell of the image
\* outside the blocks that the file was given changes.
THEOREM NothingElseCopied == FdSpec => []CopyStaysInside
<1>1. FdInv => CopyStaysInside
  BY DEF FdInv
<1>. QED
  BY <1>1, AlwaysFdInv, PTL

\* When copy_file_range, sendfile and the loop of reading and writing hand over to each
\* other, the position in the input and the one in the image agree, and the image holds
\* the input up to there and nothing else, unless a read was interrupted or the kernel
\* wrote less than it was offered.
THEOREM HandsOver == FdSpec => []CopiesInStep
<1>1. FdInv /\ Content => CopiesInStep
  BY WithInputAt DEF Content, InStep, CopiesInStep, Together
<1>. QED
  BY <1>1, AlwaysContent, PTL

\* WriteUncompressedFileFromFd that says a file is written has put its blocks into the
\* image as far as the file still reaches, and its last cells into the inode, unless a
\* read was interrupted, the kernel wrote less than it was offered, or the size takes
\* more than 32 bits.
THEOREM SaidAndStored == FdSpec => []DoneMeansStored
<1>1. FdInv /\ Content => DoneMeansStored
  BY DEF Content, InStep, DoneMeansStored
<1>. QED
  BY <1>1, AlwaysContent, PTL
=============================================================================
