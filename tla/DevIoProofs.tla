---------------------------- MODULE DevIoProofs ----------------------------
(***************************************************************************)
(* Device I/O: what a call does to the file and what it hands to its       *)
(* caller, for every file, buffer and range, and however the kernel cuts   *)
(* the transfer up.                                                        *)
(***************************************************************************)
EXTENDS DevIo, Lemmas

\* The cell of f after the first i - 1 ones, as a read sees it.
At(f, i) == IF i <= Len(f) THEN f[i] ELSE ZERO

(***************************************************************************)
(* The operators on cells.                                                 *)
(***************************************************************************)

LEMMA SliceProps ==
  ASSUME NEW S, NEW s \in Seq(S), NEW a \in Nat, NEW b \in Nat, b <= Len(s)
  PROVE  /\ Slice(s, a, b) \in Seq(S)
         /\ Len(Slice(s, a, b)) = IF a <= b THEN b - a ELSE 0
         /\ \A k \in 1..(b - a) : Slice(s, a, b)[k] = s[a + k]
<1>1. IsCut(S, s, a, b)
  BY CutCells
<1>2. Cells(s, a, b) = Slice(s, a, b)
  BY DEF Cells, Slice
<1>. QED
  BY <1>1, <1>2, Zenon DEF IsCut

\* SliceProps in one word: the cells [a, b) of s.
Cut(S, s, a, b) ==
  /\ Slice(s, a, b) \in Seq(S)
  /\ Len(Slice(s, a, b)) = IF a <= b THEN b - a ELSE 0
  /\ \A k \in 1..(b - a) : Slice(s, a, b)[k] = s[a + k]

LEMMA SliceCuts ==
  ASSUME NEW S, NEW s \in Seq(S), NEW a \in Nat, NEW b \in Nat, b <= Len(s)
  PROVE  Cut(S, s, a, b)
  BY SliceProps, Zenon DEF Cut

LEMMA FirstOfSlice ==
  ASSUME NEW S, NEW s \in Seq(S), NEW n \in Nat, n <= Len(s)
  PROVE  /\ Slice(s, 0, n) \in Seq(S) /\ Len(Slice(s, 0, n)) = n
         /\ \A k \in 1..n : Slice(s, 0, n)[k] = s[k]
<1>. DEFINE a == Slice(s, 0, n)
<1>1. 0 \in Nat
  OBVIOUS
<1>2. /\ a \in Seq(S) /\ Len(a) = (IF 0 <= n THEN n - 0 ELSE 0)
      /\ \A k \in 1..(n - 0) : a[k] = s[0 + k]
  BY <1>1, SliceProps, Zenon
<1>. HIDE DEF a
<1>3. a \in Seq(S) /\ Len(a) = n /\ \A k \in 1..n : a[k] = s[k]
  BY <1>2
<1>. QED
  BY <1>3 DEF a

LEMMA ContentsProps ==
  ASSUME NEW f \in Seq(Datum), NEW pos \in Nat, NEW n \in Nat
  PROVE  /\ Contents(f, pos, n) \in Seq(Datum) /\ Len(Contents(f, pos, n)) = n
         /\ DOMAIN Contents(f, pos, n) = 1..n
         /\ \A i \in 1..n : Contents(f, pos, n)[i] = At(f, pos + i)
<1>. DEFINE c == Contents(f, pos, n)
<1>1. c = [i \in 1..n |-> At(f, pos + i)]
  BY DEF Contents, At
<1>2. ASSUME NEW i \in 1..n PROVE At(f, pos + i) \in Datum
  BY DevAssumption DEF At
<1>3. c \in [1..n -> Datum]
  BY <1>1, <1>2
<1>. HIDE DEF c
<1>4. c \in Seq(Datum) /\ Len(c) = n
  BY <1>3, SeqOfFcn
<1>5. DOMAIN c = 1..n /\ \A i \in 1..n : c[i] = At(f, pos + i)
  BY <1>1
<1>. QED
  BY <1>4, <1>5 DEF c

LEMMA ZerosProps ==
  ASSUME NEW n \in Nat
  PROVE  /\ Zeros(n) \in Seq(Datum) /\ Len(Zeros(n)) = n
         /\ \A i \in 1..n : Zeros(n)[i] = ZERO
<1>1. Zeros(n) \in [1..n -> Datum]
  BY DevAssumption DEF Zeros
<1>. QED
  BY <1>1, SeqOfFcn DEF Zeros

LEMMA NewBufProps ==
  /\ NewBuf \in Seq(Datum \cup {JUNKCELL}) /\ Len(NewBuf) = ReadCap
<1>1. NewBuf \in [1..ReadCap -> Datum \cup {JUNKCELL}]
  BY DEF NewBuf
<1>. QED
  BY <1>1, SeqOfFcn, DevAssumption

\* pwrite reaches as far as it says, and changes what it says.
Wrote(f, pos, d) ==
  /\ Put(f, pos, d) \in Seq(Datum)
  /\ Len(Put(f, pos, d)) = (IF Len(f) >= pos + Len(d) THEN Len(f) ELSE pos + Len(d))
  /\ \A i \in 1..Len(Put(f, pos, d)) :
       Put(f, pos, d)[i] = IF i \in (pos + 1)..(pos + Len(d)) THEN d[i - pos] ELSE At(f, i)

LEMMA PutProps ==
  ASSUME NEW f \in Seq(Datum), NEW pos \in Nat, NEW d \in Seq(Datum)
  PROVE  Wrote(f, pos, d)
<1>. DEFINE n == IF Len(f) >= pos + Len(d) THEN Len(f) ELSE pos + Len(d)
            e(i) == IF i \in (pos + 1)..(pos + Len(d)) THEN d[i - pos] ELSE At(f, i)
            p == Put(f, pos, d)
<1>1. p = [i \in 1..n |-> e(i)]
  BY DEF Put, At
<1>2. Len(f) \in Nat /\ Len(d) \in Nat /\ n \in Nat
  OBVIOUS
<1>3. ASSUME NEW i \in 1..n PROVE e(i) \in Datum
  <2>1. CASE i \in (pos + 1)..(pos + Len(d))
    <3>1. i - pos \in 1..Len(d)
      BY <1>2, <2>1
    <3>. QED
      BY <2>1, <3>1
  <2>2. CASE i \notin (pos + 1)..(pos + Len(d))
    BY <2>2, DevAssumption DEF At
  <2>. QED
    BY <2>1, <2>2
<1>. HIDE DEF n, e, p
<1>4. p \in [1..n -> Datum]
  BY <1>1, <1>3
<1>5. p \in Seq(Datum) /\ Len(p) = n
  BY <1>2, <1>4, SeqOfFcn
<1>6. \A i \in 1..n : p[i] = e(i)
  BY <1>1
<1>. QED
  BY <1>5, <1>6 DEF n, e, p, Wrote

\* What read and pread may take.
LEMMA AvailableProps ==
  ASSUME file \in Seq(Datum), NEW pos \in Nat, NEW room \in Nat
  PROVE  LET a == Available(pos, room) IN
         /\ a \in Seq(Datum) /\ Len(a) \in 0..room
         /\ \A k \in 1..Len(a) : pos + k <= Len(file) /\ a[k] = file[pos + k]
         /\ a = <<>> /\ room > 0 => Len(file) <= pos
<1>. DEFINE b == Least(Len(file), pos + room)
            a == Slice(file, pos, b)
<1>1. Len(file) \in Nat /\ b \in Nat /\ b <= Len(file) /\ b <= pos + room
      /\ (b < Len(file) => b = pos + room)
  BY DEF Least
<1>. HIDE DEF b
<1>2. /\ a \in Seq(Datum) /\ Len(a) = (IF pos <= b THEN b - pos ELSE 0)
      /\ \A k \in 1..(b - pos) : a[k] = file[pos + k]
  <2>1. Cut(Datum, file, pos, b)
    BY <1>1, SliceCuts
  <2>. QED
    BY <2>1 DEF Cut
<1>. HIDE DEF a
<1>3. Len(a) \in 0..room
  BY <1>1, <1>2
<1>4. ASSUME NEW k \in 1..Len(a) PROVE pos + k <= Len(file) /\ a[k] = file[pos + k]
  BY <1>1, <1>2, <1>3
<1>5. ASSUME a = <<>>, room > 0 PROVE Len(file) <= pos
  <2>1. Len(a) = 0
    BY <1>5
  <2>. QED
    BY <1>1, <1>2, <1>5, <2>1
<1>6. Available(pos, room) = a
  BY DEF Available, a, b
<1>. QED
  BY <1>2, <1>3, <1>4, <1>5, <1>6

LEMMA OverlayProps ==
  ASSUME NEW S, NEW buf \in Seq(S), NEW i \in Nat, NEW d \in Seq(S), i + Len(d) <= Len(buf)
  PROVE  /\ Overlay(buf, i, d) \in Seq(S) /\ Len(Overlay(buf, i, d)) = Len(buf)
         /\ \A k \in 1..Len(buf) :
              Overlay(buf, i, d)[k] = IF k \in (i + 1)..(i + Len(d)) THEN d[k - i] ELSE buf[k]
<1>1. IsPatch(S, buf, i, d)
  BY PatchCells
<1>2. Patch(buf, i, d) = Overlay(buf, i, d)
  BY DEF Patch, Overlay, Cells, Slice
<1>. QED
  BY <1>1, <1>2, Zenon DEF IsPatch
----------------------------------------------------------------------------
(***************************************************************************)
(* The inductive invariant: what is true half-way through a call.          *)
(***************************************************************************)

\* What a cell in the range of a write or zero-fill may hold once it was passed over.
Allowed(c) == IF c.fn = "fill" THEN {ZERO} ELSE Range(c.from)

\* OnlyTheRange, of the file f: only cells of the range, or behind the old end, differ
\* from the old ones.
Inside(f, old, off, len) ==
  /\ Len(f) >= Len(old)
  /\ Len(f) <= off + len \/ Len(f) = Len(old)
  /\ \A i \in 1..Len(f) : i <= off \/ i > off + len => f[i] = At(old, i)

WriteJob ==
  io.fn \in {"write", "fill"} =>
    /\ io.buf \in Seq(Datum) /\ io.done \in 0..io.want
    /\ io.fn = "fill" => io.rest <= io.len
    /\ io.fn = "write" => io.rest = 0
    /\ Inside(file, io.old, io.off, io.len)
    /\ io.pos > io.off => Len(file) >= io.pos
    /\ \A k \in 1..Len(io.buf) : io.buf[k] \in Allowed(io)
    /\ \A i \in (io.off + 1)..io.pos : file[i] \in Allowed(io)
ReadJob ==
  io.fn = "read" =>
    /\ io.want = io.len /\ io.done \in 0..Len(io.buf)
    /\ \A k \in 1..io.done : io.buf[k] = At(file, io.off + k)
IoReadJob ==
  io.fn = "ioread" =>
    /\ io.want = io.len /\ io.done <= io.want
    /\ io.done > 0 => io.want <= Len(io.buf)
    /\ ~io.intr => /\ io.done >= 0 /\ fpos = io.off + io.done
                   /\ \A k \in 1..io.done : io.buf[k] = At(file, io.off + k)

WriteDone ==
  res.fn \in {"write", "fill"} =>
    /\ Inside(file, res.old, res.off, res.len)
    /\ res.ret = 0 /\ res.len > 0 => /\ Len(file) >= res.off + res.len
                                     /\ \A i \in (res.off + 1)..(res.off + res.len) :
                                          file[i] \in Allowed(res)
ReadDone ==
  res.fn = "read" /\ ~res.err =>
    res.len <= Len(res.out) /\ \A k \in 1..res.len : res.out[k] = At(file, res.off + k)
IoReadDone ==
  res.fn = "ioread" /\ ~res.intr =>
    /\ res.ret \in 0..res.len /\ res.ret <= Len(res.out) /\ fpos = res.off + res.ret
    /\ \A k \in 1..res.ret : res.out[k] = At(file, res.off + k)

Jobs  == WriteJob /\ ReadJob /\ IoReadJob
Dones == WriteDone /\ ReadDone /\ IoReadDone
DevInv == DevTypeOK /\ (io = Resting \/ res = Resting) /\ Jobs /\ Dones

LEMMA PortionProps ==
  ASSUME NEW n \in Nat
  PROVE  Portion(n) \in 0..n /\ Portion(n) <= MaxBlk /\ (n <= MaxBlk => Portion(n) = n)
  BY DevAssumption DEF Portion

LEMMA BeginKeeps ==
  ASSUME DevInv, NEW fn \in {"write", "fill", "read", "ioread"}, NEW off \in Nat, NEW len \in Nat,
         NEW from \in Seq(Datum), NEW buf \in Seq(Datum \cup {JUNKCELL}), NEW want \in Nat,
         NEW rest \in Nat, Begin(fn, off, len, from, buf, want, rest),
         fn = "write" => want = len /\ buf = from /\ rest = 0,
         fn = "fill" => want = Portion(len) /\ rest = len /\ buf = Zeros(MaxBlk),
         fn = "read" => want = len /\ Len(buf) = ReadCap,
         fn = "ioread" => want = len /\ off = fpos
  PROVE  DevInv'
<1>1. /\ io' = [fn |-> fn, off |-> off, len |-> len, from |-> from, old |-> file,
                buf |-> buf, pos |-> off, want |-> want, done |-> 0, rest |-> rest,
                intr |-> FALSE]
      /\ res' = Resting /\ file' = file /\ fpos' = fpos /\ alive' = alive
      /\ file \in Seq(Datum) /\ fpos \in Nat /\ alive \in BOOLEAN
  BY DEF Begin, DevInv, DevTypeOK
<1>2. io' \in IoRec
  BY <1>1 DEF IoRec
<1>3. LocalsAgree'
  BY <1>1, ZerosProps, DevAssumption DEF LocalsAgree
<1>4. WriteJob'
  <2>1. ASSUME fn \in {"write", "fill"} PROVE buf \in Seq(Datum)
    BY <2>1, ZerosProps, DevAssumption
  <2>2. Inside(file, file, off, len)
    BY <1>1 DEF Inside, At
  <2>3. ASSUME fn \in {"write", "fill"}, NEW k \in 1..Len(buf) PROVE buf[k] \in Allowed(io')
    <3>1. CASE fn = "fill"
      BY <1>1, <2>3, <3>1, ZerosProps, DevAssumption DEF Allowed
    <3>2. CASE fn = "write"
      BY <1>1, <2>3, <3>2 DEF Allowed, Range
    <3>. QED
      BY <2>3, <3>1, <3>2
  <2>. QED
    BY <1>1, <2>1, <2>2, <2>3 DEF WriteJob, Allowed
<1>5. ReadJob' /\ IoReadJob'
  BY <1>1 DEF ReadJob, IoReadJob
<1>6. Dones'
  BY <1>1 DEF Dones, WriteDone, ReadDone, IoReadDone, Resting
<1>. QED
  BY <1>1, <1>2, <1>3, <1>4, <1>5, <1>6 DEF DevInv, DevTypeOK, Jobs

LEMMA RestingKeeps ==
  ASSUME DevInv, io' = Resting, res' = Resting, alive' \in BOOLEAN,
         file' = file, fpos' = fpos
  PROVE  DevInv'
  BY DEF DevInv, DevTypeOK, LocalsAgree, Jobs, Dones, WriteJob, ReadJob, IoReadJob,
         WriteDone, ReadDone, IoReadDone, Resting

LEMMA ReturnKeeps ==
  ASSUME DevInv, io \in IoRec, NEW ret \in Int, NEW err \in BOOLEAN,
         NEW out \in Seq(Datum \cup {JUNKCELL}), Return(ret, err, out),
         io.fn \in {"write", "fill"} /\ ret = 0 => io.pos = io.off + io.len,
         io.fn = "read" /\ ~err => /\ io.len <= Len(out)
                                   /\ \A k \in 1..io.len : out[k] = At(file, io.off + k),
         io.fn = "ioread" /\ ~io.intr =>
           /\ ret \in 0..io.len /\ ret <= Len(out) /\ fpos = io.off + ret
           /\ \A k \in 1..ret : out[k] = At(file, io.off + k)
  PROVE  DevInv'
<1>1. /\ io' = Resting
      /\ res' = [fn |-> io.fn, off |-> io.off, len |-> io.len, from |-> io.from,
                 old |-> io.old, intr |-> io.intr, ret |-> ret, err |-> err, out |-> out]
      /\ file' = file /\ fpos' = fpos /\ alive' = alive
      /\ file \in Seq(Datum) /\ fpos \in Nat /\ alive \in BOOLEAN
  BY DEF Return, DevInv, DevTypeOK
<1>2. res' \in ResRec
  BY <1>1 DEF IoRec, ResRec
<1>3. WriteDone'
  <2>1. SUFFICES ASSUME io.fn \in {"write", "fill"}
                 PROVE  /\ Inside(file, io.old, io.off, io.len)
                        /\ ret = 0 /\ io.len > 0 =>
                             /\ Len(file) >= io.off + io.len
                             /\ \A i \in (io.off + 1)..(io.off + io.len) : file[i] \in Allowed(io)
    BY <1>1 DEF WriteDone, Allowed
  <2>2. WriteJob
    BY DEF DevInv, Jobs
  <2>. QED
    BY <2>1, <2>2 DEF WriteJob, IoRec
<1>4. ReadDone' /\ IoReadDone'
  BY <1>1 DEF ReadDone, IoReadDone
<1>5. LocalsAgree' /\ Jobs'
  BY <1>1 DEF LocalsAgree, Jobs, WriteJob, ReadJob, IoReadJob, Resting
<1>. QED
  BY <1>1, <1>2, <1>3, <1>4, <1>5 DEF DevInv, DevTypeOK, Dones
----------------------------------------------------------------------------
(***************************************************************************)
(* The steps.                                                              *)
(***************************************************************************)

\* A pwrite inside the range changes only cells of the range.
LEMMA PutStaysInside ==
  ASSUME NEW f \in Seq(Datum), NEW old \in Seq(Datum), NEW off \in Nat, NEW len \in Nat,
         NEW pos \in Nat, NEW d \in Seq(Datum), off <= pos, pos + Len(d) <= off + len,
         Inside(f, old, off, len)
  PROVE  Inside(Put(f, pos, d), old, off, len)
<1>. DEFINE g == Put(f, pos, d)
<1>1. /\ g \in Seq(Datum)
      /\ Len(g) = (IF Len(f) >= pos + Len(d) THEN Len(f) ELSE pos + Len(d))
      /\ \A i \in 1..Len(g) : g[i] = IF i \in (pos + 1)..(pos + Len(d)) THEN d[i - pos] ELSE At(f, i)
  BY PutProps DEF Wrote
<1>. HIDE DEF g
<1>2. Len(f) \in Nat /\ Len(d) \in Nat /\ Len(old) \in Nat
  OBVIOUS
<1>3. Len(g) >= Len(old) /\ (Len(g) <= off + len \/ Len(g) = Len(old))
  BY <1>1, <1>2 DEF Inside
<1>4. ASSUME NEW i \in 1..Len(g), i <= off \/ i > off + len PROVE g[i] = At(old, i)
  <2>1. g[i] = At(f, i)
    BY <1>1, <1>2, <1>4
  <2>2. CASE i <= Len(f)
    <3>1. i \in 1..Len(f) /\ At(f, i) = f[i]
      BY <1>2, <2>2 DEF At
    <3>. QED
      BY <1>4, <2>1, <3>1 DEF Inside
  <2>3. CASE i > Len(f)
    BY <1>2, <2>1, <2>3 DEF At, Inside
  <2>. QED
    BY <1>2, <2>2, <2>3
<1>5. Inside(g, old, off, len)
  BY <1>3, <1>4 DEF Inside
<1>. QED
  BY <1>5 DEF g

LEMMA PwriteSomeKeeps ==
  ASSUME DevInv, PwriteSome
  PROVE  DevInv'
<1>0. /\ io \in IoRec /\ io.fn \in {"write", "fill"} /\ io.done < io.want /\ io.want <= Len(io.buf)
      /\ res' = res /\ fpos' = fpos /\ alive' = alive /\ res = Resting
      /\ file \in Seq(Datum) /\ fpos \in Nat /\ alive \in BOOLEAN
  BY DEF PwriteSome, PwriteGoesOn, During, DevInv, DevTypeOK, Resting
<1>1. /\ io.done \in Nat /\ io.want \in Nat /\ io.off \in Nat /\ io.len \in Nat /\ io.rest \in Nat
      /\ io.pos \in Nat /\ io.old \in Seq(Datum) /\ io.from \in Seq(Datum)
      /\ io.buf \in Seq(Datum) /\ Len(io.buf) \in Nat
      /\ io.fn = "fill" => io.rest <= io.len
      /\ io.fn = "write" => io.rest = 0
      /\ Inside(file, io.old, io.off, io.len)
      /\ io.pos > io.off => Len(file) >= io.pos
      /\ \A k \in 1..Len(io.buf) : io.buf[k] \in Allowed(io)
      /\ \A i \in (io.off + 1)..io.pos : file[i] \in Allowed(io)
      /\ LocalsAgree
  BY <1>0 DEF DevInv, DevTypeOK, Jobs, WriteJob, IoRec
<1>2. io.off <= io.pos /\ io.pos + (io.want - io.done) <= io.off + io.len
  <2>1. /\ io.off \in Nat /\ io.len \in Nat /\ io.pos \in Nat /\ io.rest \in Nat
        /\ io.done \in Nat /\ io.want \in Nat /\ io.done < io.want
    BY <1>0, <1>1
  <2>2. CASE io.fn = "write"
    <3>1. io.pos = io.off + io.done /\ io.want = io.len
      BY <1>1, <2>2 DEF LocalsAgree
    <3>. QED
      BY <2>1, <3>1
  <2>3. CASE io.fn = "fill"
    <3>1. io.pos = io.off + io.len - io.rest + io.done /\ io.want = Portion(io.rest)
      BY <1>1, <2>3 DEF LocalsAgree
    <3>2. io.want <= io.rest
      BY <2>1, <3>1, PortionProps
    <3>3. io.rest <= io.len
      BY <1>1, <2>3
    <3>. QED
      BY <2>1, <3>1, <3>2, <3>3
  <2>. QED
    BY <1>0, <2>2, <2>3
<1>3. /\ Chunk \in Seq(Datum) /\ Len(Chunk) = io.want - io.done
      /\ \A k \in 1..(io.want - io.done) : Chunk[k] = io.buf[io.done + k]
  <2>1. /\ io.buf \in Seq(Datum) /\ io.done \in Nat /\ io.want \in Nat
        /\ io.want <= Len(io.buf) /\ io.done <= io.want
    BY <1>0, <1>1
  <2>2. /\ Chunk \in Seq(Datum)
        /\ Len(Chunk) = (IF io.done <= io.want THEN io.want - io.done ELSE 0)
        /\ \A k \in 1..(io.want - io.done) : Chunk[k] = io.buf[io.done + k]
    <3>1. Cut(Datum, io.buf, io.done, io.want)
      BY <2>1, SliceCuts
    <3>. QED
      BY <3>1, Zenon DEF Cut, Chunk
  <2>. QED
    BY <2>1, <2>2
<1>4. PICK n \in 1..Len(Chunk) : /\ file' = Put(file, io.pos, Slice(Chunk, 0, n))
                                 /\ io' = AfterPwrite(n)
  BY DEF PwriteSome
<1>4a. /\ io.done \in Nat /\ io.want \in Nat /\ io.off \in Nat /\ io.len \in Nat
       /\ io.rest \in Nat /\ io.pos \in Nat /\ Len(io.buf) \in Nat /\ io.done < io.want
       /\ io.want <= Len(io.buf)
  BY <1>0, <1>1
<1>5. n \in Nat /\ n >= 1 /\ n <= io.want - io.done /\ n <= Len(io.buf)
  BY <1>3, <1>4, <1>4a
<1>. DEFINE d == Slice(Chunk, 0, n)
            c == Slice(io.buf, n, Len(io.buf))
<1>6. d \in Seq(Datum) /\ Len(d) = n /\ \A k \in 1..n : d[k] \in Allowed(io)
  <2>1. Chunk \in Seq(Datum) /\ n \in Nat /\ n <= Len(Chunk)
    BY <1>3, <1>5
  <2>2. d \in Seq(Datum) /\ Len(d) = n /\ \A k \in 1..n : d[k] = Chunk[k]
    BY <2>1, FirstOfSlice, Zenon
  <2>. HIDE DEF d
  <2>3. ASSUME NEW k \in 1..n PROVE Chunk[k] \in Allowed(io)
    <3>1. k \in 1..(io.want - io.done) /\ io.done + k \in 1..Len(io.buf)
      <4>1. /\ io.done \in Nat /\ io.want \in Nat /\ Len(io.buf) \in Nat
            /\ n <= io.want - io.done /\ io.want <= Len(io.buf)
        BY <1>4a, <1>5
      <4>. QED
        BY <1>5, <4>1
    <3>. QED
      BY <1>1, <1>3, <3>1
  <2>. QED
    BY <2>2, <2>3
<1>7. c \in Seq(Datum) /\ Len(c) = Len(io.buf) - n /\ \A k \in 1..Len(c) : c[k] \in Allowed(io)
  <2>0. Len(io.buf) \in Nat /\ Len(io.buf) <= Len(io.buf) /\ n \in Nat /\ io.buf \in Seq(Datum)
    BY <1>1, <1>5
  <2>1. /\ c \in Seq(Datum) /\ Len(c) = (IF n <= Len(io.buf) THEN Len(io.buf) - n ELSE 0)
        /\ \A k \in 1..(Len(io.buf) - n) : c[k] = io.buf[n + k]
    <3>1. Cut(Datum, io.buf, n, Len(io.buf))
      BY <2>0, SliceCuts
    <3>. QED
      BY <3>1, Zenon DEF Cut
  <2>. HIDE DEF c
  <2>2. Len(c) = Len(io.buf) - n
    BY <1>5, <2>1
  <2>3. ASSUME NEW k \in 1..Len(c) PROVE c[k] \in Allowed(io)
    <3>1. k \in 1..(Len(io.buf) - n) /\ n + k \in 1..Len(io.buf)
      BY <1>1, <1>5, <2>2
    <3>. QED
      BY <1>1, <2>1, <3>1
  <2>. QED
    BY <2>1, <2>2, <2>3
<1>8. /\ io' = [io EXCEPT !.buf = c, !.done = @ + n, !.pos = @ + n]
      /\ file' = Put(file, io.pos, d)
  BY <1>4 DEF AfterPwrite
<1>. HIDE DEF d, c
<1>9. /\ io' \in IoRec /\ io'.fn = io.fn /\ io'.off = io.off /\ io'.len = io.len
      /\ io'.old = io.old /\ io'.from = io.from /\ io'.want = io.want /\ io'.rest = io.rest
      /\ io'.buf = c /\ io'.done = io.done + n /\ io'.pos = io.pos + n
  <2>1. c \in Seq(Datum \cup {JUNKCELL})
    BY <1>7
  <2>2. io.done + n \in Int /\ io.pos + n \in Nat
    BY <1>1, <1>5
  <2>3. io \in IoRec
    BY <1>0
  <2>. QED
    BY <1>8, <2>1, <2>2, <2>3 DEF IoRec
<1>10. /\ file' \in Seq(Datum)
       /\ Len(file') = (IF Len(file) >= io.pos + n THEN Len(file) ELSE io.pos + n)
       /\ \A i \in 1..Len(file') :
            file'[i] = IF i \in (io.pos + 1)..(io.pos + n) THEN d[i - io.pos] ELSE At(file, i)
  <2>1. file \in Seq(Datum) /\ io.pos \in Nat /\ d \in Seq(Datum) /\ Len(d) = n
    BY <1>0, <1>1, <1>6
  <2>. QED
    <3>1. Wrote(file, io.pos, d)
      BY <2>1, PutProps
    <3>. QED
      BY <1>8, <2>1, <3>1 DEF Wrote
<1>11. Inside(file', io.old, io.off, io.len)
  <2>1. io.pos + Len(d) <= io.off + io.len
    BY <1>2, <1>4a, <1>5, <1>6
  <2>. QED
    BY <1>0, <1>1, <1>2, <1>6, <1>8, <2>1, PutStaysInside
<1>12. Len(file') >= io'.pos
  BY <1>0, <1>1, <1>5, <1>9, <1>10
<1>13. Allowed(io') = Allowed(io)
  BY <1>9 DEF Allowed
<1>14. ASSUME NEW i \in (io.off + 1)..(io.pos + n) PROVE file'[i] \in Allowed(io)
  <2>1. i \in 1..Len(file') /\ Len(file) \in Nat
    BY <1>0, <1>1, <1>5, <1>10, <1>14
  <2>2. CASE i > io.pos
    <3>1. i \in (io.pos + 1)..(io.pos + n) /\ i - io.pos \in 1..n
      <4>1. io.pos \in Nat /\ io.off \in Nat /\ n \in Nat
        BY <1>1, <1>5
      <4>. QED
        BY <2>2, <4>1
    <3>. QED
      BY <1>6, <1>10, <2>1, <3>1
  <2>3. CASE i <= io.pos
    <3>1. /\ i \notin (io.pos + 1)..(io.pos + n) /\ i \in (io.off + 1)..io.pos
          /\ i <= Len(file)
      BY <1>1, <1>5, <1>14, <2>1, <2>3
    <3>. QED
      BY <1>1, <1>10, <2>1, <3>1 DEF At
  <2>. QED
    BY <1>1, <2>2, <2>3
<1>15. WriteJob'
  <2>1. io'.done \in 0..io'.want
    BY <1>1, <1>5, <1>9
  <2>. QED
    BY <1>1, <1>7, <1>9, <1>11, <1>12, <1>13, <1>14, <2>1 DEF WriteJob
<1>16. LocalsAgree'
  <2>1. CASE io.fn = "write"
    <3>1. io.pos = io.off + io.done /\ io.want = io.len /\ Len(io.buf) + io.done = Len(io.from)
      BY <1>1, <2>1 DEF LocalsAgree
    <3>2. io'.pos = io'.off + io'.done /\ io'.want = io'.len /\ io'.fn = "write"
      BY <1>4a, <1>5, <1>9, <2>1, <3>1
    <3>3. Len(io'.buf) + io'.done = Len(io'.from)
      BY <1>4a, <1>5, <1>7, <1>9, <3>1
    <3>. QED
      BY <3>2, <3>3 DEF LocalsAgree
  <2>2. CASE io.fn = "fill"
    <3>1. /\ io.pos = io.off + io.len - io.rest + io.done /\ io.want = Portion(io.rest)
          /\ Len(io.buf) + io.done = MaxBlk
      BY <1>1, <2>2 DEF LocalsAgree
    <3>2. MaxBlk \in Nat /\ io'.fn = "fill" /\ io'.want = Portion(io'.rest)
      BY <1>9, <2>2, <3>1, DevAssumption
    <3>3. /\ io'.pos = io'.off + io'.len - io'.rest + io'.done
          /\ Len(io'.buf) + io'.done = MaxBlk
      <4>1. /\ io.done \in Nat /\ io.off \in Nat /\ io.len \in Nat /\ io.rest \in Nat
            /\ io.pos \in Nat /\ n \in Nat /\ Len(io.buf) \in Nat
            /\ Len(io'.buf) = Len(io.buf) - n
        BY <1>1, <1>5, <1>7, <1>9
      <4>2. /\ io'.pos = io.pos + n /\ io'.done = io.done + n /\ io'.off = io.off
            /\ io'.len = io.len /\ io'.rest = io.rest
        BY <1>9
      <4>3. io.pos + n = io.off + io.len - io.rest + (io.done + n)
        BY <3>1, <4>1
      <4>4. (Len(io.buf) - n) + (io.done + n) = MaxBlk
        BY <3>1, <4>1
      <4>. QED
        BY <4>1, <4>2, <4>3, <4>4
    <3>. QED
      BY <3>2, <3>3 DEF LocalsAgree
  <2>. QED
    BY <1>0, <2>1, <2>2
<1>17. ReadJob' /\ IoReadJob' /\ Dones'
  BY <1>0, <1>9 DEF ReadJob, IoReadJob, Dones, WriteDone, ReadDone, IoReadDone, Resting
<1>. QED
  BY <1>0, <1>9, <1>10, <1>15, <1>16, <1>17 DEF DevInv, DevTypeOK, Jobs

LEMMA InProgress ==
  ASSUME DevInv, io.fn \in {"write", "fill", "read", "ioread"}
  PROVE  /\ io \in IoRec /\ res = Resting /\ LocalsAgree
         /\ io.off \in Nat /\ io.len \in Nat /\ io.pos \in Nat /\ io.want \in Nat
         /\ io.done \in Int /\ io.rest \in Nat /\ io.intr \in BOOLEAN
         /\ io.old \in Seq(Datum) /\ io.from \in Seq(Datum)
         /\ io.buf \in Seq(Datum \cup {JUNKCELL}) /\ Len(io.buf) \in Nat
<1>1. io \in IoRec /\ res = Resting /\ LocalsAgree
  BY DEF DevInv, DevTypeOK, Resting
<1>2. io.buf \in Seq(Datum \cup {JUNKCELL})
  BY <1>1 DEF IoRec
<1>. QED
  BY <1>1, <1>2 DEF IoRec

\* ErofsIoFallocate begins its next portion.
LEMMA PwriteReturnsKeeps ==
  ASSUME DevInv, PwriteReturns
  PROVE  DevInv'
<1>0. io.fn \in {"write", "fill"}
  BY DEF PwriteReturns, During
<1>1. /\ io \in IoRec /\ res = Resting /\ LocalsAgree /\ WriteJob
      /\ io.off \in Nat /\ io.len \in Nat /\ io.pos \in Nat /\ io.want \in Nat
      /\ io.rest \in Nat /\ io.done \in 0..io.want /\ (io.fn = "fill" => io.rest <= io.len)
      /\ file \in Seq(Datum) /\ fpos \in Nat /\ alive \in BOOLEAN
  BY <1>0, InProgress DEF DevInv, DevTypeOK, Jobs, WriteJob
<1>2. CASE io.fn = "fill" /\ io.rest > MaxBlk
  <2>. DEFINE left == io.rest - io.done
  <2>1. io.want = MaxBlk /\ io.pos = io.off + io.len - io.rest + io.done /\ left \in Nat
    BY <1>1, <1>2, DevAssumption DEF LocalsAgree, Portion
  <2>2. /\ io' = [io EXCEPT !.buf = Zeros(MaxBlk), !.want = Portion(left), !.done = 0, !.rest = left]
        /\ file' = file /\ fpos' = fpos /\ res' = res /\ alive' = alive
    BY <1>2 DEF PwriteReturns
  <2>3. /\ Zeros(MaxBlk) \in Seq(Datum) /\ Len(Zeros(MaxBlk)) = MaxBlk /\ MaxBlk \in Nat
        /\ \A k \in 1..MaxBlk : Zeros(MaxBlk)[k] = ZERO
    BY ZerosProps, DevAssumption
  <2>4. Portion(left) \in Nat
    BY <2>1, PortionProps
  <2>. HIDE DEF left
  <2>5. /\ io' \in IoRec /\ io'.fn = "fill" /\ io'.off = io.off /\ io'.len = io.len
        /\ io'.old = io.old /\ io'.from = io.from /\ io'.pos = io.pos /\ io'.rest = left
        /\ io'.buf = Zeros(MaxBlk) /\ io'.done = 0 /\ io'.want = Portion(left)
    <3>1. Zeros(MaxBlk) \in Seq(Datum \cup {JUNKCELL})
      BY <2>3
    <3>2. io \in IoRec /\ 0 \in Int
      BY <1>1
    <3>. QED
      BY <1>2, <2>1, <2>2, <2>4, <3>1, <3>2 DEF IoRec
  <2>6. left <= io.len /\ io.pos = io.off + io.len - left + 0
    BY <1>1, <1>2, <2>1 DEF left
  <2>7. LocalsAgree'
    BY <2>3, <2>5, <2>6 DEF LocalsAgree
  <2>8. WriteJob'
    <3>1. Allowed(io') = {ZERO} /\ Allowed(io) = {ZERO}
      BY <1>2, <2>5 DEF Allowed
    <3>. QED
      BY <1>1, <1>2, <2>2, <2>3, <2>4, <2>5, <2>6, <3>1 DEF WriteJob
  <2>9. ReadJob' /\ IoReadJob' /\ Dones'
    BY <1>1, <2>2, <2>5 DEF ReadJob, IoReadJob, Dones, WriteDone, ReadDone, IoReadDone, Resting
  <2>. QED
    BY <1>1, <2>2, <2>5, <2>7, <2>8, <2>9 DEF DevInv, DevTypeOK, Jobs
<1>3. CASE ~(io.rest > MaxBlk)
  <2>1. Return(WriteVerdict, WriteVerdict # 0, <<>>)
    BY <1>3 DEF PwriteReturns
  <2>2. WriteVerdict \in Int /\ (WriteVerdict # 0) \in BOOLEAN
    BY DEF WriteVerdict, EIO
  <2>3. ASSUME WriteVerdict = 0 PROVE io.pos = io.off + io.len
    <3>1. io.done = io.want
      BY <2>3 DEF WriteVerdict, EIO
    <3>2. CASE io.fn = "write"
      BY <1>1, <3>1, <3>2 DEF LocalsAgree
    <3>3. CASE io.fn = "fill"
      <4>1. io.want = io.rest
        BY <1>1, <1>3, <3>3, DevAssumption DEF LocalsAgree, Portion
      <4>. QED
        BY <1>1, <3>1, <3>3, <4>1 DEF LocalsAgree
    <3>. QED
      BY <1>0, <3>2, <3>3
  <2>4. <<>> \in Seq(Datum \cup {JUNKCELL})
    OBVIOUS
  <2>. HIDE DEF WriteVerdict
  <2>. QED
    BY <1>0, <1>1, <2>1, <2>2, <2>3, <2>4, ReturnKeeps
<1>4. CASE io.fn = "write" /\ io.rest > MaxBlk
  <2>1. io.rest = 0
    BY <1>1, <1>4 DEF WriteJob
  <2>. QED
    BY <1>4, <2>1, DevAssumption
<1>. QED
  BY <1>0, <1>2, <1>3, <1>4

LEMMA PanicKeeps ==
  ASSUME DevInv, Panic
  PROVE  DevInv'
  BY RestingKeeps DEF Panic

\* What read or pread brought, and the buffer with it behind what was there.
Got(pos, room, n) == Slice(Available(pos, room), 0, n)
Extended(buf, done, pos, room, n) == Overlay(buf, done, Got(pos, room, n))
Fits(buf, done, pos, room, n) ==
  /\ n <= room /\ Len(Got(pos, room, n)) = n
  /\ Extended(buf, done, pos, room, n) \in Seq(Datum \cup {JUNKCELL})
  /\ Len(Extended(buf, done, pos, room, n)) = Len(buf)
  /\ \A k \in 1..done : Extended(buf, done, pos, room, n)[k] = buf[k]
  /\ \A k \in (done + 1)..(done + n) :
       Extended(buf, done, pos, room, n)[k] = At(file, pos + (k - done))

LEMMA OverlayExtends ==
  ASSUME file \in Seq(Datum), NEW done \in Nat, NEW room \in Nat, NEW pos \in Nat,
         NEW buf \in Seq(Datum \cup {JUNKCELL}), done + room <= Len(buf),
         NEW n \in 1..Len(Available(pos, room))
  PROVE  Fits(buf, done, pos, room, n)
<1>. DEFINE a == Available(pos, room)
            d == Got(pos, room, n)
            b == Overlay(buf, done, d)
<1>0. pos \in Nat /\ Len(buf) \in Nat /\ Len(file) \in Nat
  OBVIOUS
<1>1. /\ a \in Seq(Datum) /\ Len(a) \in 0..room
      /\ \A k \in 1..Len(a) : pos + k <= Len(file) /\ a[k] = file[pos + k]
  BY <1>0, AvailableProps
<1>2. n \in 1..Len(a)
  OBVIOUS
<1>2a. d = Slice(a, 0, n)
  BY DEF Got
<1>. HIDE DEF a
<1>3. n \in Nat /\ n >= 1 /\ n <= Len(a) /\ n <= room
  BY <1>1, <1>2
<1>4. d \in Seq(Datum) /\ Len(d) = n /\ \A k \in 1..n : d[k] = a[k]
  <2>1. a \in Seq(Datum) /\ n \in Nat /\ n <= Len(a)
    BY <1>1, <1>3
  <2>2. /\ Slice(a, 0, n) \in Seq(Datum) /\ Len(Slice(a, 0, n)) = n
        /\ \A k \in 1..n : Slice(a, 0, n)[k] = a[k]
    BY <2>1, FirstOfSlice, Zenon
  <2>. HIDE DEF d
  <2>. QED
    BY <1>2a, <2>2, Zenon
<1>. HIDE DEF d
<1>5. d \in Seq(Datum \cup {JUNKCELL}) /\ done + Len(d) <= Len(buf)
  BY <1>0, <1>3, <1>4
<1>6. /\ b \in Seq(Datum \cup {JUNKCELL}) /\ Len(b) = Len(buf)
      /\ \A k \in 1..Len(buf) :
           b[k] = IF k \in (done + 1)..(done + Len(d)) THEN d[k - done] ELSE buf[k]
  BY <1>5, OverlayProps
<1>. HIDE DEF b
<1>7. ASSUME NEW k \in 1..done PROVE b[k] = buf[k]
  <2>1. k \in 1..Len(buf) /\ k \notin (done + 1)..(done + Len(d))
    BY <1>0, <1>3, <1>4
  <2>. QED
    BY <1>6, <2>1
<1>7a. ASSUME NEW k \in (done + 1)..(done + n) PROVE b[k] = At(file, pos + (k - done))
  <2>1. k - done \in 1..n /\ k \in (done + 1)..(done + Len(d)) /\ k \in 1..Len(buf)
    BY <1>0, <1>3, <1>4
  <2>2. b[k] = a[k - done]
    BY <1>4, <1>6, <2>1
  <2>3. k - done \in 1..Len(a)
    BY <1>1, <1>3, <2>1
  <2>. QED
    BY <1>1, <2>2, <2>3 DEF At
<1>8. Extended(buf, done, pos, room, n) = b
  BY DEF Extended, b, d
<1>. QED
  BY <1>3, <1>4, <1>6, <1>7, <1>7a, <1>8 DEF d, Fits

LEMMA PreadSomeKeeps ==
  ASSUME DevInv, PreadSome
  PROVE  DevInv'
<1>0. io.fn = "read" /\ io.done < io.want
  BY DEF PreadSome, During
<1>1. /\ io \in IoRec /\ res = Resting /\ LocalsAgree
      /\ io.off \in Nat /\ io.len \in Nat /\ io.pos \in Nat /\ io.want \in Nat
      /\ io.done \in Int /\ Len(io.buf) \in Nat /\ io.buf \in Seq(Datum \cup {JUNKCELL})
      /\ file \in Seq(Datum) /\ fpos \in Nat /\ alive \in BOOLEAN
  BY <1>0, InProgress DEF DevInv, DevTypeOK
<1>2. /\ io.want = io.len /\ io.done \in 0..Len(io.buf)
      /\ \A k \in 1..io.done : io.buf[k] = At(file, io.off + k)
      /\ io.pos = io.off + io.done /\ Len(io.buf) = ReadCap
  BY <1>0, <1>1 DEF DevInv, Jobs, ReadJob, LocalsAgree
<1>. DEFINE room == Len(io.buf) - io.done
<1>3. PICK n \in 1..Len(Available(io.pos, room)) :
        io' = AfterPread(Slice(Available(io.pos, room), 0, n))
  BY DEF PreadSome
<1>. DEFINE d == Got(io.pos, room, n)
            b == Extended(io.buf, io.done, io.pos, room, n)
<1>4. room \in Nat /\ io.done \in Nat /\ io.done + room <= Len(io.buf)
  BY <1>1, <1>2
<1>. HIDE DEF room
<1>5. /\ n <= room /\ Len(d) = n
      /\ b \in Seq(Datum \cup {JUNKCELL}) /\ Len(b) = Len(io.buf)
      /\ \A k \in 1..(io.done + n) : b[k] = At(file, io.off + k)
  <2>1. file \in Seq(Datum) /\ io.off \in Nat /\ io.buf \in Seq(Datum \cup {JUNKCELL})
    BY <1>1
  <2>2. io.pos \in Nat /\ n \in 1..Len(Available(io.pos, room))
    BY <1>1, <1>3
  <2>3. /\ n <= room /\ Len(d) = n
        /\ b \in Seq(Datum \cup {JUNKCELL}) /\ Len(b) = Len(io.buf)
        /\ \A k \in 1..io.done : b[k] = io.buf[k]
        /\ \A k \in (io.done + 1)..(io.done + n) : b[k] = At(file, io.pos + (k - io.done))
    <3>1. Fits(io.buf, io.done, io.pos, room, n)
      BY <1>4, <2>1, <2>2, OverlayExtends
    <3>. QED
      BY <3>1 DEF Fits, b, d
  <2>. HIDE DEF b, d
  <2>4. ASSUME NEW k \in 1..(io.done + n) PROVE b[k] = At(file, io.off + k)
    <3>1. CASE k \in 1..io.done
      BY <1>2, <2>3, <3>1
    <3>2. CASE k \in (io.done + 1)..(io.done + n)
      <4>1. io.pos + (k - io.done) = io.off + k
        BY <1>2, <1>4, <2>1, <3>2
      <4>. QED
        BY <2>3, <3>2, <4>1
    <3>. QED
      BY <1>4, <3>1, <3>2
  <2>. QED
    BY <2>3, <2>4
<1>6. n \in Nat
  BY <1>3
<1>7. io' = [io EXCEPT !.buf = b, !.done = @ + n, !.pos = @ + n]
  BY <1>3, <1>5 DEF AfterPread, Got, Extended
<1>. HIDE DEF b, d
<1>8. /\ io' \in IoRec /\ io'.fn = "read" /\ io'.off = io.off /\ io'.len = io.len
      /\ io'.want = io.want /\ io'.buf = b /\ io'.done = io.done + n /\ io'.pos = io.pos + n
  <2>1. io.done + n \in Int /\ io.pos + n \in Nat
    BY <1>1, <1>6
  <2>2. io \in IoRec /\ b \in Seq(Datum \cup {JUNKCELL})
    BY <1>1, <1>5
  <2>. QED
    BY <1>0, <1>7, <2>1, <2>2 DEF IoRec
<1>9. file' = file /\ fpos' = fpos /\ res' = res /\ alive' = alive
  BY DEF PreadSome
<1>10. io.pos + n = io.off + (io.done + n) /\ io.done + n \in 0..Len(io.buf)
  <2>1. /\ io.off \in Nat /\ io.done \in Nat /\ Len(io.buf) \in Nat /\ io.pos = io.off + io.done
        /\ n <= Len(io.buf) - io.done
    BY <1>1, <1>2, <1>4, <1>5 DEF room
  <2>. QED
    BY <1>6, <2>1
<1>11. LocalsAgree' /\ ReadJob'
  BY <1>2, <1>5, <1>8, <1>9, <1>10 DEF LocalsAgree, ReadJob
<1>12. WriteJob' /\ IoReadJob' /\ Dones'
  BY <1>1, <1>8, <1>9 DEF WriteJob, IoReadJob, Dones, WriteDone, ReadDone, IoReadDone, Resting
<1>. QED
  BY <1>1, <1>8, <1>9, <1>11, <1>12 DEF DevInv, DevTypeOK, Jobs

\* What the file did not give is padded with zeros.
LEMMA PreadReturnsKeeps ==
  ASSUME DevInv, PreadReturns
  PROVE  DevInv'
<1>0. io.fn = "read"
  BY DEF PreadReturns, During
<1>1. /\ io \in IoRec
      /\ io.off \in Nat /\ io.len \in Nat /\ io.pos \in Nat /\ io.want \in Nat
      /\ io.done \in Int /\ Len(io.buf) \in Nat /\ io.buf \in Seq(Datum \cup {JUNKCELL})
      /\ file \in Seq(Datum) /\ Len(file) \in Nat
  BY <1>0, InProgress DEF DevInv, DevTypeOK
<1>2. /\ io.want = io.len /\ io.done \in 0..Len(io.buf)
      /\ \A k \in 1..io.done : io.buf[k] = At(file, io.off + k)
      /\ io.pos = io.off + io.done
  BY <1>0, <1>1, InProgress DEF DevInv, Jobs, ReadJob, LocalsAgree
<1>3. CASE io.want > Len(io.buf)
  BY <1>3, PanicKeeps DEF PreadReturns
<1>4. CASE ~(io.want > Len(io.buf))
  <2>1. Return(0, FALSE, Padded)
    BY <1>4 DEF PreadReturns
  <2>2. /\ Padded \in Seq(Datum \cup {JUNKCELL}) /\ io.len <= Len(Padded)
        /\ \A k \in 1..io.len : Padded[k] = At(file, io.off + k)
    <3>1. CASE io.done >= io.want
      <4>1. Padded = io.buf
        BY <1>1, <3>1 DEF Padded
      <4>2. \A k \in 1..io.len : k \in 1..io.done
        BY <1>1, <1>2, <3>1
      <4>. QED
        BY <1>1, <1>2, <1>4, <4>1, <4>2
    <3>2. CASE io.done < io.want
      <4>. DEFINE rest == io.want - io.done
                  z == Zeros(rest)
      <4>1. rest \in Nat /\ io.done \in Nat /\ io.done + rest = io.len /\ io.len <= Len(io.buf)
        BY <1>1, <1>2, <1>4, <3>2
      <4>. HIDE DEF rest
      <4>2. z \in Seq(Datum) /\ Len(z) = rest /\ \A k \in 1..rest : z[k] = ZERO
        BY <4>1, ZerosProps
      <4>3. Padded = Overlay(io.buf, io.done, z)
        BY <3>2 DEF Padded, rest
      <4>. HIDE DEF z
      <4>4. z \in Seq(Datum \cup {JUNKCELL}) /\ io.done + Len(z) <= Len(io.buf)
        BY <4>1, <4>2
      <4>5. /\ Padded \in Seq(Datum \cup {JUNKCELL}) /\ Len(Padded) = Len(io.buf)
            /\ \A k \in 1..Len(io.buf) :
                 Padded[k] = IF k \in (io.done + 1)..(io.done + Len(z)) THEN z[k - io.done]
                             ELSE io.buf[k]
        <5>1. io.buf \in Seq(Datum \cup {JUNKCELL}) /\ io.done \in Nat
          BY <1>1, <4>1
        <5>. QED
          BY <4>3, <4>4, <5>1, OverlayProps
      <4>6. Len(file) <= io.pos
        <5>1. Available(io.pos, Len(io.buf) - io.done) = <<>>
          BY <1>1, <3>2 DEF PreadReturns
        <5>2. Len(io.buf) - io.done \in Nat /\ Len(io.buf) - io.done > 0
          BY <1>1, <1>2, <1>4, <3>2
        <5>. QED
          BY <1>1, <5>1, <5>2, AvailableProps
      <4>7. ASSUME NEW k \in 1..io.len PROVE Padded[k] = At(file, io.off + k)
        <5>1. CASE k <= io.done
          <6>1. k \in 1..io.done /\ Padded[k] = io.buf[k]
            BY <1>1, <4>1, <4>5, <5>1
          <6>. QED
            BY <1>2, <6>1
        <5>2. CASE k > io.done
          <6>1. /\ k \in (io.done + 1)..(io.done + Len(z)) /\ k - io.done \in 1..rest
                /\ k \in 1..Len(io.buf)
            BY <1>1, <4>1, <4>2, <5>2
          <6>2. Padded[k] = ZERO
            BY <4>2, <4>5, <6>1
          <6>3. ~(io.off + k <= Len(file))
            BY <1>1, <1>2, <4>1, <4>6, <5>2
          <6>. QED
            BY <6>2, <6>3 DEF At
        <5>. QED
          BY <4>1, <5>1, <5>2
      <4>. QED
        BY <4>1, <4>5, <4>7
    <3>. QED
      BY <1>1, <3>1, <3>2
  <2>3. 0 \in Int /\ FALSE \in BOOLEAN /\ io.fn \notin {"write", "fill", "ioread"}
    BY <1>0
  <2>. QED
    BY <1>1, <2>1, <2>2, <2>3, ReturnKeeps
<1>. QED
  BY <1>3, <1>4

LEMMA PreadFailsKeeps ==
  ASSUME DevInv, PreadFails
  PROVE  DevInv'
<1>1. io.fn = "read" /\ Return(io.done, TRUE, io.buf)
  BY DEF PreadFails, During
<1>2. io \in IoRec /\ io.done \in Int /\ io.buf \in Seq(Datum \cup {JUNKCELL}) /\ TRUE \in BOOLEAN
  BY <1>1, InProgress
<1>3. io.fn \notin {"write", "fill", "ioread"}
  BY <1>1
<1>. QED
  BY <1>1, <1>2, <1>3, ReturnKeeps

\* read moves the descriptor on by what it brought.
LEMMA IoReadSomeKeeps ==
  ASSUME DevInv, IoReadSome
  PROVE  DevInv'
<1>0. io.fn = "ioread" /\ io.done < io.want /\ io.done >= 0 /\ io.want <= Len(io.buf)
  BY DEF IoReadSome, IoReadGoesOn, During
<1>1. /\ io \in IoRec /\ res = Resting /\ LocalsAgree
      /\ io.off \in Nat /\ io.len \in Nat /\ io.pos \in Nat /\ io.want \in Nat
      /\ io.done \in Int /\ Len(io.buf) \in Nat /\ io.buf \in Seq(Datum \cup {JUNKCELL})
      /\ file \in Seq(Datum) /\ fpos \in Nat /\ alive \in BOOLEAN
  BY <1>0, InProgress DEF DevInv, DevTypeOK
<1>2. /\ io.want = io.len
      /\ ~io.intr => /\ fpos = io.off + io.done
                     /\ \A k \in 1..io.done : io.buf[k] = At(file, io.off + k)
  BY <1>0, <1>1 DEF DevInv, Jobs, IoReadJob
<1>. DEFINE room == io.want - io.done
<1>3. PICK n \in 1..Len(Available(fpos, room)) :
        /\ io' = AfterRead(Slice(Available(fpos, room), 0, n))
        /\ fpos' = fpos + n
  BY DEF IoReadSome
<1>. DEFINE d == Got(fpos, room, n)
            b == Extended(io.buf, io.done, fpos, room, n)
<1>4. room \in Nat /\ io.done \in Nat /\ io.done + room <= Len(io.buf)
  BY <1>0, <1>1
<1>. HIDE DEF room
<1>5. /\ n <= room /\ Len(d) = n
      /\ b \in Seq(Datum \cup {JUNKCELL}) /\ Len(b) = Len(io.buf)
      /\ \A k \in 1..io.done : b[k] = io.buf[k]
      /\ \A k \in (io.done + 1)..(io.done + n) : b[k] = At(file, fpos + (k - io.done))
  <2>1. file \in Seq(Datum) /\ fpos \in Nat /\ io.buf \in Seq(Datum \cup {JUNKCELL})
    BY <1>1
  <2>2. n \in 1..Len(Available(fpos, room))
    BY <1>3
  <2>. QED
    <3>1. Fits(io.buf, io.done, fpos, room, n)
      BY <1>4, <2>1, <2>2, OverlayExtends
    <3>. QED
      BY <3>1 DEF Fits, b, d
<1>6. n \in Nat
  BY <1>3
<1>7. io' = [io EXCEPT !.buf = b, !.done = @ + n]
  BY <1>3, <1>5 DEF AfterRead, Got, Extended
<1>. HIDE DEF b, d
<1>8. /\ io' \in IoRec /\ io'.fn = "ioread" /\ io'.off = io.off /\ io'.len = io.len
      /\ io'.want = io.want /\ io'.buf = b /\ io'.done = io.done + n /\ io'.intr = io.intr
  <2>1. io.done + n \in Int
    BY <1>1, <1>6
  <2>2. io \in IoRec /\ b \in Seq(Datum \cup {JUNKCELL})
    BY <1>1, <1>5
  <2>. QED
    BY <1>0, <1>7, <2>1, <2>2 DEF IoRec
<1>9. file' = file /\ fpos' = fpos + n /\ fpos' \in Nat /\ res' = res /\ alive' = alive
  BY <1>1, <1>3, <1>6 DEF IoReadSome
<1>10. io.done + n <= io.want /\ io.done + n >= 0
  BY <1>1, <1>4, <1>5, <1>6 DEF room
<1>11. ASSUME ~io.intr
       PROVE  /\ fpos' = io.off + (io.done + n)
              /\ \A k \in 1..(io.done + n) : b[k] = At(file, io.off + k)
  <2>1. fpos' = io.off + (io.done + n)
    BY <1>1, <1>2, <1>6, <1>9, <1>11
  <2>2. ASSUME NEW k \in 1..(io.done + n) PROVE b[k] = At(file, io.off + k)
    <3>1. CASE k \in 1..io.done
      BY <1>2, <1>5, <1>11, <3>1
    <3>2. CASE k \in (io.done + 1)..(io.done + n)
      <4>1. fpos + (k - io.done) = io.off + k
        BY <1>1, <1>2, <1>4, <1>11, <3>2
      <4>. QED
        BY <1>5, <3>2, <4>1
    <3>. QED
      BY <1>4, <1>6, <3>1, <3>2
  <2>. QED
    BY <2>1, <2>2
<1>12. IoReadJob'
  BY <1>0, <1>2, <1>5, <1>8, <1>9, <1>10, <1>11 DEF IoReadJob, At
<1>13. LocalsAgree' /\ WriteJob' /\ ReadJob' /\ Dones'
  BY <1>1, <1>8, <1>9 DEF LocalsAgree, WriteJob, ReadJob, Dones, WriteDone, ReadDone,
                          IoReadDone, Resting
<1>. QED
  BY <1>1, <1>8, <1>9, <1>12, <1>13 DEF DevInv, DevTypeOK, Jobs

LEMMA IoReadInterruptedKeeps ==
  ASSUME DevInv, IoReadInterrupted
  PROVE  DevInv'
<1>0. io.fn = "ioread" /\ io.done < io.want /\ io.done >= 0 /\ io.want <= Len(io.buf)
  BY DEF IoReadInterrupted, IoReadGoesOn, During
<1>1. /\ io \in IoRec /\ res = Resting /\ io.done \in Int /\ io.want \in Nat
      /\ file \in Seq(Datum) /\ fpos \in Nat /\ alive \in BOOLEAN
  BY <1>0, InProgress DEF DevInv, DevTypeOK
<1>2. io.want = io.len
  BY <1>0, <1>1 DEF DevInv, Jobs, IoReadJob
<1>3. /\ io' = [io EXCEPT !.done = @ - 1, !.intr = TRUE]
      /\ file' = file /\ fpos' = fpos /\ res' = res /\ alive' = alive
  BY DEF IoReadInterrupted
<1>4. /\ io' \in IoRec /\ io'.fn = "ioread" /\ io'.want = io.want /\ io'.len = io.len
      /\ io'.buf = io.buf /\ io'.done = io.done - 1 /\ io'.intr = TRUE
  <2>1. io.done - 1 \in Int
    BY <1>1
  <2>. QED
    BY <1>0, <1>1, <1>3, <2>1 DEF IoRec
<1>5. IoReadJob'
  BY <1>0, <1>1, <1>2, <1>4 DEF IoReadJob
<1>6. LocalsAgree' /\ WriteJob' /\ ReadJob' /\ Dones'
  BY <1>1, <1>3, <1>4 DEF LocalsAgree, WriteJob, ReadJob, Dones, WriteDone, ReadDone,
                          IoReadDone, Resting
<1>. QED
  BY <1>1, <1>3, <1>4, <1>5, <1>6 DEF DevInv, DevTypeOK, Jobs

LEMMA IoReadEndsKeeps ==
  ASSUME DevInv, IoReadReturns \/ IoReadFails
  PROVE  DevInv'
<1>1. PICK err \in BOOLEAN : Return(io.done, err, io.buf)
  BY DEF IoReadReturns, IoReadFails
<1>2. io.fn = "ioread" /\ (io.done >= io.want \/ io.done >= 0)
  BY DEF IoReadReturns, IoReadFails, IoReadGoesOn, During
<1>3. /\ io \in IoRec /\ io.done \in Int /\ io.buf \in Seq(Datum \cup {JUNKCELL})
      /\ io.want \in Nat /\ Len(io.buf) \in Nat /\ res = Resting
  BY <1>2, InProgress
<1>4. /\ io.want = io.len /\ io.done <= io.want
      /\ io.done > 0 => io.want <= Len(io.buf)
      /\ ~io.intr => /\ fpos = io.off + io.done
                     /\ \A k \in 1..io.done : io.buf[k] = At(file, io.off + k)
  BY <1>2, <1>3 DEF DevInv, Jobs, IoReadJob
<1>5. io.done \in 0..io.len /\ io.done <= Len(io.buf)
  BY <1>2, <1>3, <1>4
<1>6. io.fn \notin {"write", "fill", "read"}
  BY <1>2
<1>. QED
  BY <1>1, <1>3, <1>4, <1>5, <1>6, ReturnKeeps

LEMMA ResizeKeeps ==
  ASSUME DevInv, NEW blocks \in Nat, DevResize(blocks)
  PROVE  DevInv'
<1>1. PICK ok \in BOOLEAN :
        /\ file' = IF ok THEN Resized(file, blocks * BlkSz) ELSE file
        /\ res' = [fn |-> "resize", off |-> 0, len |-> blocks * BlkSz, from |-> <<>>,
                   old |-> file, intr |-> FALSE, ret |-> IF ok THEN 0 ELSE -1,
                   err |-> ~ok, out |-> <<>>]
  BY DEF DevResize
<1>2. /\ io = Resting /\ io' = Resting /\ fpos' = fpos /\ alive' = alive
      /\ file \in Seq(Datum) /\ fpos \in Nat /\ alive \in BOOLEAN
  BY DEF DevResize, Rest, DevInv, DevTypeOK
<1>3. blocks * BlkSz \in Nat
  <2>1. BlkSz \in Nat
    BY BlkSzAssumption
  <2>. QED
    BY <2>1
<1>. DEFINE n == blocks * BlkSz
<1>. HIDE DEF n
<1>4. file' \in Seq(Datum)
  <2>1. n \in Nat /\ 0 \in Nat
    BY <1>3 DEF n
  <2>2. Contents(file, 0, n) \in Seq(Datum)
    BY <1>2, <2>1, ContentsProps
  <2>. QED
    BY <1>1, <1>2, <2>2 DEF Resized, n
<1>5. /\ res' \in ResRec /\ res'.fn = "resize"
  <2>1. <<>> \in Seq(Datum) /\ <<>> \in Seq(Datum \cup {JUNKCELL})
    OBVIOUS
  <2>2. n \in Nat /\ 0 \in Nat /\ (IF ok THEN 0 ELSE -1) \in Int /\ (~ok) \in BOOLEAN
    BY <1>3 DEF n
  <2>. QED
    BY <1>1, <1>2, <2>1, <2>2 DEF ResRec, n
<1>6. LocalsAgree' /\ Jobs' /\ Dones'
  BY <1>2, <1>5 DEF LocalsAgree, Jobs, Dones, WriteJob, ReadJob, IoReadJob, WriteDone,
                    ReadDone, IoReadDone, Resting
<1>. QED
  BY <1>2, <1>4, <1>5, <1>6 DEF DevInv, DevTypeOK

LEMMA CallKeeps ==
  ASSUME DevInv, DevCall
  PROVE  DevInv'
<1>0. /\ Offset \subseteq Nat /\ Length \subseteq Nat /\ Blocks \subseteq Nat
      /\ Buffer \subseteq Seq(Datum)
  BY DevAssumption
<1>1. CASE \E b \in Buffer, off \in Offset, len \in Length : len <= Len(b) /\ DevWrite(b, off, len)
  <2>1. PICK b \in Buffer, off \in Offset, len \in Length : Begin("write", off, len, b, b, len, 0)
    BY <1>1 DEF DevWrite
  <2>2. /\ off \in Nat /\ len \in Nat /\ 0 \in Nat /\ b \in Seq(Datum)
        /\ b \in Seq(Datum \cup {JUNKCELL})
    BY <1>0, <2>1
  <2>. QED
    BY <2>1, <2>2, BeginKeeps
<1>2. CASE \E off \in Offset, len \in Length : DevFillzero(off, len)
  <2>1. PICK off \in Offset, len \in Length :
          Begin("fill", off, len, <<>>, Zeros(MaxBlk), Portion(len), len)
    BY <1>2 DEF DevFillzero
  <2>2. off \in Nat /\ len \in Nat /\ MaxBlk \in Nat
    BY <1>0, <2>1, DevAssumption
  <2>3. Portion(len) \in Nat /\ Zeros(MaxBlk) \in Seq(Datum \cup {JUNKCELL}) /\ <<>> \in Seq(Datum)
    BY <2>2, PortionProps, ZerosProps
  <2>. QED
    BY <2>1, <2>2, <2>3, BeginKeeps
<1>3. CASE \E off \in Offset, len \in Length : BlkRead(off, len)
  <2>1. PICK off \in Offset, len \in Length : Begin("read", off, len, <<>>, NewBuf, len, 0)
    BY <1>3 DEF BlkRead
  <2>2. off \in Nat /\ len \in Nat /\ 0 \in Nat /\ <<>> \in Seq(Datum)
    BY <1>0, <2>1
  <2>. QED
    BY <2>1, <2>2, NewBufProps, BeginKeeps
<1>4. CASE \E len \in Length : IoRead(len)
  <2>1. PICK len \in Length : Begin("ioread", fpos, len, <<>>, NewBuf, len, 0)
    BY <1>4 DEF IoRead
  <2>2. fpos \in Nat /\ len \in Nat /\ 0 \in Nat /\ <<>> \in Seq(Datum)
    BY <1>0, <2>1 DEF DevInv, DevTypeOK
  <2>. QED
    BY <2>1, <2>2, NewBufProps, BeginKeeps
<1>5. CASE \E blocks \in Blocks : DevResize(blocks)
  BY <1>0, <1>5, ResizeKeeps
<1>. QED
  BY <1>1, <1>2, <1>3, <1>4, <1>5 DEF DevCall

LEMMA NextKeeps ==
  ASSUME DevInv, [DevNext]_dvars
  PROVE  DevInv'
<1>1. CASE DevCall
  BY <1>1, CallKeeps
<1>2. CASE DevStep
  <2>1. CASE PwriteSome
    BY <2>1, PwriteSomeKeeps
  <2>2. CASE PwriteReturns
    BY <2>2, PwriteReturnsKeeps
  <2>3. CASE PreadSome
    BY <2>3, PreadSomeKeeps
  <2>4. CASE PreadReturns
    BY <2>4, PreadReturnsKeeps
  <2>5. CASE PreadFails
    BY <2>5, PreadFailsKeeps
  <2>6. CASE IoReadSome
    BY <2>6, IoReadSomeKeeps
  <2>7. CASE IoReadInterrupted
    BY <2>7, IoReadInterruptedKeeps
  <2>8. CASE IoReadReturns \/ IoReadFails
    BY <2>8, IoReadEndsKeeps
  <2>9. CASE PwritePanics \/ IoReadPanics
    <3>1. Panic
      BY <2>9 DEF PwritePanics, IoReadPanics
    <3>. QED
      BY <3>1, PanicKeeps
  <2>. QED
    BY <1>2, <2>1, <2>2, <2>3, <2>4, <2>5, <2>6, <2>7, <2>8, <2>9 DEF DevStep
<1>3. CASE UNCHANGED dvars
  BY <1>3 DEF dvars, DevInv, DevTypeOK, LocalsAgree, Jobs, Dones, WriteJob, ReadJob, IoReadJob,
              WriteDone, ReadDone, IoReadDone, Inside, At, Allowed
<1>. QED
  BY <1>1, <1>2, <1>3 DEF DevNext

LEMMA InitHolds ==
  ASSUME DevInit
  PROVE  DevInv
<1>1. file \in Seq(Datum) /\ 0 \in Nat /\ TRUE \in BOOLEAN
  BY DevAssumption DEF DevInit
<1>. QED
  BY <1>1 DEF DevInit, DevInv, DevTypeOK, LocalsAgree, Jobs, Dones, WriteJob, ReadJob, IoReadJob,
              WriteDone, ReadDone, IoReadDone, Resting

LEMMA AlwaysDevInv == DevSpec => []DevInv
<1>1. DevInit => DevInv
  BY InitHolds
<1>2. DevInv /\ [DevNext]_dvars => DevInv'
  BY NextKeeps
<1>. QED
  BY <1>1, <1>2, PTL DEF DevSpec
----------------------------------------------------------------------------
(***************************************************************************)
(* The theorems.                                                           *)
(***************************************************************************)

\* The locals of the loops around pwrite, pread and read keep their types, and agree:
\* what a call has moved is what its buffer has lost or its position gained.
THEOREM DevTypes == DevSpec => []DevTypeOK
<1>1. DevInv => DevTypeOK
  BY DEF DevInv
<1>. QED
  BY <1>1, AlwaysDevInv, PTL

\* ErofsDevWrite and ErofsDevFillzero, finished, failed or half-way through, change no
\* cell outside the range they were asked to write and never shorten the file, however
\* few cells each pwrite takes.
THEOREM NothingOutside == DevSpec => []WritesStayInside
<1>1. DevInv => WritesStayInside
  <2>. SUFFICES ASSUME DevInv PROVE WritesStayInside
    OBVIOUS
  <2>1. ASSUME io.fn \in {"write", "fill"} PROVE OnlyTheRange(io)
    BY <2>1 DEF DevInv, Jobs, WriteJob, Inside, At, OnlyTheRange
  <2>2. ASSUME res.fn \in {"write", "fill"} PROVE OnlyTheRange(res)
    BY <2>2 DEF DevInv, Dones, WriteDone, Inside, At, OnlyTheRange
  <2>. QED
    BY <2>1, <2>2 DEF WritesStayInside
<1>. QED
  BY <1>1, AlwaysDevInv, PTL

LEMMA ContentsAreZeros ==
  ASSUME file \in Seq(Datum), NEW pos \in Nat, NEW n \in Nat,
         \A i \in (pos + 1)..(pos + n) : At(file, i) = ZERO
  PROVE  Contents(file, pos, n) = Zeros(n)
<1>1. ASSUME NEW i \in 1..n PROVE At(file, pos + i) = ZERO
  OBVIOUS
<1>. QED
  BY <1>1 DEF Contents, Zeros, At

LEMMA SliceIsContents ==
  ASSUME file \in Seq(Datum), NEW out \in Seq(Datum \cup {JUNKCELL}), NEW pos \in Nat,
         NEW n \in Nat, n <= Len(out), \A k \in 1..n : out[k] = At(file, pos + k)
  PROVE  Slice(out, 0, n) = Contents(file, pos, n)
<1>. DEFINE s == Slice(out, 0, n)
            c == Contents(file, pos, n)
<1>1. s \in Seq(Datum \cup {JUNKCELL}) /\ Len(s) = n /\ \A k \in 1..n : s[k] = out[k]
  BY FirstOfSlice
<1>2. c \in Seq(Datum) /\ Len(c) = n /\ \A k \in 1..n : c[k] = At(file, pos + k)
  BY ContentsProps
<1>. HIDE DEF s, c
<1>3. c \in Seq(Datum \cup {JUNKCELL})
  BY <1>2
<1>4. \A k \in 1..Len(s) : s[k] = c[k]
  BY <1>1, <1>2
<1>5. s = c
  BY <1>1, <1>2, <1>3, <1>4, SeqEqual
<1>. QED
  BY <1>5 DEF s, c

\* An ErofsDevFillzero that returned 0 has zeroed its whole range, and one in progress
\* all it has passed over, although every short write shifts the buffer of zeros and
\* the portions of ErofsIoFallocate count the rest again.
THEOREM FillsWithZeros == DevSpec => []FillZeroes
<1>1. DevInv => FillZeroes
  <2>. SUFFICES ASSUME DevInv PROVE FillZeroes
    OBVIOUS
  <2>0. file \in Seq(Datum) /\ Len(file) \in Nat
    BY DEF DevInv, DevTypeOK
  <2>1. ASSUME res.fn = "fill", res.ret = 0
        PROVE  /\ Contents(file, res.off, res.len) = Zeros(res.len)
               /\ res.len > 0 => Len(file) >= res.off + res.len
    <3>1. res.off \in Nat /\ res.len \in Nat
      BY <2>1 DEF DevInv, DevTypeOK, ResRec, Resting
    <3>2. res.len > 0 => /\ Len(file) >= res.off + res.len
                         /\ \A i \in (res.off + 1)..(res.off + res.len) : file[i] \in {ZERO}
      BY <2>1 DEF DevInv, Dones, WriteDone, Allowed
    <3>3. ASSUME NEW i \in (res.off + 1)..(res.off + res.len) PROVE At(file, i) = ZERO
      <4>1. res.len > 0 /\ i <= res.off + res.len /\ i \in Int
        BY <3>1, <3>3
      <4>2. file[i] = ZERO
        BY <3>2, <3>3, <4>1
      <4>. QED
        BY <4>2 DEF At
    <3>. QED
      BY <2>0, <3>1, <3>2, <3>3, ContentsAreZeros
  <2>2. ASSUME io.fn = "fill"
        PROVE  Contents(file, io.off, io.pos - io.off) = Zeros(io.pos - io.off)
    <3>1. /\ io.off \in Nat /\ io.len \in Nat /\ io.rest \in Nat /\ io.pos \in Nat
          /\ io.done \in Int /\ io.want \in Nat
      BY <2>2, InProgress
    <3>2. /\ io.rest <= io.len /\ io.done \in 0..io.want
          /\ \A i \in (io.off + 1)..io.pos : file[i] \in {ZERO}
      BY <2>2 DEF DevInv, Jobs, WriteJob, Allowed
    <3>3. io.pos = io.off + io.len - io.rest + io.done
      BY <2>2, InProgress DEF LocalsAgree
    <3>. DEFINE n == io.pos - io.off
    <3>4. n \in Nat /\ io.off + n = io.pos
      BY <3>1, <3>2, <3>3
    <3>. HIDE DEF n
    <3>5. ASSUME NEW i \in (io.off + 1)..(io.off + n) PROVE At(file, i) = ZERO
      BY <3>2, <3>4, <3>5 DEF At
    <3>6. Contents(file, io.off, n) = Zeros(n)
      BY <2>0, <3>1, <3>4, <3>5, ContentsAreZeros
    <3>. QED
      BY <3>6 DEF n
  <2>. QED
    BY <2>1, <2>2 DEF FillZeroes
<1>. QED
  BY <1>1, AlwaysDevInv, PTL

\* An ErofsDevWrite that returned 0 has put a cell of its caller's buffer into every
\* cell of the range (which cell is another matter: WriteFaithful does not hold).
THEOREM WritesCover == DevSpec => []WriteCovers
<1>1. DevInv => WriteCovers
  <2>. SUFFICES ASSUME DevInv, res.fn = "write", res.ret = 0
                PROVE  /\ res.len > 0 => Len(file) >= res.off + res.len
                       /\ \A i \in (res.off + 1)..(res.off + res.len) : file[i] \in Range(res.from)
    BY DEF WriteCovers
  <2>1. res.off \in Nat /\ res.len \in Nat
    BY DEF DevInv, DevTypeOK, ResRec, Resting
  <2>2. res.len > 0 => /\ Len(file) >= res.off + res.len
                       /\ \A i \in (res.off + 1)..(res.off + res.len) : file[i] \in Range(res.from)
    BY DEF DevInv, Dones, WriteDone, Allowed
  <2>3. ASSUME NEW i \in (res.off + 1)..(res.off + res.len) PROVE res.len > 0
    BY <2>1
  <2>. QED
    BY <2>2, <2>3
<1>. QED
  BY <1>1, AlwaysDevInv, PTL

\* A block read that ran to its end returns what the file holds there, with zeros where
\* the file has ended: short reads and retries lose and repeat nothing.
THEOREM ReadsAreFaithful == DevSpec => []ReadFaithful
<1>1. DevInv => ReadFaithful
  <2>. SUFFICES ASSUME DevInv, res.fn = "read", ~res.err
                PROVE  Slice(res.out, 0, res.len) = Contents(file, res.off, res.len)
    BY DEF ReadFaithful
  <2>1. /\ file \in Seq(Datum) /\ res.off \in Nat /\ res.len \in Nat
        /\ res.out \in Seq(Datum \cup {JUNKCELL})
    BY DEF DevInv, DevTypeOK, ResRec, Resting
  <2>2. res.len <= Len(res.out) /\ \A k \in 1..res.len : res.out[k] = At(file, res.off + k)
    BY DEF DevInv, Dones, ReadDone
  <2>. QED
    BY <2>1, <2>2, SliceIsContents
<1>. QED
  BY <1>1, AlwaysDevInv, PTL

\* An ErofsIoRead that no signal interrupted returns the next cells of the file and has
\* moved the descriptor past exactly them, whether it ended, fell short or failed.
THEOREM NextCellsRead == DevSpec => []IoReadFaithful
<1>1. DevInv => IoReadFaithful
  <2>. SUFFICES ASSUME DevInv, res.fn = "ioread", ~res.intr PROVE NextCells
    BY DEF IoReadFaithful
  <2>1. /\ file \in Seq(Datum) /\ res.off \in Nat /\ res.len \in Nat
        /\ res.out \in Seq(Datum \cup {JUNKCELL})
    BY DEF DevInv, DevTypeOK, ResRec, Resting
  <2>2. /\ res.ret \in 0..res.len /\ res.ret <= Len(res.out) /\ fpos = res.off + res.ret
        /\ \A k \in 1..res.ret : res.out[k] = At(file, res.off + k)
    BY DEF DevInv, Dones, IoReadDone
  <2>3. res.ret \in Nat
    BY <2>1, <2>2
  <2>4. Slice(res.out, 0, res.ret) = Contents(file, res.off, res.ret)
    BY <2>1, <2>2, <2>3, SliceIsContents
  <2>. QED
    BY <2>2, <2>4 DEF NextCells
<1>. QED
  BY <1>1, AlwaysDevInv, PTL
=============================================================================
