-------------------------- MODULE FragmentsProofs --------------------------
(***************************************************************************)
(* Packing files: whatever is packed, fails half-way, is begun again or    *)
(* collected, what is said to be packed is in the packed file, apart from  *)
(* everything else, and the table of items tells the truth about it, for   *)
(* every set of files, sizes, buffers and buckets.                         *)
(***************************************************************************)
EXTENDS Fragments, Lemmas

(***************************************************************************)
(* The inductive invariant.                                                *)
(***************************************************************************)

\* p holds the first n cells of f, a file of len cells, from position off on.
CellAt(f, len, k) == IF k <= len THEN <<f, k>> ELSE ZERO
Holds(p, f, len, off, n) ==
  /\ off + n <= Len(p)
  /\ \A k \in 1..n : p[off + k] = CellAt(f, len, k)

\* Where a call writes, and how much it has written.
Writing == call # Idle /\ call.at \in {"copy", "mapped", "insert"}
Moved == CASE call.at = "mapped" -> 0
           [] call.at = "copy"   -> ISize(call.f) - call.left
           [] OTHER              -> ISize(call.f)

\* The file in hand: where its descriptor is, what was written of it, and that
\* the checksum in GIctx is its own once it was taken.
FileInHand ==
  LET f == call.f IN
  /\ ~flushed /\ frag[f].st = "none"
  /\ call.at \in {"tail", "find", "pack"} => frag[f] = Unpacked
  /\ call.at \in {"tail", "pack", "mapped", "insert"} => fpos[f] = 0
  /\ call.at \in {"tail", "find"} => Dedupes(f)
  /\ call.at = "find" => ISize(f) > HashLen
  /\ Dedupes(f) /\ ISize(f) > HashLen =>
       /\ call.at # "tail" => crc = TailHash(f)
       /\ call.at \notin {"tail", "find"} => TailHash(f) = 0
WriteInHand ==
  LET f == call.f IN
  /\ Packs(f) /\ epi.fd # "none" /\ frag[f].size = ISize(f)
  /\ call.at = "copy" => call.left <= ISize(f) /\ fpos[f] = Moved
  /\ call.at \in {"mapped", "insert"} => ISize(f) > 0
  /\ cur = frag[f].off + Moved /\ Holds(packed, f, Length(f), frag[f].off, Moved)
CallOK == (call # Idle => FileInHand) /\ (Writing => WriteInHand)

\* A file that is said to be packed is in the packed file, before the place where
\* the descriptor stands and before what is being written.
PackedOK(f) ==
  /\ frag[f].size = ISize(f) /\ Holds(packed, f, Length(f), frag[f].off, ISize(f))
  /\ ~flushed => frag[f].off + ISize(f) <= cur
  /\ Writing => frag[f].off + ISize(f) <= frag[call.f].off
FilesOK ==
  /\ \A f \in File : Packed(f) => PackedOK(f)
  /\ \A f \in File : frag[f].st = "ok" => fpos[f] = 0

\* An item is that of a packed file.
ItemOf(f) == [pos |-> ItemPos(f), len |-> Min({ISize(f), InMem})]
ItemsOK ==
  \A f \in Listed :
    /\ Packed(f) /\ Packs(f) /\ ISize(f) > HashLen /\ epi.hash
    /\ item[f] = ItemOf(f)
    /\ Dedupes(f) => TailHash(f) = 0

FragInv == /\ FragTypeOK /\ opt \in Setting
           /\ CallOK /\ FilesOK /\ FragmentsApart /\ ItemsOK /\ BucketRing
----------------------------------------------------------------------------
(***************************************************************************)
(* Files, cells and the packed file.                                       *)
(***************************************************************************)

Datum == (File \X Nat) \cup {ZERO}

\* What the types and the setting say of a file, and of where things are.
LEMMA FileFacts ==
  ASSUME opt \in Setting, NEW f \in File
  PROVE  /\ ISize(f) \in Nat /\ Length(f) \in Nat /\ TailHash(f) \in Bucket
         /\ HashLen \in Nat \ {0} /\ InMem \in Nat \ {0} /\ BufSize \in Nat \ {0}
<1>1. opt \in Settings
  BY FragmentsAssumption
<1>2. opt.stat[f] \in [size : Nat, length : Nat, tail : Bucket, numbered : BOOLEAN]
  BY <1>1 DEF Settings
<1>. QED
  BY <1>2, FragmentsAssumption DEF ISize, Length, TailHash

LEMMA MinOfTwo ==
  ASSUME NEW a \in Nat, NEW b \in Nat
  PROVE  Min({a, b}) = IF a <= b THEN a ELSE b
<1>. DEFINE m == IF a <= b THEN a ELSE b
<1>1. m \in {a, b} /\ \A y \in {a, b} : m <= y
  OBVIOUS
<1>2. \A x \in {a, b} : (\A y \in {a, b} : x <= y) => x = m
  OBVIOUS
<1>. HIDE DEF m
<1>3. Min({a, b}) = m
  BY <1>1, <1>2 DEF Min
<1>. QED
  BY <1>3 DEF m

LEMMA MinOfThree ==
  ASSUME NEW a \in Int, NEW b \in Int, NEW c \in Int
  PROVE  /\ Min({a, b, c}) \in Int
         /\ Min({a, b, c}) <= a /\ Min({a, b, c}) <= b /\ Min({a, b, c}) <= c
<1>. DEFINE S == {a, b, c}
<1>1. \E x \in S : \A y \in S : x <= y
  <2>1. CASE a <= b /\ a <= c
    BY <2>1
  <2>2. CASE b <= a /\ b <= c
    BY <2>2
  <2>3. CASE c <= a /\ c <= b
    BY <2>3
  <2>. QED
    BY <2>1, <2>2, <2>3
<1>2. Min(S) \in S /\ \A y \in S : Min(S) <= y
  BY <1>1 DEF Min
<1>. QED
  BY <1>2

\* The cells of a mapping are those of the file, and zeros behind its end.
LEMMA MappedCells ==
  ASSUME opt \in Setting, NEW f \in File, NEW from \in Nat, NEW n \in Nat
  PROVE  /\ CellsOf(f, from, n) \in Seq(Datum) /\ Len(CellsOf(f, from, n)) = n
         /\ \A k \in 1..n : CellsOf(f, from, n)[k] = CellAt(f, Length(f), from + k)
<1>. DEFINE c == [k \in 1..n |-> CellAt(f, Length(f), from + k)]
<1>1. CellsOf(f, from, n) = c
  BY DEF CellsOf, CellAt
<1>2. ASSUME NEW k \in 1..n PROVE CellAt(f, Length(f), from + k) \in Datum
  BY DEF CellAt, Datum
<1>3. c \in [1..n -> Datum]
  BY <1>2
<1>. HIDE DEF c
<1>4. c \in Seq(Datum) /\ Len(c) = n
  BY <1>3, SeqOfFcn
<1>. QED
  BY <1>1, <1>4 DEF c

\* write(2) leaves what lies before the descriptor's position alone, puts the
\* cells behind it and moves past them.
LEMMA PutWrites ==
  ASSUME packed \in Seq(Datum), cur \in 0..Len(packed), NEW cells \in Seq(Datum), Put(cells)
  PROVE  /\ packed' \in Seq(Datum)
         /\ cur' = cur + Len(cells) /\ cur' \in 0..Len(packed') /\ cur <= cur'
         /\ Len(packed) <= Len(packed')
         /\ \A i \in 1..cur : packed'[i] = packed[i]
         /\ \A k \in 1..Len(cells) : packed'[cur + k] = cells[k]
<1>. DEFINE a  == SubSeq(packed, 1, cur)
            z  == SubSeq(packed, cur + Len(cells) + 1, Len(packed))
            ac == a \o cells
            L  == Len(packed)
            n  == Len(cells)
<1>1. L \in Nat /\ n \in Nat /\ cur \in Nat /\ cur <= L
  OBVIOUS
<1>2. /\ a \in Seq(Datum) /\ Len(a) = cur
      /\ \A i \in 1..cur : a[i] = packed[i]
  BY SubSeqProperties
<1>3. z \in Seq(Datum) /\ Len(z) = IF cur + n <= L THEN L - (cur + n) ELSE 0
  <2>1. cur + n + 1 \in Int /\ L \in Int
    BY <1>1
  <2>2. \A i \in (cur + n + 1)..L : packed[i] \in Datum
    BY <1>1
  <2>3. z \in Seq(Datum)
        /\ Len(z) = IF cur + n + 1 <= L THEN L - (cur + n + 1) + 1 ELSE 0
    BY <2>1, <2>2, SubSeqProperties, Zenon
  <2>. HIDE DEF n, L, z
  <2>. QED
    BY <1>1, <2>3
<1>. HIDE DEF a, z
<1>4. /\ ac \in Seq(Datum) /\ Len(ac) = cur + n
      /\ \A i \in 1..(cur + n) : ac[i] = IF i <= cur THEN a[i] ELSE cells[i - cur]
  BY <1>2, ConcatProperties
<1>. HIDE DEF ac
<1>5. /\ ac \o z \in Seq(Datum) /\ Len(ac \o z) = Len(ac) + Len(z)
      /\ \A i \in 1..(Len(ac) + Len(z)) :
           (ac \o z)[i] = IF i <= Len(ac) THEN ac[i] ELSE z[i - Len(ac)]
  BY <1>3, <1>4, ConcatProperties
<1>6. packed' = ac \o z /\ cur' = cur + n
  BY DEF Put, a, z, ac
<1>. HIDE DEF L, n
<1>7. L <= Len(packed') /\ cur + n <= Len(packed')
  BY <1>1, <1>3, <1>4, <1>5, <1>6
<1>8. ASSUME NEW i \in 1..cur PROVE packed'[i] = packed[i]
  <2>1. i \in 1..(Len(ac) + Len(z)) /\ i <= Len(ac) /\ i \in 1..(cur + n)
    BY <1>1, <1>3, <1>4
  <2>. QED
    BY <1>2, <1>4, <1>5, <1>6, <2>1
<1>9. ASSUME NEW k \in 1..n PROVE packed'[cur + k] = cells[k]
  <2>1. /\ cur + k \in 1..(Len(ac) + Len(z)) /\ cur + k <= Len(ac) /\ cur + k \in 1..(cur + n)
        /\ ~(cur + k <= cur) /\ (cur + k) - cur = k
    BY <1>1, <1>3, <1>4
  <2>. QED
    BY <1>4, <1>5, <1>6, <2>1
<1>. QED
  BY <1>1, <1>5, <1>6, <1>7, <1>8, <1>9 DEF L, n

\* What lies before the place that is written to stays what it was.
LEMMA StillHolds ==
  ASSUME NEW p \in Seq(Datum), NEW q \in Seq(Datum), Len(p) <= Len(q),
         NEW m \in Nat, \A i \in 1..m : q[i] = p[i],
         NEW f, NEW len, NEW off \in Nat, NEW n \in Nat, off + n <= m, Holds(p, f, len, off, n)
  PROVE  Holds(q, f, len, off, n)
<1>1. Len(p) \in Nat /\ Len(q) \in Nat
  OBVIOUS
<1>2. ASSUME NEW k \in 1..n PROVE q[off + k] = CellAt(f, len, k)
  <2>1. off + k \in 1..m
    OBVIOUS
  <2>. QED
    BY <2>1 DEF Holds
<1>. QED
  BY <1>1, <1>2 DEF Holds

\* What is written behind the first n cells of a file continues them.
LEMMA HoldsMore ==
  ASSUME NEW p \in Seq(Datum), NEW q \in Seq(Datum), Len(p) <= Len(q),
         NEW f, NEW len, NEW off \in Nat, NEW n \in Nat, NEW w \in Nat,
         Holds(p, f, len, off, n), off + n + w <= Len(q),
         \A i \in 1..(off + n) : q[i] = p[i],
         \A k \in 1..w : q[off + n + k] = CellAt(f, len, n + k)
  PROVE  Holds(q, f, len, off, n + w)
<1>1. ASSUME NEW k \in 1..(n + w) PROVE q[off + k] = CellAt(f, len, k)
  <2>1. CASE k <= n
    <3>1. off + k \in 1..(off + n) /\ k \in 1..n
      BY <2>1
    <3>. QED
      BY <3>1 DEF Holds
  <2>2. CASE k > n
    <3>1. k - n \in 1..w /\ off + n + (k - n) = off + k /\ n + (k - n) = k
      BY <2>2
    <3>. QED
      BY <3>1
  <2>. QED
    BY <2>1, <2>2
<1>. QED
  BY <1>1 DEF Holds

\* The table and its items are those of packed files, which nothing but the end of
\* a call that packs touches.
LEMMA TableStays ==
  ASSUME ItemsOK, BucketRing, heap' = heap, item' = item, epi'.hash = epi.hash, opt' = opt,
         \A g \in File : frag[g].st = "ok" => frag'[g] = frag[g]
  PROVE  ItemsOK' /\ BucketRing'
<1>1. Listed' = Listed
  BY DEF Listed
<1>2. BucketRing'
  BY <1>1 DEF BucketRing
<1>3. ItemsOK'
  BY <1>1 DEF ItemsOK, Listed, Packed, Packs, IsPacked, Dedupes, ISize, TailHash, ItemOf, ItemPos
<1>. QED
  BY <1>2, <1>3

CallRec == [at : {"tail", "find", "pack", "copy", "mapped", "insert"}, f : File, left : Nat]
FragRec == [off : Nat, size : Nat, st : {"none", "ok", "error"}]

LEMMA TypeFacts ==
  ASSUME FragTypeOK
  PROVE  /\ packed \in Seq(Datum) /\ Len(packed) \in Nat /\ cur \in Nat /\ cur <= Len(packed)
         /\ frag \in [File -> FragRec] /\ fpos \in [File -> Nat]
         /\ \A f \in File : /\ frag[f].off \in Nat /\ frag[f].size \in Nat
                            /\ frag[f].st \in {"none", "ok", "error"} /\ fpos[f] \in Nat
         /\ call.at # "idle" => call \in CallRec /\ call # Idle /\ call.f \in File /\ call.left \in Nat
<1>1. /\ packed \in Seq(Datum) /\ frag \in [File -> FragRec] /\ fpos \in [File -> Nat]
      /\ call \in {Idle} \cup CallRec /\ cur \in 0..Len(packed)
  BY DEF FragTypeOK, Datum, FragRec, CallRec
<1>2. Len(packed) \in Nat
  BY <1>1
<1>3. call.at # "idle" => call \in CallRec /\ call # Idle /\ call.f \in File /\ call.left \in Nat
  BY <1>1 DEF Idle, CallRec
<1>4. \A f \in File : /\ frag[f].off \in Nat /\ frag[f].size \in Nat
                      /\ frag[f].st \in {"none", "ok", "error"} /\ fpos[f] \in Nat
  BY <1>1 DEF FragRec
<1>. QED
  BY <1>1, <1>2, <1>3, <1>4

\* A packed file stays as promised when what lies before some place behind it does,
\* and when nothing else is being written before its end.
LEMMA PackedStays ==
  ASSUME FragTypeOK, FragTypeOK', opt \in Setting, opt' = opt,
         NEW g \in File, PackedOK(g), frag'[g] = frag[g], Len(packed) <= Len(packed'),
         NEW m \in Nat, frag[g].off + ISize(g) <= m, \A i \in 1..m : packed'[i] = packed[i],
         ~flushed' => frag[g].off + ISize(g) <= cur',
         Writing' => frag[g].off + ISize(g) <= frag'[call'.f].off
  PROVE  PackedOK(g)'
<1>1. /\ packed \in Seq(Datum) /\ packed' \in Seq(Datum) /\ frag[g].off \in Nat
      /\ ISize(g) \in Nat
  BY TypeFacts, FileFacts DEF FragTypeOK, Datum
<1>2. Holds(packed', g, Length(g), frag[g].off, ISize(g))
  BY <1>1, StillHolds DEF PackedOK
<1>3. ISize(g)' = ISize(g) /\ Length(g)' = Length(g)
  BY DEF ISize, Length
<1>. QED
  BY <1>2, <1>3 DEF PackedOK

\* The packed files are apart when none is new, and when a new one begins behind
\* all the others.
LEMMA ApartGrows ==
  ASSUME FragmentsApart, NEW f \in File,
         \A g \in File \ {f} : frag'[g] = frag[g],
         Packed(f)' => \A g \in File \ {f} :
                         Packed(g) => frag[g].off + frag[g].size <= frag'[f].off
  PROVE  FragmentsApart'
<1>1. \A g \in File \ {f} : Packed(g)' <=> Packed(g)
  BY DEF Packed
<1>. QED
  BY <1>1 DEF FragmentsApart, Packed

\* The call in hand goes on, or fails, or ends without a pack.
LEMMA FilesStay ==
  ASSUME FragInv, FragTypeOK', opt' = opt, ~flushed, flushed' = flushed,
         NEW f \in File, frag[f].st # "ok", ~(frag'[f].st = "ok" /\ frag'[f].size > 0),
         \A g \in File \ {f} : frag'[g] = frag[g] /\ fpos'[g] = fpos[g],
         frag'[f].st = "ok" => fpos'[f] = 0,
         Len(packed) <= Len(packed'), cur <= cur', \A i \in 1..cur : packed'[i] = packed[i],
         Writing' => /\ call'.f = f
                     /\ (Writing /\ call.f = f /\ frag'[f].off = frag[f].off) \/ cur <= frag'[f].off
  PROVE  FilesOK' /\ FragmentsApart'
<1>0. /\ FragTypeOK /\ opt \in Setting /\ cur \in Nat /\ cur' \in Nat
      /\ frag[f].off \in Nat /\ frag'[f].off \in Nat
      /\ \A g \in File : frag[g].off \in Nat /\ ISize(g) \in Nat
  <2>1. FragTypeOK /\ opt \in Setting
    BY DEF FragInv
  <2>2. cur' \in Nat /\ frag'[f].off \in Nat
    BY SMT DEF FragTypeOK
  <2>. QED
    BY <2>1, <2>2, TypeFacts, FileFacts
<1>1. ASSUME NEW g \in File, Packed(g)' PROVE PackedOK(g)'
  <2>1. g # f /\ Packed(g) /\ frag'[g] = frag[g]
    BY <1>1 DEF Packed
  <2>2. PackedOK(g)
    BY <2>1 DEF FragInv, FilesOK
  <2>3. frag[g].off + ISize(g) <= cur
    BY <2>2 DEF PackedOK
  <2>4. ASSUME Writing' PROVE frag[g].off + ISize(g) <= frag'[call'.f].off
    <3>1. CASE Writing /\ call.f = f /\ frag'[f].off = frag[f].off
      BY <2>2, <2>4, <3>1 DEF PackedOK
    <3>2. CASE cur <= frag'[f].off
      <4>1. frag'[call'.f].off = frag'[f].off
        BY <2>4
      <4>. QED
        BY <1>0, <2>3, <3>2, <4>1
    <3>. QED
      BY <2>4, <3>1, <3>2
  <2>5. frag[g].off + ISize(g) <= cur'
    BY <1>0, <2>3
  <2>. QED
    BY <1>0, <2>1, <2>2, <2>3, <2>4, <2>5, PackedStays
<1>2. ASSUME NEW g \in File, frag'[g].st = "ok" PROVE fpos'[g] = 0
  BY <1>2 DEF FragInv, FilesOK
<1>3. FragmentsApart'
  <2>1. FragmentsApart /\ ~Packed(f)'
    BY DEF FragInv, Packed
  <2>. QED
    BY <2>1, ApartGrows
<1>. QED
  BY <1>1, <1>2, <1>3 DEF FilesOK

\* The call in hand ends with a pack.
LEMMA FilesGrow ==
  ASSUME FragInv, FragTypeOK', opt' = opt, flushed' = flushed, Writing, call' = Idle,
         NEW f \in File, call.f = f, Moved = ISize(f), frag' = [frag EXCEPT ![f].st = "ok"],
         packed' = packed, cur' = cur, fpos'[f] = 0,
         \A g \in File \ {f} : fpos'[g] = fpos[g]
  PROVE  FilesOK' /\ FragmentsApart'
<1>0. /\ FragTypeOK /\ opt \in Setting /\ CallOK /\ FilesOK /\ FragmentsApart
      /\ WriteInHand /\ FileInHand /\ frag \in [File -> FragRec] /\ cur \in Nat
      /\ Len(packed) \in Nat
  BY TypeFacts DEF FragInv, CallOK, Writing
<1>1. /\ frag'[f].off = frag[f].off /\ frag'[f].size = frag[f].size
      /\ \A g \in File \ {f} : frag'[g] = frag[g]
  BY <1>0 DEF FragRec
<1>2. ~Writing'
  BY DEF Writing
<1>3. \A g \in File : Len(packed') = Len(packed) /\ ISize(g)' = ISize(g) /\ Length(g)' = Length(g)
  BY DEF ISize, Length
<1>4. ASSUME NEW g \in File \ {f}, Packed(g)'
      PROVE  /\ PackedOK(g)' /\ Packed(g)
             /\ frag[g].off + frag[g].size <= frag[f].off
  <2>1. Packed(g)
    BY <1>1, <1>4 DEF Packed
  <2>2. PackedOK(g)
    BY <1>0, <2>1 DEF FilesOK
  <2>. QED
    BY <1>1, <1>2, <1>3, <2>1, <2>2 DEF PackedOK, ISize, Length
<1>5. PackedOK(f)'
  <2>1. /\ frag[f].size = ISize(f) /\ cur = frag[f].off + ISize(f)
        /\ Holds(packed, f, Length(f), frag[f].off, ISize(f))
    BY <1>0 DEF WriteInHand
  <2>2. frag[f].off + ISize(f) <= cur
    BY <1>0, <2>1
  <2>. QED
    BY <1>1, <1>2, <2>1, <2>2 DEF PackedOK, ISize, Length
<1>6. FragmentsApart'
  <2>1. \A g \in File \ {f} : Packed(g) <=> Packed(g)'
    BY <1>1 DEF Packed
  <2>. QED
    BY <1>0, <1>1, <1>4, <2>1, ApartGrows
<1>7. ASSUME NEW g \in File, frag'[g].st = "ok" PROVE fpos'[g] = 0
  BY <1>0, <1>1, <1>7 DEF FilesOK
<1>8. ASSUME NEW g \in File, Packed(g)' PROVE PackedOK(g)'
  BY <1>4, <1>5, <1>8
<1>. QED
  BY <1>6, <1>7, <1>8 DEF FilesOK
----------------------------------------------------------------------------
(***************************************************************************)
(* The steps.                                                              *)
(***************************************************************************)

LEMMA DieKeeps ==
  ASSUME FragInv, Die
  PROVE  FragInv'
<1>1. /\ status' \in {"run", "panic"}
      /\ UNCHANGED <<epi, packed, cur, heap, item, fpos, frag, crc, call, flushed, opt>>
  BY DEF Die
<1>2. FragTypeOK'
  BY <1>1 DEF FragInv, FragTypeOK
<1>3. CallOK'
  BY <1>1 DEF FragInv, CallOK, FileInHand, WriteInHand, Writing, Moved, Packs, IsPacked,
              Dedupes, ISize, Length, TailHash
<1>4. FilesOK' /\ FragmentsApart'
  BY <1>1 DEF FragInv, FilesOK, PackedOK, Packed, Writing, ISize, Length, FragmentsApart
<1>5. ItemsOK' /\ BucketRing'
  BY <1>1, TableStays DEF FragInv
<1>. QED
  BY <1>1, <1>2, <1>3, <1>4, <1>5 DEF FragInv

\* InitPackedFile finds the table empty.
LEMMA InitPackedFileKeeps ==
  ASSUME FragInv, InitPackedFile
  PROVE  FragInv'
<1>1. /\ epi = NoEpi /\ call = Idle
      /\ epi' \in [fd : {"none", "temp", "stdin", "closed"}, hash : BOOLEAN]
      /\ epi'.hash = opt.hash
      /\ heap' = IF opt.hash THEN InitListHead(heap, 0) ELSE heap
      /\ UNCHANGED <<packed, cur, item, fpos, frag, crc, call, flushed, status, opt>>
  <2>1. opt.hash \in BOOLEAN
    BY FragmentsAssumption DEF FragInv, Settings
  <2>. QED
    BY <2>1 DEF InitPackedFile, Ready
<1>2. Listed = {} /\ Listed' = {}
  <2>1. Listed = {}
    BY <1>1 DEF FragInv, ItemsOK, NoEpi
  <2>. QED
    BY <1>1, <2>1 DEF Listed
<1>3. heap \in Heaps(Bucket \cup File) /\ 0 \in Bucket \cup File
  BY FragmentsAssumption DEF FragInv, FragTypeOK
<1>4. FragTypeOK'
  <2>1. heap' \in Heaps(Bucket \cup File)
    BY <1>1, <1>3, InitTyped
  <2>. QED
    BY <1>1, <2>1 DEF FragInv, FragTypeOK
<1>5. CallOK'
  BY <1>1 DEF CallOK, Writing
<1>6. FilesOK' /\ FragmentsApart'
  BY <1>1 DEF FragInv, FilesOK, PackedOK, Packed, Writing, ISize, Length, FragmentsApart
<1>7. ItemsOK'
  BY <1>2 DEF ItemsOK
<1>8. BucketRing'
  <2>1. epi'.hash => Linked(heap', {0})
    BY <1>1, <1>3, InitLinked
  <2>2. ASSUME NEW b \in Bucket \ {0} PROVE heap'[b] = Unlinked
    <3>1. heap[b] = Unlinked
      BY DEF FragInv, BucketRing
    <3>2. InitListHead(heap, 0)[b] = heap[b]
      BY <1>3 DEF InitListHead, Heaps
    <3>. QED
      BY <1>1, <3>1, <3>2
  <2>. QED
    BY <1>2, <2>1, <2>2 DEF BucketRing
<1>. QED
  BY <1>1, <1>4, <1>5, <1>6, <1>7, <1>8 DEF FragInv

LEMMA CollectKeeps ==
  ASSUME FragInv, Collect
  PROVE  FragInv'
<1>1. /\ epi.fd = "temp" /\ epi' = [epi EXCEPT !.fd = "closed"]
      /\ UNCHANGED <<packed, cur, heap, item, fpos, frag, crc, call, flushed, status, opt>>
  BY DEF Collect
<1>2. /\ epi' \in [fd : {"none", "temp", "stdin", "closed"}, hash : BOOLEAN]
      /\ epi'.fd = "closed" /\ epi'.hash = epi.hash
  BY <1>1 DEF FragInv, FragTypeOK
<1>3. FragTypeOK'
  BY <1>1, <1>2 DEF FragInv, FragTypeOK
<1>4. CallOK'
  BY <1>1, <1>2 DEF FragInv, CallOK, FileInHand, WriteInHand, Writing, Moved, Packs, IsPacked,
                    Dedupes, ISize, Length, TailHash
<1>5. FilesOK' /\ FragmentsApart'
  BY <1>1 DEF FragInv, FilesOK, PackedOK, Packed, Writing, ISize, Length, FragmentsApart
<1>6. ItemsOK' /\ BucketRing'
  BY <1>1, <1>2, TableStays DEF FragInv
<1>. QED
  BY <1>1, <1>3, <1>4, <1>5, <1>6 DEF FragInv

LEMMA FlushKeeps ==
  ASSUME FragInv, ErofsFlushPackedInode
  PROVE  FragInv'
<1>1. /\ call = Idle /\ flushed' = TRUE /\ cur' \in {0, cur}
      /\ UNCHANGED <<epi, packed, heap, item, fpos, frag, crc, call, status, opt>>
  BY DEF ErofsFlushPackedInode, Ready
<1>2. FragTypeOK'
  <2>1. cur' \in 0..Len(packed')
    BY <1>1, TypeFacts DEF FragInv
  <2>. QED
    BY <1>1, <2>1 DEF FragInv, FragTypeOK
<1>3. CallOK'
  BY <1>1 DEF CallOK, Writing
<1>4. FilesOK' /\ FragmentsApart'
  BY <1>1 DEF FragInv, FilesOK, PackedOK, Packed, Writing, ISize, Length, FragmentsApart
<1>5. ItemsOK' /\ BucketRing'
  BY <1>1, TableStays DEF FragInv
<1>. QED
  BY <1>1, <1>2, <1>3, <1>4, <1>5 DEF FragInv

LEMMA BeginKeeps ==
  ASSUME FragInv, NEW f \in File, Begin(f)
  PROVE  FragInv'
<1>1. CASE Die
  BY <1>1, DieKeeps
<1>2. CASE /\ ~flushed /\ frag[f].st # "ok" /\ call = Idle
           /\ fpos' = [fpos EXCEPT ![f] = 0] /\ frag' = [frag EXCEPT ![f] = Unpacked]
           /\ call' = [at |-> IF Dedupes(f) THEN "tail" ELSE "pack", f |-> f, left |-> 0]
           /\ UNCHANGED <<epi, flushed, status, opt, packed, cur, heap, item, crc>>
  <2>0. FragTypeOK /\ frag \in [File -> FragRec] /\ fpos \in [File -> Nat] /\ cur \in Nat
    BY TypeFacts DEF FragInv
  <2>1. /\ fpos' \in [File -> Nat] /\ fpos'[f] = 0
        /\ frag' \in [File -> FragRec] /\ frag'[f] = Unpacked
        /\ \A g \in File \ {f} : fpos'[g] = fpos[g] /\ frag'[g] = frag[g]
    BY <1>2, <2>0 DEF FragRec, Unpacked
  <2>2. /\ call' \in CallRec /\ call'.f = f /\ call' # Idle /\ call'.at \in {"tail", "pack"}
        /\ call'.at = "tail" <=> Dedupes(f)
    BY <1>2 DEF CallRec, Idle
  <2>3. FragTypeOK'
    BY <1>2, <2>0, <2>1, <2>2 DEF FragTypeOK, FragRec, CallRec
  <2>4. ~Writing'
    BY <2>2 DEF Writing
  <2>5. CallOK'
    BY <1>2, <2>1, <2>2, <2>4 DEF CallOK, FileInHand, Unpacked, Dedupes, IsPacked, ISize, TailHash
  <2>6. FilesOK' /\ FragmentsApart'
    <3>1. ~(frag'[f].st = "ok")
      BY <2>1 DEF Unpacked
    <3>. QED
      BY <1>2, <2>0, <2>1, <2>3, <2>4, <3>1, FilesStay
  <2>7. ItemsOK' /\ BucketRing'
    <3>1. \A g \in File : frag[g].st = "ok" => frag'[g] = frag[g]
      BY <1>2, <2>1
    <3>. QED
      BY <1>2, <3>1, TableStays DEF FragInv
  <2>. QED
    BY <1>2, <2>3, <2>5, <2>6, <2>7 DEF FragInv
<1>. QED
  BY <1>1, <1>2 DEF Begin, Ready, Same

\* A step of the call in hand that neither ends with a pack nor touches the table.
LEMMA StepKeeps ==
  ASSUME FragInv, FragTypeOK', CallOK', call # Idle,
         UNCHANGED <<epi, heap, item, flushed, opt>>,
         NEW f \in File, call.f = f, ~(frag'[f].st = "ok" /\ frag'[f].size > 0),
         \A g \in File \ {f} : frag'[g] = frag[g] /\ fpos'[g] = fpos[g],
         frag'[f].st = "ok" => fpos'[f] = 0,
         Len(packed) <= Len(packed'), cur <= cur', \A i \in 1..cur : packed'[i] = packed[i],
         Writing' => /\ call'.f = f
                     /\ (Writing /\ frag'[f].off = frag[f].off) \/ cur <= frag'[f].off
  PROVE  FragInv'
<1>1. ~flushed /\ frag[f].st = "none"
  BY DEF FragInv, CallOK, FileInHand
<1>2. FilesOK' /\ FragmentsApart'
  BY <1>1, FilesStay
<1>3. ItemsOK' /\ BucketRing'
  <2>1. \A g \in File : frag[g].st = "ok" => frag'[g] = frag[g]
    BY <1>1
  <2>. QED
    BY <2>1, TableStays DEF FragInv
<1>. QED
  BY <1>2, <1>3 DEF FragInv

\* The call fails, or returns without having packed.
LEMMA ReturnKeeps ==
  ASSUME FragInv, call # Idle, UNCHANGED <<epi, heap, item, flushed, opt>>,
         NEW f \in File, call.f = f,
         NEW st \in {"ok", "error"}, Return(f, st), st = "ok" => frag[f].size = 0 /\ fpos'[f] = 0,
         \A g \in File \ {f} : fpos'[g] = fpos[g],
         fpos' \in [File -> Nat], crc' \in Bucket, status' \in {"run", "panic"},
         packed' \in Seq(Datum), cur' \in 0..Len(packed'),
         Len(packed) <= Len(packed'), cur <= cur', \A i \in 1..cur : packed'[i] = packed[i]
  PROVE  FragInv'
<1>1. /\ call' = Idle /\ frag' = [frag EXCEPT ![f].st = st] /\ frag \in [File -> FragRec]
  <2>1. FragTypeOK
    BY DEF FragInv
  <2>2. frag \in [File -> FragRec]
    BY <2>1, TypeFacts
  <2>. QED
    BY <2>2 DEF Return
<1>2. /\ frag' \in [File -> FragRec] /\ frag'[f].st = st /\ frag'[f].size = frag[f].size
      /\ \A g \in File \ {f} : frag'[g] = frag[g]
  <2>1. frag[f] \in FragRec /\ st \in {"none", "ok", "error"}
    BY <1>1
  <2>2. [frag[f] EXCEPT !.st = st] \in FragRec
    BY <2>1 DEF FragRec
  <2>3. frag' = [frag EXCEPT ![f] = [frag[f] EXCEPT !.st = st]]
    BY <1>1
  <2>4. frag' \in [File -> FragRec] /\ frag'[f] = [frag[f] EXCEPT !.st = st]
        /\ \A g \in File \ {f} : frag'[g] = frag[g]
    BY <1>1, <2>2, <2>3
  <2>. QED
    BY <2>1, <2>4 DEF FragRec
<1>3. ~Writing' /\ CallOK'
  BY <1>1 DEF CallOK, Writing
<1>4. FragTypeOK'
  BY <1>1, <1>2 DEF FragInv, FragTypeOK, FragRec, Datum
<1>5. ~(frag'[f].st = "ok" /\ frag'[f].size > 0)
  BY <1>2
<1>. QED
  BY <1>2, <1>3, <1>4, <1>5, StepKeeps

\* The call goes on to another place, with the same file and nothing written.
LEMMA Onward ==
  ASSUME FragInv, call # Idle, NEW at \in {"pack", "find"}, GoTo(at),
         call.at \in {"tail", "find"},
         UNCHANGED <<epi, heap, item, flushed, opt, packed, cur, frag>>,
         NEW f \in File, call.f = f,
         fpos' \in [File -> Nat], \A g \in File \ {f} : fpos'[g] = fpos[g],
         crc' \in Bucket, status' \in {"run", "panic"},
         at = "pack" => fpos'[f] = 0,
         ISize(f) > HashLen => crc' = TailHash(f) /\ (at = "pack" => TailHash(f) = 0),
         at = "find" => ISize(f) > HashLen
  PROVE  FragInv'
<1>1. /\ call \in CallRec /\ call' = [call EXCEPT !.at = at]
      /\ FragTypeOK /\ packed \in Seq(Datum) /\ Len(packed) \in Nat /\ cur \in 0..Len(packed)
      /\ cur \in Nat
  BY TypeFacts DEF GoTo, FragInv, FragTypeOK, Datum
<1>2. call' \in CallRec /\ call'.f = f /\ call'.at = at /\ call' # Idle
  BY <1>1 DEF CallRec, Idle
<1>3. FragTypeOK'
  BY <1>1, <1>2 DEF FragTypeOK, CallRec
<1>4. ~Writing'
  BY <1>2 DEF Writing
<1>5. /\ ~flushed /\ frag[f].st = "none" /\ frag[f] = Unpacked /\ Dedupes(f)
  BY DEF FragInv, CallOK, FileInHand
<1>6. CallOK'
  BY <1>2, <1>4, <1>5 DEF CallOK, FileInHand, Dedupes, IsPacked, ISize, TailHash
<1>7. ~(frag'[f].st = "ok" /\ frag'[f].size > 0) /\ frag'[f].st # "ok"
  BY <1>5
<1>. QED
  BY <1>1, <1>3, <1>4, <1>6, <1>7, StepKeeps

LEMMA ReadTailKeeps ==
  ASSUME FragInv, NEW f \in File, ReadTail(f)
  PROVE  FragInv'
<1>1. /\ call \in CallRec /\ call # Idle /\ call.f = f /\ call.at = "tail" /\ FragTypeOK
      /\ status = "run" /\ crc \in Bucket /\ fpos \in [File -> Nat]
      /\ packed \in Seq(Datum) /\ cur \in 0..Len(packed)
      /\ UNCHANGED <<epi, packed, cur, heap, item, flushed, opt>>
      /\ fpos[f] = 0
  <2>1. call.f = f /\ call.at = "tail" /\ FragTypeOK /\ status = "run" /\ fpos[f] = 0
    <3>1. call.f = f /\ call.at = "tail" /\ status = "run" /\ call # Idle
      BY DEF ReadTail, At, Idle
    <3>. QED
      BY <3>1 DEF FragInv, CallOK, FileInHand
  <2>. QED
    BY <2>1, TypeFacts DEF ReadTail, FragTypeOK, Datum
<1>2. /\ ISize(f) \in Nat /\ TailHash(f) \in Bucket /\ HashLen \in Nat \ {0}
  BY FileFacts DEF FragInv
<1>3. CASE ISize(f) <= HashLen /\ GoTo("pack") /\ UNCHANGED <<fpos, frag, crc, status>>
  BY <1>1, <1>2, <1>3, Onward
<1>4. CASE /\ ISize(f) > HashLen /\ fpos' = [fpos EXCEPT ![f] = ISize(f)]
           /\ crc' = TailHash(f) /\ GoTo("find") /\ UNCHANGED <<frag, status>>
  <2>1. fpos' \in [File -> Nat] /\ \A g \in File \ {f} : fpos'[g] = fpos[g]
    BY <1>1, <1>2, <1>4
  <2>. QED
    BY <1>1, <1>2, <1>4, <2>1, Onward
<1>5. CASE status' = "panic" /\ UNCHANGED <<fpos, frag, crc, call>>
  BY <1>1, <1>5, DieKeeps DEF Die
<1>6. CASE /\ ISize(f) > HashLen /\ fpos' = [fpos EXCEPT ![f] = ISize(f) - HashLen]
           /\ Fail(f) /\ UNCHANGED <<crc, status>>
  <2>1. ISize(f) - HashLen \in Nat
    BY <1>2, <1>6
  <2>2. fpos' \in [File -> Nat] /\ \A g \in File \ {f} : fpos'[g] = fpos[g]
    BY <1>1, <1>6, <2>1
  <2>3. Return(f, "error") /\ Len(packed) <= Len(packed') /\ cur <= cur'
    BY <1>1, <1>6 DEF Fail
  <2>. QED
    BY <1>1, <1>6, <2>2, <2>3, ReturnKeeps
<1>. QED
  BY <1>3, <1>4, <1>5, <1>6 DEF ReadTail

\* Nothing is found but in the first bucket: where the search ends well, the file's
\* own checksum is that of the first bucket.
LEMMA FindKeeps ==
  ASSUME FragInv, NEW f \in File, ZErofsFragmentsDedupeFind(f)
  PROVE  FragInv'
<1>1. /\ call \in CallRec /\ call # Idle /\ call.f = f /\ call.at = "find" /\ FragTypeOK
      /\ status = "run" /\ crc \in Bucket /\ fpos \in [File -> Nat]
      /\ packed \in Seq(Datum) /\ cur \in 0..Len(packed) /\ Len(packed) \in Nat
      /\ ISize(f) > HashLen /\ crc = TailHash(f)
  <2>1. call.f = f /\ call.at = "find" /\ status = "run" /\ call # Idle
    BY DEF ZErofsFragmentsDedupeFind, At, Idle
  <2>2. ISize(f) > HashLen /\ crc = TailHash(f) /\ FragTypeOK
    BY <2>1 DEF FragInv, CallOK, FileInHand
  <2>. QED
    BY <2>1, <2>2, TypeFacts DEF FragTypeOK, Datum
<1>2. CASE Die
  BY <1>2, DieKeeps
<1>3. CASE /\ heap[crc].next # NIL /\ fpos' = [fpos EXCEPT ![f] = RewoundTo(f)]
           /\ GoTo("pack") /\ UNCHANGED frag
           /\ Same /\ UNCHANGED <<packed, cur, heap, item, crc>>
  <2>1. /\ fpos' \in [File -> Nat] /\ fpos'[f] = 0
        /\ \A g \in File \ {f} : fpos'[g] = fpos[g]
    BY <1>1, <1>3 DEF RewoundTo
  <2>2. TailHash(f) = 0
    BY <1>1, <1>3 DEF FragInv, BucketRing, Unlinked
  <2>. QED
    BY <1>1, <1>3, <2>1, <2>2, Onward DEF Same
<1>4. CASE /\ Fail(f) /\ UNCHANGED fpos
           /\ Same /\ UNCHANGED <<packed, cur, heap, item, crc>>
  <2>1. Return(f, "error") /\ Len(packed) <= Len(packed') /\ cur <= cur'
    BY <1>1, <1>4 DEF Fail
  <2>. QED
    BY <1>1, <1>4, <2>1, ReturnKeeps DEF Same
<1>. QED
  BY <1>2, <1>3, <1>4 DEF ZErofsFragmentsDedupeFind

\* A pack begins where the packed file's descriptor stands, behind everything that
\* was packed.
LEMMA PackStartKeeps ==
  ASSUME FragInv, NEW f \in File, PackStart(f)
  PROVE  FragInv'
<1>1. /\ call \in CallRec /\ call # Idle /\ call.f = f /\ call.at = "pack" /\ FragTypeOK
      /\ status = "run" /\ crc \in Bucket /\ fpos \in [File -> Nat] /\ frag \in [File -> FragRec]
      /\ packed \in Seq(Datum) /\ cur \in 0..Len(packed) /\ Len(packed) \in Nat /\ cur \in Nat
      /\ frag[f] = Unpacked /\ fpos[f] = 0 /\ ~flushed
      /\ (Dedupes(f) /\ ISize(f) > HashLen => crc = TailHash(f) /\ TailHash(f) = 0)
      /\ ISize(f) \in Nat
  <2>0. At("pack") /\ call.f = f
    BY DEF PackStart
  <2>1. call.f = f /\ call.at = "pack" /\ status = "run" /\ call # Idle
    BY <2>0 DEF At, Idle
  <2>2. /\ FragTypeOK /\ frag[f] = Unpacked /\ fpos[f] = 0 /\ ~flushed
        /\ (Dedupes(f) /\ ISize(f) > HashLen => crc = TailHash(f) /\ TailHash(f) = 0)
    BY <2>1 DEF FragInv, CallOK, FileInHand
  <2>. QED
    BY <2>1, <2>2, TypeFacts, FileFacts DEF FragInv, FragTypeOK, Datum
<1>2. CASE Die
  BY <1>2, DieKeeps
<1>3. CASE /\ Return(f, "ok") \/ Fail(f)
           /\ Same /\ UNCHANGED <<packed, cur, heap, item, fpos, crc>>
  <2>1. /\ Return(f, "ok") \/ Return(f, "error")
        /\ Len(packed) <= Len(packed') /\ cur <= cur' /\ frag[f].size = 0
    BY <1>1, <1>3 DEF Fail, Unpacked
  <2>. QED
    BY <1>1, <1>3, <2>1, ReturnKeeps DEF Same
<1>4. ASSUME Packs(f), epi.fd = "temp",
             frag' = [frag EXCEPT ![f].off = Start, ![f].size = ISize(f)],
             NEW how \in IF ISize(f) = 0 THEN {"copy"} ELSE {"copy", "mapped"},
             call' = [call EXCEPT !.at = how, !.left = ISize(f)],
             Same, UNCHANGED <<packed, cur, heap, item, fpos, crc>>
      PROVE  FragInv'
  <2>0. how \in {"copy", "mapped"} /\ (how = "mapped" => ISize(f) > 0)
    BY <1>1, <1>4
  <2>1. /\ call' \in CallRec /\ call'.f = f /\ call'.at = how /\ call'.left = ISize(f)
        /\ call' # Idle
    <3>1. call' = [call EXCEPT !.at = how, !.left = ISize(f)]
      BY <1>4
    <3>. QED
      BY <1>1, <2>0, <3>1 DEF CallRec, Idle
  <2>2. /\ frag' \in [File -> FragRec]
        /\ frag'[f].off = cur /\ frag'[f].size = ISize(f) /\ frag'[f].st = "none"
        /\ \A g \in File \ {f} : frag'[g] = frag[g]
    <3>1. frag' = [frag EXCEPT ![f].off = cur, ![f].size = ISize(f)] /\ frag[f].st = "none"
      BY <1>1, <1>4 DEF Start, Unpacked
    <3>. QED
      BY <1>1, <3>1 DEF FragRec
  <2>3. FragTypeOK'
    <3>1. UNCHANGED <<epi, packed, cur, heap, item, fpos, crc, flushed, status>>
      BY <1>4 DEF Same
    <3>. QED
      BY <1>1, <2>1, <2>2, <3>1 DEF FragTypeOK, FragRec, CallRec
  <2>4. CallOK'
    <3>1. Moved' = 0 /\ opt' = opt /\ packed' = packed
      BY <1>1, <1>4, <2>1 DEF Moved, ISize, Same
    <3>a. fpos' = fpos /\ crc' = crc /\ flushed' = flushed /\ epi' = epi /\ cur' = cur
      BY <1>4 DEF Same
    <3>2. FileInHand'
      BY <1>1, <2>0, <2>1, <2>2, <3>1, <3>a DEF FileInHand, Dedupes, IsPacked, ISize, TailHash
    <3>3. Holds(packed, f, Length(f), cur, 0)
      BY <1>1 DEF Holds
    <3>4. WriteInHand'
      <4>1. Packs(f)' /\ epi'.fd # "none"
        BY <1>4, <3>1, <3>a DEF Packs, IsPacked
      <4>2. ISize(f)' = ISize(f) /\ Length(f)' = Length(f)
        BY <3>1 DEF ISize, Length
      <4>3. frag'[f].size = ISize(f) /\ frag'[f].off = cur /\ cur = cur + 0
        BY <1>1, <2>2
      <4>4. call'.at = "copy" => call'.left <= ISize(f)' /\ fpos'[f] = Moved'
        BY <1>1, <2>1, <3>1, <3>a, <4>2
      <4>5. call'.at \in {"mapped", "insert"} => ISize(f)' > 0
        BY <2>0, <2>1, <4>2
      <4>. QED
        BY <2>1, <3>1, <3>3, <3>a, <4>1, <4>2, <4>3, <4>4, <4>5 DEF WriteInHand
    <3>. QED
      BY <3>2, <3>4 DEF CallOK
  <2>5. UNCHANGED <<epi, packed, cur, heap, item, flushed, opt, fpos>>
    BY <1>4 DEF Same
  <2>6. ~(frag'[f].st = "ok" /\ frag'[f].size > 0) /\ frag'[f].st # "ok" /\ cur <= frag'[f].off
    BY <1>1, <2>2
  <2>. QED
    BY <1>1, <2>1, <2>2, <2>3, <2>4, <2>5, <2>6, StepKeeps
<1>. QED
  BY <1>2, <1>3, <1>4 DEF PackStart

\* What is known of a call that writes.
LEMMA WriteFacts ==
  ASSUME FragInv, Writing, NEW f \in File, call.f = f
  PROVE  /\ FragTypeOK /\ opt \in Setting /\ call \in CallRec /\ call # Idle
         /\ call.left \in Nat /\ ISize(f) \in Nat /\ Length(f) \in Nat /\ Moved \in Nat
         /\ FileInHand /\ WriteInHand
         /\ packed \in Seq(Datum) /\ Len(packed) \in Nat /\ cur \in 0..Len(packed) /\ cur \in Nat
         /\ frag \in [File -> FragRec] /\ frag[f].off \in Nat /\ fpos \in [File -> Nat]
         /\ crc \in Bucket /\ status \in {"run", "panic"}
<1>1. /\ FragTypeOK /\ opt \in Setting /\ call # Idle /\ FileInHand /\ WriteInHand
      /\ call.at \in {"copy", "mapped", "insert"}
  BY DEF FragInv, CallOK, Writing
<1>2. /\ call \in CallRec /\ call.left \in Nat /\ ISize(f) \in Nat /\ Length(f) \in Nat
      /\ packed \in Seq(Datum) /\ Len(packed) \in Nat /\ cur \in Nat /\ cur <= Len(packed)
      /\ frag \in [File -> FragRec] /\ frag[f].off \in Nat /\ fpos \in [File -> Nat]
  BY <1>1, TypeFacts, FileFacts
<1>3. Moved \in Nat
  BY <1>1, <1>2 DEF Moved, WriteInHand
<1>4. crc \in Bucket /\ status \in {"run", "panic"}
  BY <1>1 DEF FragTypeOK
<1>. QED
  BY <1>1, <1>2, <1>3, <1>4

\* The next cells of the file are written behind those that were.
LEMMA WriteKeeps ==
  ASSUME FragInv, Writing, NEW f \in File, call.f = f,
         UNCHANGED <<epi, heap, item, flushed, opt, frag, crc, status>>,
         NEW w \in Nat, Put(CellsOf(f, Moved, w)), Moved' = Moved + w,
         fpos' \in [File -> Nat], \A g \in File \ {f} : fpos'[g] = fpos[g],
         call' \in CallRec, call'.f = f, call'.at \in {"copy", "insert"},
         call'.at = "copy" => call'.left <= ISize(f) /\ fpos'[f] = Moved + w,
         call'.at = "insert" => ISize(f) > 0 /\ fpos'[f] = 0
  PROVE  FragInv'
<1>1. /\ FragTypeOK /\ opt \in Setting /\ call # Idle
      /\ ISize(f) \in Nat /\ Length(f) \in Nat /\ Moved \in Nat
      /\ FileInHand /\ WriteInHand
      /\ packed \in Seq(Datum) /\ cur \in 0..Len(packed) /\ cur \in Nat
      /\ frag[f].off \in Nat
  BY WriteFacts
<1>2. /\ CellsOf(f, Moved, w) \in Seq(Datum) /\ Len(CellsOf(f, Moved, w)) = w
      /\ \A k \in 1..w : CellsOf(f, Moved, w)[k] = CellAt(f, Length(f), Moved + k)
  BY <1>1, MappedCells
<1>3. /\ packed' \in Seq(Datum) /\ cur' = cur + w /\ cur' \in 0..Len(packed') /\ cur <= cur'
      /\ Len(packed) <= Len(packed')
      /\ \A i \in 1..cur : packed'[i] = packed[i]
      /\ \A k \in 1..w : packed'[cur + k] = CellAt(f, Length(f), Moved + k)
  BY <1>1, <1>2, PutWrites
<1>4. FragTypeOK'
  BY <1>1, <1>3 DEF FragTypeOK, Datum, CallRec
<1>5. Writing' /\ call' # Idle
  BY DEF Writing, CallRec, Idle
<1>6. /\ cur = frag[f].off + Moved /\ frag[f].size = ISize(f) /\ Packs(f) /\ epi.fd # "none"
      /\ Holds(packed, f, Length(f), frag[f].off, Moved)
  BY <1>1 DEF WriteInHand
<1>7. Holds(packed', f, Length(f), frag[f].off, Moved + w)
  <2>1. /\ frag[f].off + Moved + w <= Len(packed')
        /\ \A i \in 1..(frag[f].off + Moved) : packed'[i] = packed[i]
        /\ \A k \in 1..w : packed'[frag[f].off + Moved + k] = CellAt(f, Length(f), Moved + k)
    <3>1. frag[f].off + Moved = cur /\ frag[f].off + Moved + w = cur'
      BY <1>1, <1>3, <1>6
    <3>2. cur' <= Len(packed')
      BY <1>3
    <3>. QED
      BY <1>3, <3>1, <3>2
  <2>. QED
    BY <1>1, <1>3, <1>6, <2>1, HoldsMore
<1>8. cur' = frag[f].off + (Moved + w)
  <2>1. frag[f].off \in Nat /\ Moved \in Nat /\ cur' = (frag[f].off + Moved) + w
    BY <1>1, <1>3, <1>6
  <2>. QED
    BY <2>1
<1>9. WriteInHand'
  <2>1. /\ ISize(f)' = ISize(f) /\ Length(f)' = Length(f) /\ Packs(f)' = Packs(f)
        /\ frag' = frag /\ epi' = epi
    BY DEF ISize, Length, Packs, IsPacked
  <2>2. call'.at \notin {"mapped"}
    OBVIOUS
  <2>. QED
    BY <1>6, <1>7, <1>8, <2>1, <2>2 DEF WriteInHand
<1>10. FileInHand'
  <2>1. /\ call.at \notin {"tail", "find"} /\ call'.at \notin {"tail", "find", "pack", "mapped"}
    BY DEF Writing
  <2>2. ~flushed /\ frag[f].st = "none"
        /\ (Dedupes(f) /\ ISize(f) > HashLen => crc = TailHash(f) /\ TailHash(f) = 0)
    BY <1>1, <2>1 DEF FileInHand
  <2>. QED
    BY <2>1, <2>2 DEF FileInHand, Dedupes, IsPacked, ISize, TailHash
<1>11. CallOK'
  BY <1>9, <1>10 DEF CallOK
<1>12. ~(frag'[f].st = "ok")
  BY <1>1 DEF FileInHand
<1>. QED
  BY <1>1, <1>3, <1>4, <1>11, <1>12, StepKeeps

LEMMA PackMappedKeeps ==
  ASSUME FragInv, NEW f \in File, PackMapped(f)
  PROVE  FragInv'
<1>1. At("mapped") /\ call.f = f
  BY DEF PackMapped
<1>2. Writing /\ Moved = 0 /\ status = "run" /\ call.at = "mapped"
  BY <1>1 DEF Writing, Moved, At, Idle
<1>3. PICK n \in 0..ISize(f) :
        /\ Put(CellsOf(f, 0, n))
        /\ IF n = ISize(f) THEN GoTo("insert") /\ UNCHANGED frag ELSE Fail(f)
  BY DEF PackMapped
<1>4. UNCHANGED <<epi, flushed, status, opt, heap, item, fpos, crc>>
  BY DEF PackMapped, Same
<1>5. /\ FragTypeOK /\ opt \in Setting /\ call \in CallRec /\ call # Idle
      /\ ISize(f) \in Nat /\ n \in Nat /\ fpos \in [File -> Nat] /\ crc \in Bucket
      /\ status \in {"run", "panic"}
      /\ packed \in Seq(Datum) /\ cur \in 0..Len(packed)
      /\ ISize(f) > 0 /\ fpos[f] = 0
  <2>1. FileInHand /\ WriteInHand /\ ISize(f) \in Nat
    BY <1>1, <1>2, WriteFacts
  <2>2. ISize(f) > 0 /\ fpos[f] = 0
    BY <1>1, <1>2, <2>1 DEF FileInHand, WriteInHand
  <2>3. n \in Nat
    BY <2>1
  <2>. QED
    BY <1>1, <1>2, <2>1, <2>2, <2>3, WriteFacts
<1>6. CASE n = ISize(f) /\ GoTo("insert") /\ UNCHANGED frag
  <2>1. /\ call' \in CallRec /\ call'.f = f /\ call'.at = "insert"
    BY <1>1, <1>5, <1>6 DEF GoTo, CallRec
  <2>2. Moved' = Moved + n
    <3>1. Moved' = ISize(f)'
      BY <2>1 DEF Moved
    <3>2. ISize(f)' = ISize(f)
      BY <1>4 DEF ISize
    <3>. QED
      BY <1>2, <1>5, <1>6, <3>1, <3>2
  <2>. QED
    BY <1>1, <1>2, <1>3, <1>4, <1>5, <1>6, <2>1, <2>2, WriteKeeps
<1>7. CASE Fail(f)
  <2>1. CellsOf(f, 0, n) \in Seq(Datum)
    BY <1>5, MappedCells
  <2>2. /\ packed' \in Seq(Datum) /\ cur' \in 0..Len(packed') /\ cur <= cur'
        /\ Len(packed) <= Len(packed') /\ \A i \in 1..cur : packed'[i] = packed[i]
    BY <1>3, <1>5, <2>1, PutWrites
  <2>. QED
    BY <1>1, <1>4, <1>5, <1>7, <2>2, ReturnKeeps DEF Fail
<1>. QED
  BY <1>3, <1>6, <1>7

\* A turn of the copy continues where the last one stopped, or the call fails.
LEMMA PackCopyKeeps ==
  ASSUME FragInv, NEW f \in File, PackCopy(f)
  PROVE  FragInv'
<1>1. /\ At("copy") /\ call.f = f /\ call.left > 0 /\ Same /\ UNCHANGED <<heap, item, crc>>
      /\ \/ AtEnd(f) /\ Fail(f) /\ UNCHANGED <<packed, cur, fpos>>
         \/ \E n \in 1..Min({BufSize, call.left, Length(f) - fpos[f]}), w \in 0..BufSize :
              /\ w <= n /\ Put(CellsOf(f, fpos[f], w))
              /\ fpos' = [fpos EXCEPT ![f] = @ + n]
              /\ IF w = n THEN call' = [call EXCEPT !.left = LeftAfter(n)] /\ UNCHANGED frag
                 ELSE Fail(f)
  BY DEF PackCopy
<1>2. Writing /\ call.at = "copy" /\ status = "run"
  BY <1>1 DEF Writing, At, Idle
<1>3. UNCHANGED <<epi, heap, item, flushed, status, opt, crc>>
  BY <1>1 DEF Same
<1>4. /\ call \in CallRec /\ call # Idle /\ call.left \in Nat /\ ISize(f) \in Nat
      /\ Length(f) \in Nat /\ Moved \in Nat /\ fpos \in [File -> Nat]
      /\ packed \in Seq(Datum) /\ cur \in 0..Len(packed) /\ Len(packed) \in Nat /\ cur \in Nat
      /\ crc \in Bucket /\ status \in {"run", "panic"} /\ WriteInHand /\ opt \in Setting
  BY <1>1, <1>2, WriteFacts
<1>5. /\ Moved = ISize(f) - call.left /\ fpos[f] = Moved /\ call.left <= ISize(f)
      /\ BufSize \in Nat
  BY <1>1, <1>2, <1>4, FileFacts DEF Moved, WriteInHand
<1>6. CASE Fail(f) /\ UNCHANGED <<packed, cur, fpos>>
  <2>1. Return(f, "error") /\ Len(packed) <= Len(packed') /\ cur <= cur'
    BY <1>4, <1>6 DEF Fail
  <2>. QED
    BY <1>1, <1>3, <1>4, <1>6, <2>1, ReturnKeeps
<1>7. ASSUME NEW n \in 1..Min({BufSize, call.left, Length(f) - fpos[f]}),
             NEW w \in 0..BufSize, w <= n, Put(CellsOf(f, fpos[f], w)),
             fpos' = [fpos EXCEPT ![f] = @ + n],
             IF w = n THEN call' = [call EXCEPT !.left = LeftAfter(n)] /\ UNCHANGED frag
             ELSE Fail(f)
      PROVE  FragInv'
  <2>1. n \in Nat /\ n <= call.left /\ w \in Nat
    <3>1. fpos[f] \in Int /\ Length(f) - fpos[f] \in Int
      BY <1>4
    <3>. DEFINE m == Min({BufSize, call.left, Length(f) - fpos[f]})
    <3>2. m \in Int /\ m <= call.left
      <4>1. BufSize \in Int /\ call.left \in Int /\ Length(f) - fpos[f] \in Int
        BY <1>4, <1>5, <3>1
      <4>. QED
        BY <4>1, MinOfThree, Zenon
    <3>3. n \in 1..m /\ w \in 0..BufSize
      OBVIOUS
    <3>. HIDE DEF m
    <3>. QED
      BY <1>4, <1>5, <3>2, <3>3
  <2>2. fpos' \in [File -> Nat] /\ fpos'[f] = Moved + n /\ \A g \in File \ {f} : fpos'[g] = fpos[g]
    BY <1>4, <1>5, <1>7, <2>1
  <2>3. Put(CellsOf(f, Moved, w))
    BY <1>5, <1>7
  <2>4. CASE w = n /\ call' = [call EXCEPT !.left = LeftAfter(n)] /\ UNCHANGED frag
    <3>1. call.left - n \in Nat
      BY <1>4, <2>1
    <3>2. /\ call' \in CallRec /\ call'.f = f /\ call'.at = "copy"
          /\ call'.left = call.left - n
      BY <1>1, <1>2, <1>4, <2>4, <3>1 DEF LeftAfter, CallRec
    <3>3. Moved' = Moved + w /\ call'.left <= ISize(f)
      <4>1. Moved' = ISize(f)' - call'.left
        BY <3>2 DEF Moved
      <4>2. ISize(f)' = ISize(f)
        BY <1>3 DEF ISize
      <4>3. Moved' = ISize(f) - (call.left - n) /\ w = n
        BY <2>4, <3>2, <4>1, <4>2
      <4>4. ISize(f) - (call.left - n) = ISize(f) - call.left + n /\ call.left - n <= ISize(f)
        BY <1>4, <1>5, <2>1
      <4>. QED
        BY <1>5, <3>2, <4>3, <4>4
    <3>4. fpos'[f] = Moved + w
      BY <2>2, <2>4
    <3>. QED
      BY <1>1, <1>2, <1>3, <2>1, <2>2, <2>3, <2>4, <3>2, <3>3, <3>4, WriteKeeps
  <2>5. CASE Fail(f)
    <3>1. CellsOf(f, Moved, w) \in Seq(Datum)
      BY <1>4, <2>1, MappedCells
    <3>2. /\ packed' \in Seq(Datum) /\ cur' \in 0..Len(packed') /\ cur <= cur'
          /\ Len(packed) <= Len(packed') /\ \A i \in 1..cur : packed'[i] = packed[i]
      BY <1>4, <2>3, <3>1, PutWrites
    <3>. QED
      BY <1>1, <1>3, <1>4, <2>2, <2>5, <3>2, ReturnKeeps DEF Fail
  <2>. QED
    BY <1>7, <2>4, <2>5
<1>. QED
  BY <1>1, <1>6, <1>7

LEMMA PackCopiedKeeps ==
  ASSUME FragInv, NEW f \in File, PackCopied(f)
  PROVE  FragInv'
<1>1. /\ At("copy") /\ call.f = f /\ call.left <= 0 /\ Return(f, "ok")
      /\ fpos' = [fpos EXCEPT ![f] = 0]
      /\ UNCHANGED <<epi, flushed, status, opt, packed, cur, heap, item, crc>>
  BY DEF PackCopied, Same, RewoundTo
<1>2. Writing /\ call.at = "copy"
  BY <1>1 DEF Writing, At, Idle
<1>3. /\ FragTypeOK /\ call.left \in Nat /\ ISize(f) \in Nat /\ fpos \in [File -> Nat]
      /\ frag \in [File -> FragRec] /\ FileInHand
  BY <1>1, <1>2, WriteFacts
<1>4. Moved = ISize(f)
  BY <1>1, <1>2, <1>3 DEF Moved
<1>5. /\ call' = Idle /\ frag' = [frag EXCEPT ![f].st = "ok"]
      /\ frag' \in [File -> FragRec] /\ \A g \in File \ {f} : frag'[g] = frag[g]
      /\ fpos' \in [File -> Nat] /\ fpos'[f] = 0 /\ \A g \in File \ {f} : fpos'[g] = fpos[g]
  BY <1>1, <1>3 DEF Return, FragRec
<1>6. FragTypeOK'
  BY <1>1, <1>3, <1>5 DEF FragTypeOK, FragRec
<1>7. FilesOK' /\ FragmentsApart'
  BY <1>1, <1>2, <1>4, <1>5, <1>6, FilesGrow
<1>8. ItemsOK' /\ BucketRing'
  <2>1. \A g \in File : frag[g].st = "ok" => frag'[g] = frag[g]
    BY <1>1, <1>3, <1>5 DEF FileInHand
  <2>. QED
    BY <1>1, <2>1, TableStays DEF FragInv
<1>9. CallOK'
  BY <1>5 DEF CallOK, Writing
<1>. QED
  BY <1>1, <1>6, <1>7, <1>8, <1>9 DEF FragInv


\* Where ListAddTail changes what comes next.
LEMMA AddTailNext ==
  ASSUME NEW N, NEW h \in Heaps(N), NEW R \in SUBSET N, Linked(h, R),
         NEW a \in R, NEW e \in N \ R
  PROVE  LET g == ListAddTail(h, e, a) IN
         /\ h[a].prev \in R /\ g[e].next = a /\ g[h[a].prev].next = e
         /\ \A y \in N \ {e, h[a].prev} : g[y].next = h[y].next
<1>. DEFINE p  == h[a].prev
            h1 == [h EXCEPT ![e] = [prev |-> p, next |-> a]]
<1>1. p \in N \ {e} /\ p \in R /\ a \in N \ {e} /\ e \in N
  BY DEF Linked
<1>2. /\ h1 \in Heaps(N) /\ h1[e].next = a /\ \A y \in N \ {e} : h1[y] = h[y]
  BY <1>1 DEF Heaps
<1>3. ListAddTail(h, e, a) = [h1 EXCEPT ![p].next = e, ![a].prev = e]
  BY DEF ListAddTail, ListInsert
<1>. HIDE DEF h1, p
<1>. DEFINE g == [h1 EXCEPT ![p].next = e, ![a].prev = e]
<1>4. g[e].next = a /\ g[p].next = e /\ \A y \in N \ {e, p} : g[y].next = h[y].next
  BY <1>1, <1>2 DEF Heaps
<1>. HIDE DEF g
<1>. QED
  BY <1>1, <1>3, <1>4 DEF p, g

\* An item begins inside its file and ends where the file does.
LEMMA ItemPlace ==
  ASSUME opt \in Setting, NEW f \in File, frag[f].off \in Nat
  PROVE  /\ ItemOf(f).pos = ItemPos(f) /\ ItemOf(f).len = Min({ISize(f), InMem})
         /\ ItemPos(f) \in Nat /\ frag[f].off <= ItemPos(f)
         /\ ItemOf(f).len \in Nat /\ ItemOf(f).len <= ISize(f)
         /\ ItemPos(f) = frag[f].off + (ISize(f) - ItemOf(f).len)
         /\ \A h \in Nat : h < InMem /\ h < ISize(f) => h < ItemOf(f).len
<1>1. ISize(f) \in Nat /\ InMem \in Nat
  BY FileFacts
<1>2. ItemOf(f).pos = ItemPos(f) /\ ItemOf(f).len = Min({ISize(f), InMem})
  BY DEF ItemOf
<1>3. Min({ISize(f), InMem}) = IF ISize(f) <= InMem THEN ISize(f) ELSE InMem
  BY <1>1, MinOfTwo
<1>. DEFINE l == ItemOf(f).len
<1>4. /\ l = IF ISize(f) <= InMem THEN ISize(f) ELSE InMem
      /\ ItemPos(f) = IF ISize(f) > InMem THEN frag[f].off + (ISize(f) - InMem) ELSE frag[f].off
  BY <1>2, <1>3 DEF ItemPos
<1>. HIDE DEF l
<1>5. /\ ItemPos(f) \in Nat /\ frag[f].off <= ItemPos(f) /\ l \in Nat /\ l <= ISize(f)
      /\ ItemPos(f) = frag[f].off + (ISize(f) - l)
      /\ \A h \in Nat : h < InMem /\ h < ISize(f) => h < l
  BY <1>1, <1>4
<1>. QED
  BY <1>2, <1>5 DEF l

\* A long file's end is entered behind the items of the files before it.
LEMMA InsertKeeps ==
  ASSUME FragInv, NEW f \in File, ZErofsFragmentsDedupeInsert(f)
  PROVE  FragInv'
<1>1. At("insert") /\ call.f = f
  BY DEF ZErofsFragmentsDedupeInsert
<1>2. Writing /\ call.at = "insert" /\ status = "run" /\ Moved = ISize(f)
  BY <1>1 DEF Writing, At, Idle, Moved
<1>3. /\ FragTypeOK /\ opt \in Setting /\ ISize(f) \in Nat /\ frag \in [File -> FragRec]
      /\ fpos \in [File -> Nat] /\ FileInHand /\ WriteInHand /\ frag[f].off \in Nat
      /\ crc \in Bucket
  BY <1>1, <1>2, WriteFacts
<1>4. /\ fpos[f] = 0 /\ frag[f].st = "none" /\ ISize(f) > 0 /\ frag[f].size = ISize(f) /\ Packs(f)
      /\ (Dedupes(f) /\ ISize(f) > HashLen => TailHash(f) = 0)
  BY <1>1, <1>2, <1>3 DEF FileInHand, WriteInHand
<1>5. CASE Die
  BY <1>5, DieKeeps
<1>6. ASSUME Return(f, "ok"), Same, UNCHANGED <<packed, cur, fpos, crc>>,
             FragTypeOK', ItemsOK', BucketRing'
      PROVE  FragInv'
  <2>1. /\ call' = Idle /\ frag' = [frag EXCEPT ![f].st = "ok"]
        /\ UNCHANGED <<flushed, opt, packed, cur, fpos>>
    BY <1>6 DEF Return, Same
  <2>2. FilesOK' /\ FragmentsApart'
    BY <1>1, <1>2, <1>4, <1>6, <2>1, FilesGrow
  <2>3. CallOK'
    BY <2>1 DEF CallOK, Writing
  <2>. QED
    BY <1>3, <1>6, <2>1, <2>2, <2>3 DEF FragInv
<1>7. CASE Return(f, "ok") /\ Same /\ UNCHANGED <<packed, cur, heap, item, fpos, crc>>
  <2>1. /\ call' = Idle /\ frag' = [frag EXCEPT ![f].st = "ok"]
        /\ frag' \in [File -> FragRec] /\ \A g \in File \ {f} : frag'[g] = frag[g]
        /\ UNCHANGED <<epi, flushed, status, opt>>
    BY <1>3, <1>7 DEF Return, FragRec, Same
  <2>2. FragTypeOK'
    BY <1>3, <1>7, <2>1 DEF FragTypeOK, FragRec
  <2>3. ItemsOK' /\ BucketRing'
    <3>1. \A g \in File : frag[g].st = "ok" => frag'[g] = frag[g]
      BY <1>4, <2>1
    <3>. QED
      BY <1>7, <2>1, <3>1, TableStays DEF FragInv
  <2>. QED
    BY <1>6, <1>7, <2>2, <2>3
<1>8. CASE /\ ISize(f) > HashLen /\ epi.hash /\ heap[crc].prev # NIL
           /\ heap' = Enlisted(f) /\ item' = [item EXCEPT ![f] = ItemOf(f)]
           /\ Return(f, "ok") /\ Same /\ UNCHANGED <<packed, cur, fpos, crc>>
  <2>. DEFINE N == Bucket \cup File
              R == {0} \cup Listed
              p == heap[0].prev
  <2>1. /\ call' = Idle /\ frag' = [frag EXCEPT ![f].st = "ok"] /\ frag' \in [File -> FragRec]
        /\ frag'[f].st = "ok" /\ frag'[f].size = frag[f].size /\ frag'[f].off = frag[f].off
        /\ \A g \in File \ {f} : frag'[g] = frag[g]
        /\ UNCHANGED <<epi, flushed, status, opt, packed, cur, fpos, crc>>
    BY <1>3, <1>8 DEF Return, FragRec, Same
  <2>2. /\ heap \in Heaps(N) /\ NIL \notin N /\ 0 \in N /\ File \cap Bucket = {} /\ 0 \in Bucket
        /\ item \in [File -> [pos : Nat, len : Nat]] /\ Listed \subseteq File
        /\ InMem \in Nat \ {0} /\ HashLen \in Nat \ {0}
    BY <1>3, FragmentsAssumption DEF FragTypeOK, Listed
  <2>3. /\ Linked(heap, R) /\ (\A b \in Bucket \ {0} : heap[b] = Unlinked)
        /\ \A g \in Listed : heap[g].next # 0 => item[g].pos < item[heap[g].next].pos
    BY <1>8 DEF FragInv, BucketRing
  <2>4. crc = 0
    BY <1>3, <1>8, <2>3 DEF Unlinked
  <2>5. \A g \in Listed : Packed(g) /\ ISize(g) > HashLen /\ Packs(g) /\ item[g] = ItemOf(g)
                          /\ (Dedupes(g) => TailHash(g) = 0)
    BY DEF FragInv, ItemsOK
  <2>6. f \notin Listed /\ R \in SUBSET N /\ f \in N \ R
    BY <1>4, <2>2, <2>5 DEF Packed
  <2>7. heap' = ListAddTail(heap, f, 0)
    BY <1>8, <2>4 DEF Enlisted
  <2>8. /\ heap' \in Heaps(N) /\ Linked(heap', R \cup {f})
        /\ \A y \in N \ (R \cup {f}) : heap'[y] = heap[y]
    <3>1. 0 \in R
      OBVIOUS
    <3>. HIDE DEF R, N
    <3>2. heap' \in Heaps(N)
      BY <2>2, <2>6, <2>7, AddTailTyped
    <3>3. /\ Linked(ListAddTail(heap, f, 0), R \cup {f})
          /\ \A y \in N \ (R \cup {f}) : ListAddTail(heap, f, 0)[y] = heap[y]
      BY <2>2, <2>3, <2>6, <3>1, AddTailLinked
    <3>. QED
      BY <2>7, <3>2, <3>3
  <2>9. /\ p \in R /\ heap'[f].next = 0 /\ heap'[p].next = f
        /\ \A y \in N \ {f, p} : heap'[y].next = heap[y].next
    <3>1. 0 \in R
      OBVIOUS
    <3>. HIDE DEF R, N
    <3>. QED
      BY <2>2, <2>3, <2>6, <2>7, <3>1, AddTailNext
  <2>10. /\ ItemOf(f).pos = ItemPos(f) /\ ItemOf(f).len > 0 /\ ItemOf(f).len \in Nat
         /\ ItemPos(f) \in Nat /\ frag[f].off <= ItemPos(f)
         /\ ItemOf(f) \in [pos : Nat, len : Nat]
    <3>1. 0 \in Nat /\ 0 < InMem /\ 0 < ISize(f)
      BY <1>4, <2>2
    <3>2. /\ ItemOf(f).pos = ItemPos(f) /\ ItemOf(f).len > 0 /\ ItemOf(f).len \in Nat
          /\ ItemPos(f) \in Nat /\ frag[f].off <= ItemPos(f)
      BY <1>3, <3>1, ItemPlace
    <3>. QED
      BY <3>2 DEF ItemOf
  <2>11. /\ item' \in [File -> [pos : Nat, len : Nat]] /\ item'[f] = ItemOf(f)
         /\ \A g \in File \ {f} : item'[g] = item[g]
    BY <1>8, <2>2, <2>10
  <2>12. Listed' = Listed \cup {f}
    BY <2>10, <2>11 DEF Listed
  <2>13. FragTypeOK'
    BY <1>3, <2>1, <2>8, <2>11 DEF FragTypeOK, FragRec
  <2>14. \A g \in File : /\ ISize(g)' = ISize(g) /\ Packs(g)' = Packs(g)
                         /\ Dedupes(g)' = Dedupes(g) /\ TailHash(g)' = TailHash(g)
    BY <2>1 DEF ISize, Packs, Dedupes, IsPacked, TailHash
  <2>15. \A g \in Listed \cup {f} : ItemOf(g)' = ItemOf(g)
    <3>1. \A g \in Listed \cup {f} : g \in File /\ frag'[g].off = frag[g].off
      BY <2>1, <2>2
    <3>. QED
      BY <2>14, <3>1 DEF ItemOf, ItemPos
  <2>16. ItemsOK'
    <3>1. ASSUME NEW g \in Listed \cup {f}
          PROVE  /\ Packed(g)' /\ Packs(g) /\ ISize(g) > HashLen
                 /\ item'[g] = ItemOf(g) /\ (Dedupes(g) => TailHash(g) = 0)
      <4>1. CASE g = f
        BY <1>4, <1>8, <2>1, <2>11, <4>1 DEF Packed
      <4>2. CASE g # f
        BY <2>1, <2>2, <2>5, <2>11, <4>2 DEF Packed
      <4>. QED
        BY <4>1, <4>2
    <3>2. epi'.hash
      BY <1>8, <2>1
    <3>3. \A g \in Listed \cup {f} : g \in File
      BY <2>2
    <3>. QED
      BY <2>12, <2>14, <2>15, <3>1, <3>2, <3>3 DEF ItemsOK
  <2>17. ASSUME NEW g \in Listed, g = p PROVE item[g].pos < ItemPos(f)
    <3>1. g \in File /\ Packed(g) /\ item[g] = ItemOf(g) /\ ISize(g) > HashLen
      BY <2>2, <2>5
    <3>2. frag[g].off + ISize(g) <= frag[f].off
      BY <1>1, <1>2, <3>1 DEF FragInv, FilesOK, PackedOK
    <3>3. frag[g].off \in Nat /\ ISize(g) \in Nat
      BY <1>3, <3>1, TypeFacts, FileFacts
    <3>4. 0 \in Nat /\ 0 < InMem /\ 0 < ISize(g)
      BY <2>2, <3>1, <3>3
    <3>5. /\ item[g].pos = frag[g].off + (ISize(g) - ItemOf(g).len) /\ ItemOf(g).len > 0
          /\ ItemOf(g).len \in Nat
      BY <1>3, <3>1, <3>3, <3>4, ItemPlace
    <3>. QED
      BY <1>3, <2>10, <3>2, <3>3, <3>5
  <2>18. BucketRing'
    <3>1. Linked(heap', {0} \cup Listed')
      BY <2>8, <2>12
    <3>2. \A b \in Bucket \ {0} : heap'[b] = Unlinked
      <4>1. \A b \in Bucket \ {0} : b \in N \ (R \cup {f})
        BY <2>2
      <4>. QED
        BY <2>3, <2>8, <4>1
    <3>3. ASSUME NEW g \in Listed', heap'[g].next # 0
          PROVE  item'[g].pos < item'[heap'[g].next].pos
      <4>1. g \in Listed /\ g # f /\ g \in File
        BY <2>2, <2>9, <2>12, <3>3
      <4>2. CASE g = p
        BY <2>6, <2>9, <2>10, <2>11, <2>17, <4>1, <4>2
      <4>3. CASE g # p
        <5>1. heap'[g].next = heap[g].next
          BY <2>9, <4>1, <4>3
        <5>2. heap[g].next \in Listed
          BY <2>3, <3>3, <4>1, <5>1 DEF Linked
        <5>3. heap[g].next \in File \ {f}
          BY <2>2, <2>6, <5>2
        <5>. QED
          BY <2>3, <2>11, <3>3, <4>1, <5>1, <5>3
      <4>. QED
        BY <4>2, <4>3
    <3>. QED
      BY <3>1, <3>2, <3>3 DEF BucketRing
  <2>. QED
    BY <1>6, <1>8, <2>13, <2>16, <2>18
<1>. QED
  BY <1>5, <1>7, <1>8 DEF ZErofsFragmentsDedupeInsert, ItemOf
----------------------------------------------------------------------------
(***************************************************************************)
(* The invariant holds of every run, and the properties follow from it.    *)
(***************************************************************************)

LEMMA FragInitHolds ==
  ASSUME FragInit
  PROVE  FragInv
<1>1. /\ opt \in Setting /\ epi = NoEpi /\ packed = <<>> /\ cur = 0
      /\ heap = [x \in Bucket \cup File |-> Unlinked] /\ item = [f \in File |-> NoItem]
      /\ fpos = [f \in File |-> 0] /\ frag = [f \in File |-> Unpacked]
      /\ crc = 0 /\ call = Idle /\ flushed = FALSE /\ status = "run"
  BY DEF FragInit
<1>2. FragTypeOK
  <2>1. /\ packed \in Seq(Datum) /\ cur \in 0..Len(packed)
    BY <1>1
  <2>2. heap \in Heaps(Bucket \cup File)
    BY <1>1 DEF Heaps, Unlinked
  <2>3. item \in [File -> [pos : Nat, len : Nat]] /\ fpos \in [File -> Nat] /\ crc \in Bucket
    BY <1>1, FragmentsAssumption DEF NoItem
  <2>4. frag \in [File -> [off : Nat, size : Nat, st : {"none", "ok", "error"}]]
    BY <1>1 DEF Unpacked
  <2>5. epi \in [fd : {"none", "temp", "stdin", "closed"}, hash : BOOLEAN]
    BY <1>1 DEF NoEpi
  <2>. QED
    BY <1>1, <2>1, <2>2, <2>3, <2>4, <2>5 DEF FragTypeOK, Datum
<1>3. \A f \in File : frag[f].st = "none" /\ item[f].len = 0
  BY <1>1 DEF Unpacked, NoItem
<1>4. Listed = {}
  BY <1>3 DEF Listed
<1>5. CallOK
  BY <1>1 DEF CallOK, Writing
<1>6. FilesOK /\ FragmentsApart
  BY <1>3 DEF FilesOK, FragmentsApart, Packed
<1>7. ItemsOK
  BY <1>4 DEF ItemsOK
<1>8. BucketRing
  <2>1. ~epi.hash /\ \A b \in Bucket \ {0} : heap[b] = Unlinked
    BY <1>1 DEF NoEpi
  <2>. QED
    BY <1>4, <2>1 DEF BucketRing
<1>. QED
  BY <1>1, <1>2, <1>5, <1>6, <1>7, <1>8 DEF FragInv

LEMMA FragStepKeeps ==
  ASSUME FragInv, [FragNext]_fvars
  PROVE  FragInv'
<1>1. CASE InitPackedFile
  BY <1>1, InitPackedFileKeeps
<1>2. CASE Collect
  BY <1>2, CollectKeeps
<1>3. CASE ErofsFlushPackedInode
  BY <1>3, FlushKeeps
<1>4. ASSUME NEW f \in File, Begin(f) PROVE FragInv'
  BY <1>4, BeginKeeps
<1>5. ASSUME NEW f \in File, ReadTail(f) PROVE FragInv'
  BY <1>5, ReadTailKeeps
<1>6. ASSUME NEW f \in File, ZErofsFragmentsDedupeFind(f) PROVE FragInv'
  BY <1>6, FindKeeps
<1>7. ASSUME NEW f \in File, PackStart(f) PROVE FragInv'
  BY <1>7, PackStartKeeps
<1>8. ASSUME NEW f \in File, PackMapped(f) PROVE FragInv'
  BY <1>8, PackMappedKeeps
<1>9. ASSUME NEW f \in File, PackCopy(f) PROVE FragInv'
  BY <1>9, PackCopyKeeps
<1>10. ASSUME NEW f \in File, PackCopied(f) PROVE FragInv'
  BY <1>10, PackCopiedKeeps
<1>11. ASSUME NEW f \in File, ZErofsFragmentsDedupeInsert(f) PROVE FragInv'
  BY <1>11, InsertKeeps
<1>12. CASE UNCHANGED fvars
  <2>1. UNCHANGED <<epi, packed, cur, heap, item, fpos, frag, crc, call, flushed, status, opt>>
    BY <1>12 DEF fvars
  <2>2. FragTypeOK'
    BY <2>1 DEF FragInv, FragTypeOK
  <2>3. CallOK'
    BY <2>1 DEF FragInv, CallOK, FileInHand, WriteInHand, Writing, Moved, Packs, IsPacked,
                Dedupes, ISize, Length, TailHash
  <2>4. FilesOK' /\ FragmentsApart'
    BY <2>1 DEF FragInv, FilesOK, PackedOK, Packed, Writing, ISize, Length, FragmentsApart
  <2>5. ItemsOK' /\ BucketRing'
    BY <2>1, TableStays DEF FragInv
  <2>. QED
    BY <2>1, <2>2, <2>3, <2>4, <2>5 DEF FragInv
<1>. QED
  BY <1>1, <1>2, <1>3, <1>4, <1>5, <1>6, <1>7, <1>8, <1>9, <1>10, <1>11, <1>12, Zenon
     DEF FragNext, Step

LEMMA FragInvariant == FragFairSpec => []FragInv
<1>1. FragInit => FragInv
  BY FragInitHolds
<1>2. FragInv /\ [FragNext]_fvars => FragInv'
  BY FragStepKeeps
<1>. QED
  BY <1>1, <1>2, PTL DEF FragFairSpec

\* A slice of what a file was written to is that slice of the file.
LEMMA SliceOf ==
  ASSUME opt \in Setting, packed \in Seq(Datum), NEW f \in File, NEW off \in Nat, NEW n \in Nat,
         Holds(packed, f, Length(f), off, n), NEW from \in Nat, NEW len \in Nat, from + len <= n
  PROVE  Slice(off + from, len) = CellsOf(f, from, len)
<1>. DEFINE a == off + from
            b == off + from + len
            s == Cells(packed, a, b)
            c == CellsOf(f, from, len)
<1>1. off + n <= Len(packed) /\ \A k \in 1..n : packed[off + k] = CellAt(f, Length(f), k)
  BY DEF Holds
<1>2. /\ s \in Seq(Datum) /\ Len(s) = len /\ \A k \in 1..len : s[k] = packed[off + from + k]
  <2>1. a \in Nat /\ b \in Nat /\ Len(packed) \in Nat /\ b <= Len(packed)
        /\ b - a = len /\ a <= b
    BY <1>1
  <2>. HIDE DEF a, b
  <2>2. /\ s \in Seq(Datum) /\ Len(s) = (IF a <= b THEN b - a ELSE 0)
        /\ \A k \in 1..(b - a) : s[k] = packed[a + k]
    BY <2>1, CutCells, Zenon DEF IsCut
  <2>. HIDE DEF s
  <2>3. /\ s \in Seq(Datum) /\ Len(s) = len /\ \A k \in 1..len : s[k] = packed[a + k]
    BY <2>1, <2>2
  <2>. QED
    BY <2>3 DEF a
<1>3. /\ c \in Seq(Datum) /\ Len(c) = len
      /\ \A k \in 1..len : c[k] = CellAt(f, Length(f), from + k)
  BY MappedCells
<1>4. Slice(off + from, len) = s
  BY DEF Slice, Cells
<1>. HIDE DEF s, c
<1>5. ASSUME NEW k \in 1..len PROVE s[k] = c[k]
  <2>1. from + k \in 1..n /\ off + from + k = off + (from + k)
    OBVIOUS
  <2>. QED
    BY <1>1, <1>2, <1>3, <2>1
<1>6. s = c
  <2>1. Len(s) = Len(c) /\ \A k \in 1..Len(s) : s[k] = c[k]
    BY <1>2, <1>3, <1>5
  <2>. QED
    BY <1>2, <1>3, <2>1, SeqEqual
<1>. QED
  BY <1>4, <1>6 DEF c

LEMMA PackedFollows ==
  ASSUME FragInv
  PROVE  PackedAsPromised
<1>1. SUFFICES ASSUME NEW f \in File, frag[f].st = "ok"
               PROVE  /\ fpos[f] = 0
                      /\ Packed(f) => Slice(frag[f].off, frag[f].size) = CellsOf(f, 0, ISize(f))
  BY DEF PackedAsPromised
<1>2. FragTypeOK /\ opt \in Setting /\ FilesOK
  BY DEF FragInv
<1>3. fpos[f] = 0
  BY <1>1, <1>2 DEF FilesOK
<1>4. ASSUME Packed(f) PROVE Slice(frag[f].off, frag[f].size) = CellsOf(f, 0, ISize(f))
  <2>1. frag[f].size = ISize(f) /\ Holds(packed, f, Length(f), frag[f].off, ISize(f))
    BY <1>2, <1>4 DEF FilesOK, PackedOK
  <2>2. packed \in Seq(Datum) /\ frag[f].off \in Nat /\ ISize(f) \in Nat
    BY <1>2, TypeFacts, FileFacts
  <2>3. Slice(frag[f].off + 0, ISize(f)) = CellsOf(f, 0, ISize(f))
    <3>1. 0 \in Nat /\ 0 + ISize(f) <= ISize(f)
      BY <2>2
    <3>. QED
      BY <1>2, <2>1, <2>2, <3>1, SliceOf
  <2>. QED
    BY <2>1, <2>2, <2>3
<1>. QED
  BY <1>3, <1>4

LEMMA ItemsFollow ==
  ASSUME FragInv
  PROVE  ItemsTrue
<1>1. SUFFICES ASSUME NEW f \in Listed
               PROVE  /\ item[f].len > HashLen
                      /\ Slice(item[f].pos, item[f].len)
                           = CellsOf(f, ISize(f) - item[f].len, item[f].len)
                      /\ opt.fragments /\ opt.dedupe # "off" => TailHash(f) = 0
  BY DEF ItemsTrue
<1>2. /\ f \in File /\ FragTypeOK /\ opt \in Setting /\ Packed(f) /\ Packs(f)
      /\ ISize(f) > HashLen /\ item[f] = ItemOf(f) /\ (Dedupes(f) => TailHash(f) = 0)
  BY DEF Listed, FragInv, ItemsOK
<1>3. Holds(packed, f, Length(f), frag[f].off, ISize(f))
  BY <1>2 DEF FragInv, FilesOK, PackedOK
<1>4. /\ packed \in Seq(Datum) /\ frag[f].off \in Nat /\ ISize(f) \in Nat
      /\ HashLen \in Nat /\ HashLen < InMem /\ InMem \in Nat
  BY <1>2, TypeFacts, FileFacts, FragmentsAssumption
<1>5. /\ item[f].len \in Nat /\ item[f].len <= ISize(f) /\ HashLen < item[f].len
      /\ item[f].pos = frag[f].off + (ISize(f) - item[f].len)
  BY <1>2, <1>4, ItemPlace
<1>6. Slice(item[f].pos, item[f].len) = CellsOf(f, ISize(f) - item[f].len, item[f].len)
  <2>1. /\ ISize(f) - item[f].len \in Nat /\ item[f].len \in Nat
        /\ ISize(f) - item[f].len + item[f].len <= ISize(f)
    BY <1>4, <1>5
  <2>. QED
    BY <1>2, <1>3, <1>4, <1>5, <2>1, SliceOf
<1>7. opt.fragments /\ opt.dedupe # "off" => TailHash(f) = 0
  BY <1>2 DEF Packs, Dedupes
<1>. QED
  BY <1>4, <1>5, <1>6, <1>7

\* Every field of the packer's state holds a value of its type, and the packed file's
\* position stays inside it (inode1.go, dedupe.go).
THEOREM FragTypes == FragFairSpec => []FragTypeOK
<1>1. FragInv => FragTypeOK
  BY DEF FragInv
<1>. QED
  BY <1>1, FragInvariant, PTL

\* A file that ErofsBeginCompressedFile says is packed is where Fragmentoff says it
\* is, whatever failed before and whatever is written after it, and its descriptor is
\* back at the start (inode1.go, ZErofsPackFileFromFd).
THEOREM PackedIsThere == FragFairSpec => []PackedAsPromised
<1>1. FragInv => PackedAsPromised
  BY PackedFollows
<1>. QED
  BY <1>1, FragInvariant, PTL

\* No two packed files share a cell of the packed file (inode1.go,
\* ZErofsPackFileFromFd takes the descriptor's position for Fragmentoff).
THEOREM FragmentsNeverOverlap == FragFairSpec => []FragmentsApart
<1>1. FragInv => FragmentsApart
  BY DEF FragInv
<1>. QED
  BY <1>1, FragInvariant, PTL

\* An item of the table is the end of its file, and in the bucket of that end, for
\* every size of the checksum below that of an item (dedupe.go,
\* ZErofsFragmentsDedupeInsert).
THEOREM ItemsTellTheTruth == FragFairSpec => []ItemsTrue
<1>1. FragInv => ItemsTrue
  BY ItemsFollow
<1>. QED
  BY <1>1, FragInvariant, PTL

\* The first bucket is a well-linked ring of the items in the order of their files,
\* and no other bucket is ever initialised (inode.go, InitPackedFile; list.go).
THEOREM BucketIsARing == FragFairSpec => []BucketRing
<1>1. FragInv => BucketRing
  BY DEF FragInv
<1>. QED
  BY <1>1, FragInvariant, PTL
=============================================================================
