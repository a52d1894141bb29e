------------------------------- MODULE Lemmas -------------------------------
(***************************************************************************)
(* Facts about the operators that the models are built from, which the     *)
(* proofs about all of them cite: the block arithmetic of utils.go, the    *)
(* rings of list.go, and sequences as Go slices.                           *)
(***************************************************************************)
EXTENDS BlockMath, IntrusiveList, SequencesExt, SequenceTheorems, WellFoundedInduction, TLAPS

(***************************************************************************)
(* Block arithmetic.                                                       *)
(***************************************************************************)
\* Integer division, characterised (the operators of utils.go are built on it).
LEMMA DivMod ==
  ASSUME NEW x \in Int, NEW d \in Nat \ {0}
  PROVE  /\ x \div d \in Int
         /\ x % d \in 0..(d - 1)
         /\ x = d * (x \div d) + (x % d)
  OBVIOUS

\* The quotient and the remainder are the only ones there are.
LEMMA DivUnique ==
  ASSUME NEW x \in Int, NEW d \in Nat \ {0}, NEW q \in Int, NEW r \in 0..(d - 1),
         x = d * q + r
  PROVE  x \div d = q /\ x % d = r
  OBVIOUS

\* RoundUp moves forward, by less than the alignment (utils.go RoundUp).
LEMMA RoundUpBounds ==
  ASSUME NEW x \in Nat, NEW y \in Nat \ {0}
  PROVE  /\ RoundUp(x, y) \in Nat
         /\ x <= RoundUp(x, y) /\ RoundUp(x, y) < x + y
<1> DEFINE q == (x + (y - 1)) \div y
           r == (x + (y - 1)) % y
           z == x + (y - 1)
<1>1. q \in Int /\ r \in 0..(y - 1) /\ x + (y - 1) = y * q + r
  <2>1. z \in Int
    OBVIOUS
  <2>. HIDE DEF z
  <2>2. z \div y \in Int /\ z % y \in 0..(y - 1) /\ z = y * (z \div y) + (z % y)
    BY <2>1, DivMod
  <2>. QED
    BY <2>2 DEF z
<1>2. RoundUp(x, y) = y * q
  BY <1>1 DEF RoundUp
<1>. QED
  BY <1>1, <1>2

\* The number of blocks of a run of cells: it covers them, the last block is
\* used, and it is zero only for the empty run (utils.go BlkRoundUp).
LEMMA NBlkBounds ==
  ASSUME NEW x \in Nat
  PROVE  /\ NBlk(x) \in Nat
         /\ x <= BlkSz * NBlk(x) /\ BlkSz * NBlk(x) < x + BlkSz
<1> DEFINE q == (x + (BlkSz - 1)) \div BlkSz
           r == (x + (BlkSz - 1)) % BlkSz
           z == x + (BlkSz - 1)
<1>1. q \in Int /\ r \in 0..(BlkSz - 1) /\ x + (BlkSz - 1) = BlkSz * q + r
  <2>1. z \in Int /\ BlkSz \in Nat \ {0}
    BY BlkSzAssumption
  <2>. HIDE DEF z
  <2>2. z \div BlkSz \in Int /\ z % BlkSz \in 0..(BlkSz - 1)
        /\ z = BlkSz * (z \div BlkSz) + (z % BlkSz)
    BY <2>1, DivMod
  <2>. QED
    BY <2>2 DEF z
<1>2. BlkSz \in Nat \ {0}
  BY BlkSzAssumption
<1>3. q >= 0
  BY <1>1, <1>2
<1>. QED
  BY <1>1, <1>2, <1>3 DEF NBlk

\* A block that holds nothing occupies nothing: MapBhInternal gives it no address of
\* its own.
LEMMA NBlkZero ==
  ASSUME NEW x \in Nat
  PROVE  NBlk(x) = 0 <=> x = 0
  BY NBlkBounds, BlkSzAssumption

\* More cells never take fewer blocks: growing a buffer block never shrinks its run.
LEMMA NBlkMono ==
  ASSUME NEW x \in Nat, NEW y \in Nat, x <= y
  PROVE  NBlk(x) <= NBlk(y)
<1>1. /\ NBlk(x) \in Nat /\ BlkSz * NBlk(x) < x + BlkSz
      /\ NBlk(y) \in Nat /\ y <= BlkSz * NBlk(y)
  BY NBlkBounds
<1>2. SUFFICES ASSUME NBlk(y) + 1 <= NBlk(x) PROVE FALSE
  BY <1>1
<1>3. BlkSz * (NBlk(y) + 1) <= BlkSz * NBlk(x)
  BY <1>1, <1>2, BlkSzAssumption
<1>4. BlkSz * (NBlk(y) + 1) = BlkSz * NBlk(y) + BlkSz
  BY <1>1, BlkSzAssumption
<1>. QED
  BY <1>1, <1>3, <1>4, BlkSzAssumption

\* Every integer has a quotient and a remainder.
LEMMA DivExists ==
  ASSUME NEW x \in Int, NEW d \in Nat \ {0}
  PROVE  \E q \in Int, r \in 0..(d - 1) :
           x = d * q + r /\ x \div d = q /\ x % d = r
  BY DivMod

\* The quotient of a rounded-up run is its number of blocks, and the same for a
\* rounded-up offset.
LEMMA BlocksOf ==
  ASSUME NEW x \in Int, NEW q \in Int, NEW r \in 0..(BlkSz - 1),
         x + (BlkSz - 1) = BlkSz * q + r
  PROVE  NBlk(x) = q
<1>1. BlkSz \in Nat \ {0} /\ x + (BlkSz - 1) \in Int
  BY BlkSzAssumption
<1>. DEFINE y == x + (BlkSz - 1)
<1>2. y \in Int /\ y = BlkSz * q + r
  BY <1>1
<1>. HIDE DEF y
<1>3. y \div BlkSz = q
  BY <1>1, <1>2, DivUnique
<1>. QED
  BY <1>3 DEF NBlk, y

LEMMA RoundedUp ==
  ASSUME NEW x \in Int, NEW d \in Nat \ {0}, NEW q \in Int, NEW r \in 0..(d - 1),
         x + (d - 1) = d * q + r
  PROVE  RoundUp(x, d) = q * d
<1>. DEFINE y == x + (d - 1)
<1>1. y \in Int /\ y = d * q + r
  OBVIOUS
<1>. HIDE DEF y
<1>2. y \div d = q
  BY <1>1, DivUnique
<1>. QED
  BY <1>2 DEF RoundUp, y

\* A record that fits in what is left of the last block, after alignment, does
\* not change the number of blocks: the case oob <= 0 of BattachInternal, where
\* the program does not look at TailBlkAddr at all.
LEMMA FittingKeepsBlocks ==
  ASSUME NEW off \in Nat, NEW align \in Nat \ {0}, NEW incr \in Nat,
         BlkSz % align = 0,
         RoundUp(UsedInLast(off), align) + incr <= BlkSz
  PROVE  NBlk(RoundUp(off, align) + incr) = NBlk(off)
<1>0. BlkSz \in Nat \ {0}
  BY BlkSzAssumption
<1>1. PICK k \in Int : BlkSz = align * k
  <2>1. /\ BlkSz \div align \in Int
        /\ BlkSz = align * (BlkSz \div align) + (BlkSz % align)
    BY <1>0
  <2>2. BlkSz = align * (BlkSz \div align)
    BY <1>0, <2>1
  <2>. QED
    BY <2>1, <2>2
<1>2. PICK q \in Int, r \in 0..(BlkSz - 1) :
        off - 1 = BlkSz * q + r /\ (off - 1) \div BlkSz = q /\ (off - 1) % BlkSz = r
  <2>1. off - 1 \in Int
    OBVIOUS
  <2>. QED
    BY <1>0, <2>1, DivExists
<1>3. PICK m \in Int, s \in 0..(align - 1) :
        r + 1 + (align - 1) = align * m + s /\ (r + 1 + (align - 1)) \div align = m
  <2>1. r + 1 + (align - 1) \in Int
    BY <1>2
  <2>. QED
    BY <2>1, DivExists
<1>4. RoundUp(UsedInLast(off), align) = align * m
  BY <1>2, <1>3 DEF RoundUp, UsedInLast
<1>. DEFINE v == align * m + incr
<1>5. v \in 1..BlkSz
  BY <1>0, <1>2, <1>3, <1>4
<1>6. RoundUp(off, align) = BlkSz * q + align * m
  <2>1. off + (align - 1) = align * (k * q + m) + s
    <3>1. off + (align - 1) = BlkSz * q + (r + 1 + (align - 1))
      BY <1>0, <1>2
    <3>2. BlkSz * q = align * (k * q)
      BY <1>1, <1>2
    <3>3. align * (k * q + m) = align * (k * q) + align * m
      BY <1>1, <1>2, <1>3
    <3>. QED
      BY <1>0, <1>1, <1>2, <1>3, <3>1, <3>2, <3>3
  <2>2. RoundUp(off, align) = (k * q + m) * align
    <3>. DEFINE z == k * q + m
    <3>1. z \in Int /\ off \in Int /\ s \in 0..(align - 1)
      BY <1>1, <1>2, <1>3
    <3>2. off + (align - 1) = align * z + s
      BY <2>1
    <3>. HIDE DEF z, v
    <3>3. RoundUp(off, align) = z * align
      BY <3>1, <3>2, RoundedUp
    <3>. QED
      BY <3>3 DEF z
  <2>3. (k * q + m) * align = BlkSz * q + align * m
    BY <1>1, <1>2, <1>3
  <2>. QED
    BY <2>2, <2>3
<1>7. NBlk(BlkSz * q + v) = q + 1
  <2>1. BlkSz * q + v + (BlkSz - 1) = BlkSz * (q + 1) + (v - 1)
    BY <1>0, <1>2, <1>5
  <2>2. /\ q + 1 \in Int /\ v - 1 \in 0..(BlkSz - 1)
        /\ BlkSz * q + v \in Int
    BY <1>0, <1>2, <1>5
  <2>. HIDE DEF v
  <2>. QED
    BY <2>1, <2>2, BlocksOf
<1>8. NBlk(off) = q + 1
  <2>1. off + (BlkSz - 1) = BlkSz * (q + 1) + r
    BY <1>0, <1>2
  <2>2. q + 1 \in Int /\ off \in Int /\ r \in 0..(BlkSz - 1)
    BY <1>0, <1>2
  <2>. HIDE DEF v
  <2>. QED
    BY <2>1, <2>2, BlocksOf
<1>9. RoundUp(off, align) + incr = BlkSz * q + v
  BY <1>0, <1>2, <1>3, <1>6
<1>. QED
  BY <1>7, <1>8, <1>9
----------------------------------------------------------------------------
(***************************************************************************)
(* What list.go guarantees about rings of any size.                        *)
(***************************************************************************)

\* The operations stay within the nodes they are given.
LEMMA InitTyped ==
  ASSUME NEW N, NEW heap \in Heaps(N), NEW x \in N
  PROVE  InitListHead(heap, x) \in Heaps(N)
  BY DEF Heaps, InitListHead

\* __ListAdd (list.go:39) writes only pointers to nodes.
LEMMA InsertTyped ==
  ASSUME NEW N, NEW heap \in Heaps(N), NEW e \in N,
         NEW p \in N \cup {NIL}, NEW n \in N \cup {NIL}
  PROVE  ListInsert(heap, e, p, n) \in Heaps(N)
<1>. DEFINE Ptr == [prev : N \cup {NIL}, next : N \cup {NIL}]
            h1 == [heap EXCEPT ![e] = [prev |-> p, next |-> n]]
            h2 == [h1 EXCEPT ![p].next = e]
            h3 == [h2 EXCEPT ![n].prev = e]
<1>1. h1 \in [N -> Ptr]
  BY DEF Heaps
<1>2. ASSUME h1 \in [N -> Ptr] PROVE h2 \in [N -> Ptr]
  <2>. HIDE DEF h1
  <2>. QED
    BY <1>2
<1>3. ASSUME h2 \in [N -> Ptr] PROVE h3 \in [N -> Ptr]
  <2>. HIDE DEF h2
  <2>. QED
    BY <1>3
<1>4. ListInsert(heap, e, p, n) = h3
  BY DEF ListInsert
<1>. HIDE DEF h3
<1>. QED
  BY <1>1, <1>2, <1>3, <1>4 DEF Heaps

\* So does ListAddTail, whatever the anchor's pointers are worth.
LEMMA AddTailTyped ==
  ASSUME NEW N, NEW heap \in Heaps(N), NEW e \in N, NEW a \in N
  PROVE  ListAddTail(heap, e, a) \in Heaps(N)
<1>1. heap[a].prev \in N \cup {NIL}
  BY DEF Heaps
<1>. QED
  BY <1>1, InsertTyped DEF ListAddTail

\* And ListDel, of a node whose two neighbours it can dereference.
LEMMA DelTyped ==
  ASSUME NEW N, NEW heap \in Heaps(N), NEW e \in N
  PROVE  ListDel(heap, e) \in Heaps(N)
  BY DEF Heaps, ListDel, Unlinked

\* InitListHead makes a one-node ring and leaves every other node alone.
LEMMA InitLinked ==
  ASSUME NEW N, NEW heap \in Heaps(N), NEW x \in N
  PROVE  /\ Linked(InitListHead(heap, x), {x})
         /\ \A y \in N \ {x} : InitListHead(heap, x)[y] = heap[y]
  BY DEF Heaps, InitListHead, Linked

\* ListAddTail of a node that is not in the ring keeps the ring well linked and
\* leaves the nodes outside it alone.
LEMMA AddTailLinked ==
  ASSUME NEW N, NEW heap \in Heaps(N), NIL \notin N,
         NEW R \in SUBSET N, NEW a \in R, NEW e \in N \ R, Linked(heap, R)
  PROVE  /\ Linked(ListAddTail(heap, e, a), R \cup {e})
         /\ \A y \in N \ (R \cup {e}) : ListAddTail(heap, e, a)[y] = heap[y]
<1>. DEFINE p == heap[a].prev
            h2 == ListAddTail(heap, e, a)
<1>1. p \in R /\ heap[p].next = a
  BY DEF Linked
<1>2. /\ \A y \in N : y \notin {e, p, a} => h2[y] = heap[y]
      /\ h2[e] = [prev |-> p, next |-> a]
      /\ h2[p].next = e /\ h2[a].prev = e
      /\ p # a => h2[p].prev = heap[p].prev
      /\ p # a => h2[a].next = heap[a].next
      /\ p = a => heap[a].next = a /\ h2[a].next = e
  <2>. DEFINE h1 == [heap EXCEPT ![e] = [prev |-> p, next |-> a]]
  <2>1. h2 = [h1 EXCEPT ![p].next = e, ![a].prev = e]
    BY DEF ListAddTail, ListInsert
  <2>2. /\ h1 \in Heaps(N) /\ h1[e] = [prev |-> p, next |-> a]
        /\ \A y \in N \ {e} : h1[y] = heap[y]
    BY <1>1 DEF Heaps
  <2>3. p \in N \ {e} /\ a \in N \ {e} /\ (p = a => heap[a].next = a)
    BY <1>1
  <2>. HIDE DEF h1, h2, p
  <2>. QED
    BY <2>1, <2>2, <2>3 DEF Heaps
<1>3. ASSUME NEW x \in R \cup {e}
      PROVE  /\ h2[x].next \in R \cup {e} /\ h2[h2[x].next].prev = x
             /\ h2[x].prev \in R \cup {e} /\ h2[h2[x].prev].next = x
  <2>. HIDE DEF h2, p
  <2>1. CASE x = e
    BY <2>1, <1>1, <1>2
  <2>2. CASE x = p /\ p = a
    BY <2>2, <1>1, <1>2
  <2>3. CASE x = p /\ p # a
    BY <2>3, <1>1, <1>2 DEF Linked
  <2>4. CASE x = a /\ p # a
    BY <2>4, <1>1, <1>2 DEF Linked
  <2>5. CASE x \notin {e, p, a}
    BY <2>5, <1>1, <1>2 DEF Linked
  <2>. QED
    BY <2>1, <2>2, <2>3, <2>4, <2>5
<1>4. Linked(h2, R \cup {e})
  BY <1>3 DEF Linked
<1>. QED
  BY <1>1, <1>2, <1>4

\* ListAdd (list.go:29) links the node behind the anchor, which is where ListAddTail
\* of the anchor's successor links it.
LEMMA AddLinked ==
  ASSUME NEW N, NEW heap \in Heaps(N), NIL \notin N,
         NEW R \in SUBSET N, NEW a \in R, NEW e \in N \ R, Linked(heap, R)
  PROVE  /\ ListAdd(heap, e, a) \in Heaps(N)
         /\ Linked(ListAdd(heap, e, a), R \cup {e})
         /\ \A y \in N \ (R \cup {e}) : ListAdd(heap, e, a)[y] = heap[y]
         /\ ListAdd(heap, e, a)[e].next = heap[a].next
         /\ \A y \in N \ {e, a} : ListAdd(heap, e, a)[y].next = heap[y].next
<1>. DEFINE n == heap[a].next
            h1 == [heap EXCEPT ![e] = [prev |-> a, next |-> n]]
<1>1. n \in R /\ n \in N /\ heap[n].prev = a /\ n # e /\ a # e /\ a \in N
  BY DEF Linked
<1>2. ListAdd(heap, e, a) = ListAddTail(heap, e, n)
  BY <1>1 DEF ListAdd, ListAddTail
<1>3. /\ h1 \in Heaps(N) /\ h1[e].next = n /\ \A y \in N \ {e} : h1[y] = heap[y]
      /\ ListAdd(heap, e, a) = [h1 EXCEPT ![a].next = e, ![n].prev = e]
  BY <1>1 DEF Heaps, ListAdd, ListInsert
<1>. HIDE DEF n, h1
<1>4. /\ ListAdd(heap, e, a)[e].next = n
      /\ \A y \in N \ {e, a} : ListAdd(heap, e, a)[y].next = heap[y].next
  BY <1>1, <1>3 DEF Heaps
<1>5. ListAdd(heap, e, a) \in Heaps(N)
  BY <1>1, <1>2, AddTailTyped
<1>6. /\ Linked(ListAddTail(heap, e, n), R \cup {e})
      /\ \A y \in N \ (R \cup {e}) : ListAddTail(heap, e, n)[y] = heap[y]
  <2>1. /\ heap \in Heaps(N) /\ NIL \notin N /\ R \in SUBSET N /\ n \in R
        /\ e \in N \ R /\ Linked(heap, R)
    BY <1>1
  <2>. QED
    BY <2>1, AddTailLinked
<1>. QED
  BY <1>2, <1>4, <1>5, <1>6 DEF n

\* ListDel of a node of the ring that is not the anchor keeps the rest of the
\* ring well linked, and does not dereference nil.
LEMMA DelLinked ==
  ASSUME NEW N, NEW heap \in Heaps(N), NIL \notin N,
         NEW R \in SUBSET N, NEW e \in R, heap[e].next # e, Linked(heap, R)
  PROVE  /\ ~ListDelPanics(heap, e)
         /\ Linked(ListDel(heap, e), R \ {e})
         /\ \A y \in N \ R : ListDel(heap, e)[y] = heap[y]
<1>. DEFINE p == heap[e].prev
            n == heap[e].next
            h2 == ListDel(heap, e)
<1>1. /\ p \in R /\ n \in R /\ heap[p].next = e /\ heap[n].prev = e
      /\ p # e /\ n # e
  BY DEF Linked
<1>2. /\ \A y \in N : y \notin {e, p, n} => h2[y] = heap[y]
      /\ h2[p].next = n /\ h2[n].prev = p
      /\ p # n => h2[p].prev = heap[p].prev
      /\ p # n => h2[n].next = heap[n].next
  BY <1>1 DEF Heaps, ListDel, Unlinked
<1>3. ASSUME NEW x \in R \ {e}
      PROVE  /\ h2[x].next \in R \ {e} /\ h2[h2[x].next].prev = x
             /\ h2[x].prev \in R \ {e} /\ h2[h2[x].prev].next = x
  <2>. HIDE DEF h2, p, n
  <2>1. CASE x = p /\ p = n
    BY <2>1, <1>1, <1>2
  <2>2. CASE x = p /\ p # n
    BY <2>2, <1>1, <1>2 DEF Linked
  <2>3. CASE x = n /\ p # n
    BY <2>3, <1>1, <1>2 DEF Linked
  <2>4. CASE x \notin {p, n}
    BY <2>4, <1>1, <1>2 DEF Linked, p, n
  <2>. QED
    BY <2>1, <2>2, <2>3, <2>4
<1>4. Linked(h2, R \ {e})
  BY <1>3 DEF Linked
<1>5. ~ListDelPanics(heap, e)
  BY <1>1 DEF ListDelPanics
<1>. QED
  BY <1>1, <1>2, <1>4, <1>5

\* Only the predecessor of a deleted node gets another successor: the deleted node's.
LEMMA DelNexts ==
  ASSUME NEW N, NEW heap \in Heaps(N), NEW e \in N,
         heap[e].prev \in N \ {e}, heap[e].next \in N \ {e}
  PROVE  /\ ListDel(heap, e)[heap[e].prev].next = heap[e].next
         /\ \A y \in N \ {e, heap[e].prev} : ListDel(heap, e)[y].next = heap[y].next
<1>. DEFINE p == heap[e].prev
            n == heap[e].next
            h1 == [heap EXCEPT ![p].next = n]
<1>1. /\ h1 \in Heaps(N) /\ h1[p].next = n /\ \A y \in N \ {p} : h1[y] = heap[y]
      /\ ListDel(heap, e) = [h1 EXCEPT ![n].prev = p, ![e] = Unlinked]
      /\ p \in N \ {e} /\ n \in N \ {e}
  BY DEF Heaps, ListDel
<1>. HIDE DEF p, n, h1
<1>2. \A y \in N \ {e} : ListDel(heap, e)[y].next = h1[y].next
  BY <1>1 DEF Heaps
<1>. QED
  BY <1>1, <1>2 DEF p, n

\* BhBalloon hands ListAddTail a head that is the tail already: the head ends up
\* its own neighbour on both sides, and the anchor is no longer behind it.
LEMMA RelinkTail ==
  ASSUME NEW N, NEW heap \in Heaps(N), NEW R \in SUBSET N, Linked(heap, R),
         NEW a \in R, NEW e \in R \ {a}, heap[a].prev = e
  PROVE  /\ ListAddTail(heap, e, a)[e] = [prev |-> e, next |-> e]
         /\ ~Linked(ListAddTail(heap, e, a), R)
<1>. DEFINE h2 == ListAddTail(heap, e, a)
<1>1. h2[e] = [prev |-> e, next |-> e] /\ h2[a].prev = e
  BY DEF Heaps, ListAddTail, ListInsert
<1>2. h2[h2[a].prev].next # a
  BY <1>1
<1>. QED
  BY <1>1, <1>2 DEF Linked
----------------------------------------------------------------------------
(***************************************************************************)
(* What taking an element out of a sequence, or putting one in, does to the *)
(* others' positions, the least element of a set of numbers, and the slice *)
(* expressions of Go.                                                      *)
(***************************************************************************)

\* A set of natural numbers has a least element.
LEMMA MinNat ==
  ASSUME NEW D, D \subseteq Nat, D # {}
  PROVE  \E m \in D : \A n \in D : m <= n
<1>. DEFINE R == OpToRel(<, Nat)
<1>1. \A m, n \in D : n < m => <<n, m>> \in R
  BY DEF OpToRel
<1>2. IsWellFoundedOn(R, Nat)
  BY NatLessThanWellFounded
<1>. HIDE DEF R
<1>3. PICK m \in D : \A n \in D : ~(<<n, m>> \in R)
  BY <1>2, WFMin
<1>4. ASSUME NEW n \in D PROVE m <= n
  <2>1. ~(n < m)
    BY <1>1, <1>3, Zenon
  <2>. QED
    BY <2>1
<1>. QED
  BY <1>4

\* The elements behind the one that is taken out move up (ListDel on the ring of
\* blocks, seen as a sequence).
LEMMA RemoveProps ==
  ASSUME NEW S, NEW s \in Seq(S), NEW i \in 1..Len(s)
  PROVE  /\ RemoveAt(s, i) \in Seq(S)
         /\ Len(RemoveAt(s, i)) = Len(s) - 1
         /\ \A j \in 1..(i - 1) : RemoveAt(s, i)[j] = s[j]
         /\ \A j \in i..(Len(s) - 1) : RemoveAt(s, i)[j] = s[j + 1]
<1>. DEFINE a == SubSeq(s, 1, i - 1)
            c == SubSeq(s, i + 1, Len(s))
<1>1. /\ a \in Seq(S) /\ Len(a) = i - 1
      /\ \A j \in 1..(i - 1) : a[j] = s[j]
  BY SubSeqProperties
<1>2. /\ c \in Seq(S) /\ Len(c) = Len(s) - i
      /\ \A j \in 1..(Len(s) - i) : c[j] = s[i + j]
  BY SubSeqProperties
<1>. HIDE DEF a, c
<1>3. /\ a \o c \in Seq(S)
      /\ Len(a \o c) = Len(a) + Len(c)
      /\ \A j \in 1..(Len(a) + Len(c)) :
           (a \o c)[j] = IF j <= Len(a) THEN a[j] ELSE c[j - Len(a)]
  BY <1>1, <1>2, ConcatProperties
<1>4. RemoveAt(s, i) = a \o c
  BY DEF RemoveAt, a, c
<1>5. Len(s) \in Nat
  OBVIOUS
<1>6. ASSUME NEW j \in 1..(i - 1) PROVE (a \o c)[j] = s[j]
  BY <1>1, <1>2, <1>3, <1>5
<1>7. ASSUME NEW j \in i..(Len(s) - 1) PROVE (a \o c)[j] = s[j + 1]
  <2>1. (a \o c)[j] = c[j - (i - 1)]
    BY <1>1, <1>2, <1>3, <1>5
  <2>2. j - (i - 1) \in 1..(Len(s) - i) /\ i + (j - (i - 1)) = j + 1
    BY <1>5
  <2>. QED
    BY <1>2, <2>1, <2>2
<1>8. Len(a \o c) = Len(s) - 1
  BY <1>1, <1>2, <1>3, <1>5
<1>. QED
  BY <1>3, <1>4, <1>6, <1>7, <1>8

\* The elements from the new one's position on move down (__ListAdd on the ring
\* of blocks, seen as a sequence).
LEMMA InsertProps ==
  ASSUME NEW S, NEW s \in Seq(S), NEW i \in 1..(Len(s) + 1), NEW e \in S
  PROVE  /\ InsertAt(s, i, e) \in Seq(S)
         /\ Len(InsertAt(s, i, e)) = Len(s) + 1
         /\ \A j \in 1..(i - 1) : InsertAt(s, i, e)[j] = s[j]
         /\ InsertAt(s, i, e)[i] = e
         /\ \A j \in (i + 1)..(Len(s) + 1) : InsertAt(s, i, e)[j] = s[j - 1]
<1>. DEFINE a == SubSeq(s, 1, i - 1)
            c == SubSeq(s, i, Len(s))
            ae == a \o <<e>>
<1>1. /\ a \in Seq(S) /\ Len(a) = i - 1
      /\ \A j \in 1..(i - 1) : a[j] = s[j]
  BY SubSeqProperties
<1>2. /\ c \in Seq(S) /\ Len(c) = Len(s) - i + 1
      /\ \A j \in 1..(Len(s) - i + 1) : c[j] = s[i + j - 1]
  BY SubSeqProperties
<1>. HIDE DEF a, c
<1>3. <<e>> \in Seq(S) /\ Len(<<e>>) = 1 /\ <<e>>[1] = e
  OBVIOUS
<1>4. /\ ae \in Seq(S) /\ Len(ae) = i
      /\ \A j \in 1..(i - 1) : ae[j] = s[j]
      /\ ae[i] = e
  <2>1. /\ ae \in Seq(S) /\ Len(ae) = Len(a) + Len(<<e>>)
        /\ \A j \in 1..(Len(a) + Len(<<e>>)) :
             ae[j] = IF j <= Len(a) THEN a[j] ELSE <<e>>[j - Len(a)]
    BY <1>1, <1>3, ConcatProperties
  <2>. QED
    BY <1>1, <1>3, <2>1
<1>. HIDE DEF ae
<1>5. /\ ae \o c \in Seq(S)
      /\ Len(ae \o c) = Len(ae) + Len(c)
      /\ \A j \in 1..(Len(ae) + Len(c)) :
           (ae \o c)[j] = IF j <= Len(ae) THEN ae[j] ELSE c[j - Len(ae)]
  BY <1>2, <1>4, ConcatProperties
<1>6. InsertAt(s, i, e) = ae \o c
  BY DEF InsertAt, a, c, ae
<1>7. Len(s) \in Nat
  OBVIOUS
<1>8. Len(ae \o c) = Len(s) + 1
  BY <1>2, <1>4, <1>5, <1>7
<1>9. ASSUME NEW j \in 1..i PROVE (ae \o c)[j] = ae[j]
  BY <1>2, <1>4, <1>5, <1>7
<1>10. ASSUME NEW j \in (i + 1)..(Len(s) + 1) PROVE (ae \o c)[j] = s[j - 1]
  <2>1. (ae \o c)[j] = c[j - i]
    BY <1>2, <1>4, <1>5, <1>7
  <2>2. j - i \in 1..(Len(s) - i + 1) /\ i + (j - i) - 1 = j - 1
    BY <1>7
  <2>. QED
    BY <1>2, <2>1, <2>2
<1>11. \A j \in 1..(i - 1) : j \in 1..i
  OBVIOUS
<1>. QED
  BY <1>4, <1>5, <1>6, <1>8, <1>9, <1>10, <1>11

LEMMA SeqOfFcn ==
  ASSUME NEW S, NEW n \in Nat, NEW f \in [1..n -> S]
  PROVE  f \in Seq(S) /\ Len(f) = n
  BY SeqDef

\* The elements [a, b) of a sequence, counting from 0 as a Go slice expression does.
Cells(s, a, b) == SubSeq(s, a + 1, b)
IsCut(S, s, a, b) ==
  /\ Cells(s, a, b) \in Seq(S)
  /\ Len(Cells(s, a, b)) = IF a <= b THEN b - a ELSE 0
  /\ \A k \in 1..(b - a) : Cells(s, a, b)[k] = s[a + k]

LEMMA CutCells ==
  ASSUME NEW S, NEW s \in Seq(S), NEW a \in Nat, NEW b \in Nat, b <= Len(s)
  PROVE  IsCut(S, s, a, b)
<1>. DEFINE t == SubSeq(s, a + 1, b)
<1>1. a + 1 \in Int /\ b \in Int /\ Len(s) \in Nat /\ \A i \in (a + 1)..b : s[i] \in S
  OBVIOUS
<1>2. /\ t \in Seq(S) /\ Len(t) = (IF a + 1 <= b THEN b - (a + 1) + 1 ELSE 0)
      /\ \A k \in 1..(b - (a + 1) + 1) : t[k] = s[a + 1 + k - 1]
  BY <1>1, SubSeqProperties
<1>. HIDE DEF t
<1>3. Len(t) = IF a <= b THEN b - a ELSE 0
  BY <1>2
<1>4. ASSUME NEW k \in 1..(b - a) PROVE t[k] = s[a + k]
  <2>1. k \in 1..(b - (a + 1) + 1) /\ a + 1 + k - 1 = a + k
    OBVIOUS
  <2>. QED
    BY <1>2, <2>1
<1>5. Cells(s, a, b) = t
  BY DEF Cells, t
<1>. QED
  BY <1>2, <1>3, <1>4, <1>5 DEF IsCut

LEMMA FirstCells ==
  ASSUME NEW S, NEW s \in Seq(S), NEW n \in Nat, n <= Len(s)
  PROVE  /\ Cells(s, 0, n) \in Seq(S) /\ Len(Cells(s, 0, n)) = n
         /\ \A k \in 1..n : Cells(s, 0, n)[k] = s[k]
<1>. DEFINE a == Cells(s, 0, n)
<1>1. IsCut(S, s, 0, n)
  <2>1. 0 \in Nat
    OBVIOUS
  <2>. QED
    BY <2>1, CutCells
<1>2. /\ a \in Seq(S) /\ Len(a) = (IF 0 <= n THEN n - 0 ELSE 0)
      /\ \A k \in 1..(n - 0) : a[k] = s[0 + k]
  BY <1>1, Zenon DEF IsCut
<1>. HIDE DEF a
<1>3. a \in Seq(S) /\ Len(a) = n /\ \A k \in 1..n : a[k] = s[k]
  BY <1>2
<1>. QED
  BY <1>3 DEF a

\* buf with d copied over it from element i on, as copy(buf[i:], d) does.
Patch(buf, i, d) == Cells(buf, 0, i) \o d \o Cells(buf, i + Len(d), Len(buf))
IsPatch(S, buf, i, d) ==
  /\ Patch(buf, i, d) \in Seq(S) /\ Len(Patch(buf, i, d)) = Len(buf)
  /\ \A k \in 1..Len(buf) :
       Patch(buf, i, d)[k] = IF k \in (i + 1)..(i + Len(d)) THEN d[k - i] ELSE buf[k]

LEMMA PatchCells ==
  ASSUME NEW S, NEW buf \in Seq(S), NEW d \in Seq(S), NEW i \in Nat, i + Len(d) <= Len(buf)
  PROVE  IsPatch(S, buf, i, d)
<1>. DEFINE a == Cells(buf, 0, i)
            z == Cells(buf, i + Len(d), Len(buf))
<1>1. Len(buf) \in Nat /\ Len(d) \in Nat /\ i <= Len(buf)
  OBVIOUS
<1>2. /\ a \in Seq(S) /\ Len(a) = i /\ \A k \in 1..i : a[k] = buf[k]
  BY <1>1, FirstCells, Zenon
<1>3. /\ z \in Seq(S) /\ Len(z) = Len(buf) - (i + Len(d))
      /\ \A k \in 1..(Len(buf) - (i + Len(d))) : z[k] = buf[i + Len(d) + k]
  <2>1. i + Len(d) \in Nat /\ Len(buf) \in Nat /\ Len(buf) <= Len(buf)
    BY <1>1
  <2>2. /\ z \in Seq(S)
        /\ Len(z) = (IF i + Len(d) <= Len(buf) THEN Len(buf) - (i + Len(d)) ELSE 0)
        /\ \A k \in 1..(Len(buf) - (i + Len(d))) : z[k] = buf[i + Len(d) + k]
    BY <2>1, CutCells, Zenon DEF IsCut
  <2>. HIDE DEF z
  <2>. QED
    BY <2>2
<1>. HIDE DEF a, z
<1>. DEFINE ad == a \o d
            r  == ad \o z
<1>4. /\ ad \in Seq(S) /\ Len(ad) = i + Len(d)
      /\ \A k \in 1..(i + Len(d)) : ad[k] = IF k <= i THEN a[k] ELSE d[k - i]
  <2>1. /\ ad \in Seq(S) /\ Len(ad) = Len(a) + Len(d)
        /\ \A k \in 1..(Len(a) + Len(d)) :
             ad[k] = IF k <= Len(a) THEN a[k] ELSE d[k - Len(a)]
    BY <1>2, ConcatProperties
  <2>. HIDE DEF ad
  <2>. QED
    BY <1>2, <2>1
<1>. HIDE DEF ad
<1>5. /\ r \in Seq(S) /\ Len(r) = Len(ad) + Len(z)
      /\ \A k \in 1..(Len(ad) + Len(z)) :
           r[k] = IF k <= Len(ad) THEN ad[k] ELSE z[k - Len(ad)]
  <2>1. ad \in Seq(S) /\ z \in Seq(S)
    BY <1>3, <1>4
  <2>. QED
    BY <2>1, ConcatProperties, Zenon
<1>. HIDE DEF r
<1>6. Len(r) = Len(buf) /\ Len(ad) = i + Len(d) /\ Len(ad) + Len(z) = Len(buf)
  BY <1>1, <1>3, <1>4, <1>5
<1>7. ASSUME NEW k \in 1..Len(buf)
      PROVE  r[k] = IF k \in (i + 1)..(i + Len(d)) THEN d[k - i] ELSE buf[k]
  <2>1. CASE k <= i + Len(d)
    <3>1. k \in 1..(i + Len(d)) /\ r[k] = ad[k]
      BY <1>1, <1>5, <1>6, <2>1
    <3>. QED
      BY <1>1, <1>2, <1>4, <2>1, <3>1
  <2>2. CASE k > i + Len(d)
    <3>1. r[k] = z[k - (i + Len(d))]
      BY <1>1, <1>5, <1>6, <2>2
    <3>2. /\ k - (i + Len(d)) \in 1..(Len(buf) - (i + Len(d)))
          /\ i + Len(d) + (k - (i + Len(d))) = k
      BY <1>1, <2>2
    <3>. QED
      BY <1>1, <1>3, <2>2, <3>1, <3>2
  <2>. QED
    BY <1>1, <2>1, <2>2
<1>8. Patch(buf, i, d) = r
  BY DEF Patch, r, ad, a, z
<1>. QED
  BY <1>5, <1>6, <1>7, <1>8 DEF IsPatch
=============================================================================
