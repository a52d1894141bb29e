--------------------------- MODULE IntrusiveList ---------------------------
(***************************************************************************)
(* The circular intrusive list of pkg/types/list.go.  A ListHead is a node *)
(* with two pointers; a list is a ring of nodes, one of which (the anchor) *)
(* stands for the list itself.  A heap maps every node to its pointers, so *)
(* an operation is a function from heaps to heaps, and a node that is      *)
(* linked twice, or unlinked while others still point at it, is a heap     *)
(* like any other.                                                         *)
(***************************************************************************)
EXTENDS Integers, Sequences

CONSTANT NIL            \* the nil pointer

Unlinked == [prev |-> NIL, next |-> NIL]

\* The heaps over a set of nodes.
Heaps(N) == [N -> [prev : N \cup {NIL}, next : N \cup {NIL}]]

\* InitListHead: the node is a ring of its own.
InitListHead(heap, x) == [heap EXCEPT ![x] = [prev |-> x, next |-> x]]

\* __ListAdd: entry's own pointers are written before its neighbours', so an
\* entry that is its own neighbour ends up pointing at itself.
ListInsert(heap, entry, prev, next) ==
  [heap EXCEPT ![entry] = [prev |-> prev, next |-> next],
               ![prev].next = entry,
               ![next].prev = entry]

ListAdd(heap, entry, head)     == ListInsert(heap, entry, head, heap[head].next)
ListAddTail(heap, entry, head) == ListInsert(heap, entry, heap[head].prev, head)

\* ListDel dereferences both neighbours before it clears the entry.
ListDelPanics(heap, entry) == NIL \in {heap[entry].prev, heap[entry].next}

\* (BUG_...: see BufMgr.)
BUG_DelOneWay(heap, entry) ==
  [heap EXCEPT ![heap[entry].prev].next = heap[entry].next, ![entry] = Unlinked]
ListDel(heap, entry) ==
  [heap EXCEPT ![heap[entry].prev].next = heap[entry].next,
               ![heap[entry].next].prev = heap[entry].prev,
               ![entry] = Unlinked]

IsListEmpty(heap, head) == heap[head].next = head
----------------------------------------------------------------------------
(***************************************************************************)
(* What a correct ring is.                                                 *)
(***************************************************************************)

\* N is closed under the pointers and every link is mutual: the nodes of N
\* form one or more well-formed rings.
Linked(heap, N) ==
  \A x \in N : /\ heap[x].next \in N /\ heap[heap[x].next].prev = x
               /\ heap[x].prev \in N /\ heap[heap[x].prev].next = x
=============================================================================
