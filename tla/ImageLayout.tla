----------------------------- MODULE ImageLayout -----------------------------
(***************************************************************************)
(* What the buffer manager promises about the image, without lists, heads  *)
(* or types: blocks are given room in the order they are mapped, each      *)
(* behind everything before it; room once given is never moved, shortened  *)
(* or given to another block; only the room that ends at the tail grows.   *)
(***************************************************************************)
EXTENDS Integers

CONSTANTS
  Block,        \* the blocks that may be given room
  NoRoom,       \* room[b] before that
  First         \* the block of the image where the first room begins

VARIABLES
  room,         \* room[b] = [at, n]: n blocks of the image from block at on
  end           \* where the next room will begin

HasRoom(b) == room[b] # NoRoom

Init ==
  /\ room = [b \in Block |-> NoRoom]
  /\ end = First

\* A block gets the room from the end on, perhaps none.
Give(b) ==
  /\ ~HasRoom(b)
  /\ end' \in Nat /\ end' >= end
  /\ room' = [room EXCEPT ![b] = [at |-> end, n |-> end' - end]]

\* The room at the end grows.
Extend(b) ==
  /\ HasRoom(b) /\ room[b].at + room[b].n = end
  /\ end' \in Nat /\ end' >= end
  /\ room' = [room EXCEPT ![b].n = end' - room[b].at]

\* The process ends and a new one will start from nothing.
Forget ==
  /\ room' = [b \in Block |-> NoRoom]
  /\ end' = First

Next ==
  \/ \E b \in Block : Give(b) \/ Extend(b)
  \/ Forget

Spec == Init /\ [][Next]_<<room, end>>
=============================================================================
