---------------------------- MODULE MC_Fragments ----------------------------
(***************************************************************************)
(* A small instance: three files at a time, of every kind.                 *)
(***************************************************************************)
EXTENDS Fragments

CONSTANTS f1, f2, f3

\* A checksum takes one cell and an item two.
Plain(n) == [size |-> n, length |-> n, tail |-> 0, numbered |-> TRUE]
Files(a, b, c) == (f1 :> a) @@ (f2 :> b) @@ (f3 :> c)
Usual == Files(Plain(1), Plain(2), Plain(3))

All == [fragments |-> TRUE, all |-> TRUE, dedupe |-> "full", ctx |-> TRUE, hash |-> TRUE,
        stat |-> Usual]
MCSetting ==
  {All,
   \* a file whose end hashes elsewhere, and one that has become shorter
   [All EXCEPT !.stat = Files(Plain(2), [Plain(2) EXCEPT !.tail = 1],
                              [Plain(2) EXCEPT !.length = 1])],
   \* an empty file, and one whose inode has no number
   [All EXCEPT !.stat = Files(Plain(3), Plain(0), [Plain(1) EXCEPT !.numbered = FALSE])],
   [All EXCEPT !.dedupe = "off", !.stat = Files(Plain(2), [Plain(2) EXCEPT !.tail = 1],
                                                [Plain(2) EXCEPT !.length = 1])],
   [All EXCEPT !.ctx = FALSE],
   [All EXCEPT !.hash = FALSE],
   [All EXCEPT !.all = FALSE, !.dedupe = "inode"],
   [All EXCEPT !.fragments = FALSE]}
=============================================================================
