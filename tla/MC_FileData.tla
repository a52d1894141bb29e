---------------------------- MODULE MC_FileData ----------------------------
(***************************************************************************)
(* A small instance: blocks of two cells, files whose cells tell where they *)
(* stood.                                                                   *)
(***************************************************************************)
EXTENDS FileData

File == <<"s1", "s2", "s3", "s4", "s5", "s6", "s7", "s8">>
MCSource == {SubSeq(File, 1, n) : n \in {0, 1, 3, 5, 8}}
MCImage == <<"old", "old", "old", "old", "old", "old">>
=============================================================================
