------------------------------ MODULE MC_DevIo ------------------------------
(***************************************************************************)
(* A small instance of the device I/O: files and buffers whose cells tell  *)
(* where they came from.                                                   *)
(***************************************************************************)
EXTENDS DevIo

\* Nothing, or two cells of an image written before.
MCFirstFile == {<<>>, <<"old1", "old2">>}

\* A buffer as long as what is written from it (as in compress.go), or longer:
\* WriteSuperBlock's is a whole block for fewer cells.
MCBuffer == {<<"a", "b">>, <<"a", "b", "c">>}
MCDatum == {"zero", "old1", "old2", "a", "b", "c"}
=============================================================================
