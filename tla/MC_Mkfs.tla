------------------------------ MODULE MC_Mkfs ------------------------------
(***************************************************************************)
(* Small instances of the command.                                         *)
(***************************************************************************)
EXTENDS Mkfs

MCSlotSize == [t \in {"INODE", "XATTR", "DEVT"} |-> 1]

\* No image, or something else of more than one block.
MCOldFile == {<<>>, [i \in 1..5 |-> Old], [i \in 1..10 |-> Old]}

Line(is, n) == [is |-> is, blks |-> n]
\* No hints, hints that leave the cluster size alone, raise it, raise it too far or
\* past 32 bits, and a broken file.
MCHintFile == {<<>>, <<Line("skip", 1), Line("regex", 1)>>, <<Line("regex", 2)>>,
               <<Line("regex", 3), Line("regex", 2)>>, <<Line("regex", 2), Line("bad", 1)>>,
               <<Line("regex", 5)>>}
\* No compressor, the one there is, one it does not know, one with a level.
Opt(name, level) == [name |-> name, level |-> level]
MCAlg == {Opt("", -1), Opt("lz4", -1), Opt("lzma", -1), Opt("lz4", 3)}

\* The same, with hints that can be used, and an index without a configuration.
MCAnyHints == MCHintFile \cup {<<Line("good", 1)>>, <<Line("regex", 5), Line("index", 1)>>}
============================================================================
