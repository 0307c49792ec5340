--------------------------- MODULE MCTableReplace ---------------------------
(* Instances of TableReplace for TLC: runs with many rows, few and none. *)
EXTENDS TableReplace

CONSTANTS r1, r2, r3, r4

MCChunks == [r \in {r1, r2, r3, r4} |->
                CASE r = r1 -> 2 [] r \in {r2, r3} -> 1 [] r = r4 -> 0]
MCOldRows == {<<"old", 1>>}
=============================================================================
