---------------------------- MODULE MCBlockWorld ----------------------------
(* Two chunks with two columns of three levels.  Level 1 is never written,   *)
(* so a scan from level 2 to level 0 passes over air; -1 and 3 are outside.  *)
(* The third block is stored as air with the nibble 5.                       *)
EXTENDS BlockWorld, TLC

MCWriteLevels == {-1, 0, 2, 3}
MCWritten == {Air, [id |-> 1, data |-> 0], [id |-> 256, data |-> 21]}

Symmetry == Permutations(ChunkPos) \cup Permutations(Column)
=============================================================================
