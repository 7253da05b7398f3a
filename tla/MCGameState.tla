---------------------------- MODULE MCGameState -----------------------------
(* Two chunks of one column and one level, so that every chunk can come and  *)
(* go with one block: the chunk of the spawn is in the generated world of    *)
(* seed 1, the other one is not.                                             *)
EXTENDS GameState

Stone == [id |-> 1, data |-> 0]
Water == [id |-> 8, data |-> 0]
AirWithData == [id |-> 0, data |-> 5]

MCTerrain == [s \in Seeds |-> [p \in Cell |->
                 IF p.chunk = SpawnChunk THEN Stone ELSE Air]]
MCBlocks == {Air, AirWithData, Water}
MCPlayBlocks == {Air, Stone}
MCItems == {Stone}
MCPlayDefaults == [s \in Slots |-> IF s = 0 THEN Stone ELSE Air]
MCBoxes == {{}, Cell}
MCDefaults == [s \in Slots |-> Water]
=============================================================================
