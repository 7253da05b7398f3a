--------------------------- MODULE MCLightEngine ----------------------------
(* A row of chunks of one column, as many as there are names, and two        *)
(* levels.  Lamp is as opaque as it is bright (glowstone), Torch lets light  *)
(* through, Leaves dims by one and Water by two.                             *)
EXTENDS LightEngine

Lamp == 89
Torch == 50
Leaves == 18
Water == 8

At(id) == [id |-> id, data |-> 0]

MCOpacity == [id \in 0..255 |-> CASE id = Lamp   -> MaxLight
                                  [] id = Leaves -> 1
                                  [] id = Water  -> 2
                                  [] OTHER       -> 0]
MCEmission == [id \in 0..255 |-> CASE id = Lamp  -> MaxLight
                                   [] id = Torch -> MaxLight - 1
                                   [] OTHER      -> 0]
MCBlocks == {Air, At(Lamp), At(Torch), At(Water)}

\* Cells above each other, and cells of the same level in the two chunks.
MCBeside == [p \in Cell |-> {q \in Cell :
    \/ q.chunk = p.chunk /\ q.column = p.column /\ (q.y = p.y + 1 \/ q.y = p.y - 1)
    \/ q.chunk # p.chunk /\ q.y = p.y}]
=============================================================================
