----------------------------- MODULE MCPhysics ------------------------------
(* A world of 2 x 3 x 2 blocks of 3 units and a player of 2 x 5 x 2 units:   *)
(* the player can straddle two blocks along every axis and is less than two  *)
(* blocks tall, as in the program.  The places are one on the ground, one    *)
(* above and beside the world, one below it, and the moves go along one axis *)
(* and along three, farther than one block as well.                          *)
EXTENDS Physics

MCWorldSize == [x |-> 2, y |-> 3, z |-> 2]
MCBoxSize == [x |-> 2, y |-> 5, z |-> 2]
MCPlaces == {
    [x |-> 0, y |-> 0, z |-> 0],
    [x |-> -2, y |-> 7, z |-> 3],
    [x |-> 3, y |-> -1, z |-> 2]}
MCDeltas == {
    [x |-> 1, y |-> 0, z |-> 0],
    [x |-> -5, y |-> 1, z |-> 4],
    [x |-> 2, y |-> -2, z |-> -1]}
=============================================================================
