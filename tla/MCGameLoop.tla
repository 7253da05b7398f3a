----------------------------- MODULE MCGameLoop -----------------------------
(* The world and the player of MCPhysics.  A tick is two units of time: a    *)
(* call may bring less than a tick, more than one, and more than the two     *)
(* that are caught up.                                                       *)
EXTENDS MCPhysics, GameLoop
=============================================================================
