----------------------------- MODULE MCProgram ------------------------------
(* Before the first launch there is no file, a file of a world without       *)
(* terrain (any user of GameState::save can have written it), a level.dat    *)
(* under the name of a project file, or a file that is no world at all.      *)
EXTENDS Program

MCInitialFiles == {
    None,
    [format |-> "legacy", game |-> NoWorld],
    [format |-> "dat", game |-> New(0)],
    [format |-> "unknown", game |-> Damaged]}
=============================================================================
