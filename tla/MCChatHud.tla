----------------------------- MODULE MCChatHud ------------------------------
(* Three lines are kept and two shown, for one unit of time; the messages    *)
(* overfill the lines, and a world may get fewer or more messages than the   *)
(* cursor has counted before.                                                *)
EXTENDS ChatHud
=============================================================================
