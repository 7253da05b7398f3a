---------------------------- MODULE MCApiServer ----------------------------
(* Two connections: one that may send a line or part of one and closes some  *)
(* day, and one that sends two lines and waits for its answers.              *)
EXTENDS ApiServer

MCMaxLines == [c \in Clients |-> IF c \in Patient THEN 2 ELSE 1]
=============================================================================
