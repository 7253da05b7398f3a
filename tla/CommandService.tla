--------------------------- MODULE CommandService ---------------------------
(***************************************************************************)
(* What the API server promises a client: the commands it submits are      *)
(* executed in order, each once and none that it did not finish; a query   *)
(* is answered before the client's next command is executed; and clients   *)
(* take turns, a client whose turn is over is not served again.  There are *)
(* no sockets, no buffers and no threads.                                  *)
(***************************************************************************)
EXTENDS Naturals, Sequences, FiniteSets

CONSTANTS Clients, Queries, Quiet, Unparsed

VARIABLES
    submitted,  \* the lines each client has completed
    log,        \* what was executed, by whom
    replies     \* the answers of each client: positions in log

vars == <<submitted, log, replies>>

\* What is on the log for a client, and the commands before one of its lines.
Executed(c) == {i \in 1..Len(log) : log[i].client = c}
Before(c, line) == {j \in 1..line - 1 : submitted[c][j] \in Queries \cup Quiet}
Asked(c) == {i \in 1..Len(log) : log[i].client = c /\ log[i].command \in Queries}
Answered(c) == {replies[c][i] : i \in 1..Len(replies[c])}

Init ==
    /\ submitted = [c \in Clients |-> <<>>]
    /\ log = <<>>
    /\ replies = [c \in Clients |-> <<>>]

Submit(c) ==
    /\ \E line \in Queries \cup Quiet \cup Unparsed :
          submitted' = [submitted EXCEPT ![c] = Append(@, line)]
    /\ UNCHANGED <<log, replies>>

Execute(c) ==
    /\ \E line \in 1..Len(submitted[c]) :
          /\ submitted[c][line] \in Queries \cup Quiet
          /\ Cardinality(Before(c, line)) = Cardinality(Executed(c))
          /\ log' = Append(log, [client |-> c, command |-> submitted[c][line]])
    /\ Executed(c) = {} \/ log[Len(log)].client = c
    /\ Asked(c) = Answered(c)
    /\ UNCHANGED <<submitted, replies>>

Answer(c) ==
    /\ \E i \in Asked(c) \ Answered(c) :
          replies' = [replies EXCEPT ![c] = Append(@, i)]
    /\ UNCHANGED <<submitted, log>>

Next == \E c \in Clients : Submit(c) \/ Execute(c) \/ Answer(c)

Spec == Init /\ [][Next]_vars
=============================================================================
