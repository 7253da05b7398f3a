----------------------------- MODULE ApiServer ------------------------------
(***************************************************************************)
(* ApiServer (api/ApiServer.cpp): the thread that calls start and stop,    *)
(* the worker thread that accepts one client at a time, cuts its bytes     *)
(* into lines, hands each line to the handler and sends the response back, *)
(* and the clients at the other end of the sockets.                        *)
(*                                                                         *)
(* A line travels as two pieces, its text and its newline, so that TCP can *)
(* cut it in the middle.  The handler is the log of what it was called     *)
(* with, and its response the position of the call in the log.             *)
(***************************************************************************)
EXTENDS Integers, Sequences, SequencesExt

CONSTANTS
    Clients,            \* the connections that are ever made
    Queries, Quiet,     \* lines the handler answers, and lines it does not
    Unparsed,           \* lines parse_command refuses
    NewLine, None,
    Backlog,            \* the backlog of listen: 4
    SendCapacity,       \* how many responses fit in a socket's buffers
    MaxLines,           \* a bound on the lines of each client
    MaxStarts,          \* a bound on the calls of start
    Patient,            \* clients that wait for their answers and do not close
    CloseWakesAccept    \* does closing the listener end an accept under way?

ASSUME PiecesAssumption ==
    /\ Queries \cap (Quiet \cup Unparsed) = {} /\ Quiet \cap Unparsed = {}
    /\ NewLine \notin Queries \cup Quiet \cup Unparsed
ASSUME BoundsAssumption ==
    /\ Backlog \in Nat /\ MaxLines \in [Clients -> Nat] /\ MaxStarts \in Nat
    /\ SendCapacity \in Nat \ {0}
    /\ Patient \subseteq Clients /\ None \notin Clients /\ CloseWakesAccept \in BOOLEAN

Commands == Queries \cup Quiet
Texts == Commands \cup Unparsed

VARIABLES
    owner,      \* the owner of the server: down, up, closing, joining
    starts,     \* how often start succeeded
    running,    \* is_running
    listener,   \* is the listening socket open?
    worker,     \* where run and handle_client are; off when there is no thread
    serving,    \* the client of handle_client
    pending,    \* the pieces received and not yet cut into lines
    response,   \* what the handler returned and send_all is sending
    log,        \* the calls of the handler
    backlog,    \* the connections that wait to be accepted
    link,       \* the client's view of its connection
    sent,       \* the pieces a client has sent
    received,   \* how many of them the server has received
    replies,    \* the responses the server has sent to a client
    read        \* how many of them the client has read

serverVars == <<owner, starts, running, listener>>
clientVars == <<backlog, link, sent, received, replies, read>>
vars == <<serverVars, worker, serving, pending, response, log, clientVars>>

Init ==
    /\ owner = "down" /\ starts = 0 /\ running = FALSE /\ listener = FALSE
    /\ worker = "off" /\ serving = None /\ pending = <<>> /\ response = None
    /\ log = <<>> /\ backlog = <<>>
    /\ link = [c \in Clients |-> "away"]
    /\ sent = [c \in Clients |-> <<>>] /\ received = [c \in Clients |-> 0]
    /\ replies = [c \in Clients |-> <<>>] /\ read = [c \in Clients |-> 0]

-----------------------------------------------------------------------------
(* The owner.  A start that finds the server running, no handler or no     *)
(* free port changes nothing and is left out, and so is a second stop.     *)

\* Connections the kernel resets when the listening socket goes away.
Reset(queued) == [c \in Clients |-> IF Contains(queued, c) /\ link[c] = "open"
                                    THEN "dropped" ELSE link[c]]

Start ==
    /\ owner = "down" /\ starts < MaxStarts
    /\ owner' = "up" /\ starts' = starts + 1
    /\ running' = TRUE /\ listener' = TRUE /\ worker' = "test"
    /\ UNCHANGED <<serving, pending, response, log, clientVars>>

\* stop: is_running.exchange(false) ...
BeginStop ==
    /\ owner = "up"
    /\ owner' = "closing" /\ running' = FALSE
    /\ UNCHANGED <<starts, listener, worker, serving, pending, response, log, clientVars>>

\* ... close_socket(listener): where a close does not end the accept under
\* way, the socket stays open until that accept returns ...
CloseListener ==
    /\ owner = "closing"
    /\ owner' = "joining" /\ listener' = FALSE
    /\ IF worker = "accept" /\ ~CloseWakesAccept
       THEN UNCHANGED <<backlog, link>>
       ELSE backlog' = <<>> /\ link' = Reset(backlog)
    /\ UNCHANGED <<starts, running, worker, serving, pending, response, log,
                   sent, received, replies, read>>

\* Mutant of Join: the thread is detached.
Detach ==
    /\ owner = "joining"
    /\ owner' = "down"
    /\ UNCHANGED <<starts, running, listener, worker, serving, pending, response, log,
                   clientVars>>

\* ... and worker.join().
Join ==
    /\ owner = "joining" /\ worker = "ended"
    /\ owner' = "down" /\ worker' = "off"
    /\ UNCHANGED <<starts, running, listener, serving, pending, response, log, clientVars>>

-----------------------------------------------------------------------------
(* The worker: run.                                                        *)

TestRunning ==
    /\ worker = "test"
    /\ worker' = IF running THEN "enter" ELSE "ended"
    /\ UNCHANGED <<serverVars, serving, pending, response, log, clientVars>>

\* accept blocks, or fails on a listener that was closed in the meantime.
EnterAccept ==
    /\ worker = "enter"
    /\ worker' = IF listener THEN "accept" ELSE IF running THEN "test" ELSE "ended"
    /\ UNCHANGED <<serverVars, serving, pending, response, log, clientVars>>

Accept ==
    /\ worker = "accept" /\ backlog # <<>>
    /\ worker' = "head" /\ serving' = Head(backlog)
    /\ IF listener THEN backlog' = Tail(backlog) /\ UNCHANGED link
       ELSE backlog' = <<>> /\ link' = Reset(Tail(backlog))
    /\ UNCHANGED <<serverVars, pending, response, log, sent, received, replies, read>>

AcceptFails ==
    /\ worker = "accept" /\ ~listener /\ CloseWakesAccept
    /\ worker' = IF running THEN "test" ELSE "ended"
    /\ UNCHANGED <<serverVars, serving, pending, response, log, clientVars>>

\* Mutant of HangUp: the socket of the client is not closed.
LeakSocket ==
    /\ worker = "hangup"
    /\ worker' = "test" /\ serving' = None /\ pending' = <<>> /\ response' = None
    /\ UNCHANGED <<serverVars, log, clientVars>>

\* Mutant of HangUp: what the client did not finish is left for the next one.
KeepPending ==
    /\ worker = "hangup"
    /\ worker' = "test" /\ serving' = None /\ response' = None
    /\ link' = [link EXCEPT ![serving] = IF @ = "open" THEN "dropped" ELSE @]
    /\ UNCHANGED <<serverVars, pending, log, backlog, sent, received, replies, read>>

\* handle_client has returned: close_socket(client), and pending ends its life.
HangUp ==
    /\ worker = "hangup"
    /\ worker' = "test" /\ serving' = None /\ pending' = <<>> /\ response' = None
    /\ link' = [link EXCEPT ![serving] = IF @ = "open" THEN "dropped" ELSE @]
    /\ UNCHANGED <<serverVars, log, backlog, sent, received, replies, read>>

-----------------------------------------------------------------------------
(* The worker: handle_client.                                              *)

OnTheWay(c) == Len(sent[c]) - received[c]

\* Mutant of TestRunningForClient: a client is served until it closes.
ServeForever ==
    /\ worker = "head"
    /\ worker' = "recv"
    /\ UNCHANGED <<serverVars, serving, pending, response, log, clientVars>>

TestRunningForClient ==
    /\ worker = "head"
    /\ worker' = IF running THEN "recv" ELSE "hangup"
    /\ UNCHANGED <<serverVars, serving, pending, response, log, clientVars>>

\* recv returns some of the bytes that are there.
Receive ==
    /\ worker = "recv"
    /\ \E n \in 1..OnTheWay(serving) :
          /\ pending' = pending \o SubSeq(sent[serving], received[serving] + 1,
                                          received[serving] + n)
          /\ received' = [received EXCEPT ![serving] = @ + n]
    /\ worker' = "lines"
    /\ UNCHANGED <<serverVars, serving, response, log, backlog, link, sent, replies, read>>

\* SO_RCVTIMEO has passed without a byte.
ReceiveTimesOut ==
    /\ worker = "recv" /\ OnTheWay(serving) = 0 /\ link[serving] = "open"
    /\ worker' = "head"
    /\ UNCHANGED <<serverVars, serving, pending, response, log, clientVars>>

\* The client has closed: the stream ends, or was reset with bytes on the way.
ReceiveEnds ==
    /\ worker = "recv" /\ link[serving] = "closed"
    /\ worker' = "hangup"
    /\ UNCHANGED <<serverVars, serving, pending, response, log, clientVars>>

\* The loop over the lines in pending: the first line is cut off and, when it
\* is a command, handled.
FirstNewLine == SelectInSeq(pending, LAMBDA piece : piece = NewLine)

HandleLine ==
    /\ worker = "lines" /\ FirstNewLine # 0
    /\ pending' = SubSeq(pending, FirstNewLine + 1, Len(pending))
    /\ LET line == SubSeq(pending, 1, FirstNewLine - 1)
       IN  IF Len(line) = 1 /\ line[1] \in Commands
           THEN /\ log' = Append(log, [client |-> serving, command |-> line[1]])
                /\ IF line[1] \in Queries
                   THEN worker' = "send" /\ response' = Len(log')
                   ELSE UNCHANGED <<worker, response>>
           ELSE UNCHANGED <<worker, response, log>>
    /\ UNCHANGED <<serverVars, serving, clientVars>>

\* Mutant of SendReply: one line is taken from each recv.
SendAndReceive ==
    /\ worker = "send"
    /\ Len(replies[serving]) - read[serving] < SendCapacity
    /\ replies' = [replies EXCEPT ![serving] = Append(@, response)]
    /\ worker' = "head" /\ response' = None
    /\ UNCHANGED <<serverVars, serving, pending, log, backlog, link, sent, received, read>>

NoMoreLines ==
    /\ worker = "lines" /\ FirstNewLine = 0
    /\ worker' = "head"
    /\ UNCHANGED <<serverVars, serving, pending, response, log, clientVars>>

\* send_all: it blocks while the buffers are full, and fails once the client
\* has gone, though a send that was on its way by then still succeeds.
SendReply ==
    /\ worker = "send"
    /\ Len(replies[serving]) - read[serving] < SendCapacity
    /\ replies' = [replies EXCEPT ![serving] = Append(@, response)]
    /\ worker' = "lines" /\ response' = None
    /\ UNCHANGED <<serverVars, serving, pending, log, backlog, link, sent, received, read>>

SendFails ==
    /\ worker = "send" /\ link[serving] = "closed"
    /\ worker' = "hangup"
    /\ UNCHANGED <<serverVars, serving, pending, response, log, clientVars>>

-----------------------------------------------------------------------------
(* The clients.                                                            *)

\* The kernel completes a connection as long as the listening socket exists.
Listening == listener \/ (worker = "accept" /\ ~CloseWakesAccept)

Connect(c) ==
    /\ link[c] = "away" /\ Listening /\ Len(backlog) < Backlog
    /\ link' = [link EXCEPT ![c] = "open"]
    /\ backlog' = Append(backlog, c)
    /\ UNCHANGED <<serverVars, worker, serving, pending, response, log,
                   sent, received, replies, read>>

InMidLine(c) == sent[c] # <<>> /\ Last(sent[c]) # NewLine

SendPiece(c) ==
    /\ link[c] = "open" /\ Len(sent[c]) < 2 * MaxLines[c]
    /\ \E piece \in IF InMidLine(c) THEN {NewLine} ELSE Texts :
          sent' = [sent EXCEPT ![c] = Append(@, piece)]
    /\ UNCHANGED <<serverVars, worker, serving, pending, response, log,
                   backlog, link, received, replies, read>>

Read(c) ==
    /\ link[c] = "open" /\ read[c] < Len(replies[c])
    /\ read' = [read EXCEPT ![c] = @ + 1]
    /\ UNCHANGED <<serverVars, worker, serving, pending, response, log,
                   backlog, link, sent, received, replies>>

Close(c) ==
    /\ link[c] = "open" /\ c \notin Patient
    /\ link' = [link EXCEPT ![c] = "closed"]
    /\ UNCHANGED <<serverVars, worker, serving, pending, response, log,
                   backlog, sent, received, replies, read>>

Owner == Start \/ BeginStop \/ CloseListener \/ Join
Worker == TestRunning \/ EnterAccept \/ Accept \/ AcceptFails \/ HangUp
          \/ TestRunningForClient \/ Receive \/ ReceiveTimesOut \/ ReceiveEnds
          \/ HandleLine \/ NoMoreLines \/ SendReply \/ SendFails
Client(c) == Connect(c) \/ SendPiece(c) \/ Read(c) \/ Close(c)

Next == Owner \/ Worker \/ \E c \in Clients : Client(c)

\* The worker runs whenever it can; a stop that has begun goes on; a client
\* reads what arrives, and one that is not Patient closes some day.
Fairness ==
    /\ WF_vars(Worker)
    /\ WF_vars(CloseListener) /\ WF_vars(Join)
    /\ \A c \in Clients : WF_vars(Read(c)) /\ WF_vars(Close(c))

Spec == Init /\ [][Next]_vars /\ Fairness

-----------------------------------------------------------------------------
\* Once stop has returned, the server holds no client: there is no thread
\* that could call the handler (it refers to the dispatcher and the mutex of
\* main, which go out of scope next), the socket of every client that was
\* accepted is closed, and none is left waiting.
StoppedLeavesNothing ==
    owner = "down" =>
        /\ worker = "off" /\ ~running /\ ~listener /\ backlog = <<>> /\ serving = None
        /\ \A c \in Clients : link[c] # "open"

\* The handler is not called after stop has returned.
SilentAfterStop == [][owner = "down" => UNCHANGED <<log, replies>>]_vars

CompleteLines(c) == [i \in 1..(Len(sent[c]) \div 2) |-> sent[c][2 * i - 1]]

Service == INSTANCE CommandService WITH
    submitted <- [c \in Clients |-> CompleteLines(c)]

\* However the bytes are cut by TCP, and whoever connects, closes or is
\* turned away meanwhile, the handler is called with the commands a client
\* completed, in order, each once, and a query is answered before the next
\* command of its client.
ImplementsCommandService == Service!Spec

\* stop returns, whatever the worker and the clients are at when it is called.
StopReturns == owner = "closing" ~> owner = "down"

QueriesOf(c) == SelectSeq(CompleteLines(c), LAMBDA line : line \in Queries)

\* A client that waits gets the answers to all the queries it has sent, also
\* the second of two that arrived together, unless the server is stopped.
QueriesAnswered ==
    \A c \in Patient : \A n \in 1..MaxLines[c] :
        (link[c] = "open" /\ Len(QueriesOf(c)) >= n) ~> (read[c] >= n \/ owner # "up")
=============================================================================
