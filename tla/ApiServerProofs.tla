-------------------------- MODULE ApiServerProofs ---------------------------
(***************************************************************************)
(* Once stop has returned nothing of the server is left and nothing is     *)
(* handled, and the server implements CommandService: for any clients, any *)
(* lines, any way the bytes arrive and any moment of stop, on a system     *)
(* where closing the listener ends the accept under way and on one where   *)
(* it does not.                                                            *)
(***************************************************************************)
EXTENDS ApiServer, SequenceTheorems, FiniteSetTheorems, WellFoundedInduction, TLAPS

Pieces == Texts \cup {NewLine}
WithClient == {"head", "recv", "lines", "send", "hangup"}

TypeOK ==
    /\ owner \in {"down", "up", "closing", "joining"}
    /\ running \in BOOLEAN /\ listener \in BOOLEAN
    /\ worker \in {"off", "test", "enter", "accept", "ended"} \cup WithClient
    /\ serving \in Clients \cup {None}
    /\ pending \in Seq(Pieces)
    /\ log \in Seq([client : Clients, command : Commands])
    /\ backlog \in Seq(Clients)
    /\ link \in [Clients -> {"away", "open", "closed", "dropped"}]
    /\ sent \in [Clients -> Seq(Pieces)]
    /\ received \in [Clients -> Nat]
    /\ replies \in [Clients -> Seq(Nat)]

\* The thread exists while the server is not down, and is_running and the
\* listening socket follow the owner; only handle_client has a client.
Lifecycle ==
    /\ running <=> owner = "up"
    /\ listener <=> owner \in {"up", "closing"}
    /\ worker = "off" <=> owner = "down"
    /\ serving = None <=> worker \notin WithClient

\* A connection is held in one place, and none is left in the backlog once
\* the listener is closed, unless an accept under way keeps it open.
Connections ==
    /\ \A c \in Clients : link[c] = "open" => c = serving \/ Contains(backlog, c)
    /\ \A i \in 1..Len(backlog) :
          backlog[i] # serving /\ link[backlog[i]] \in {"open", "closed"}
    /\ \A i, j \in 1..Len(backlog) : backlog[i] = backlog[j] => i = j
    /\ serving # None => link[serving] # "away"
    /\ owner \in {"joining", "down"} /\ backlog # <<>> =>
          worker = "accept" /\ ~CloseWakesAccept

\* What a client sends: lines and newlines in turn.
Stream ==
    \A c \in Clients :
        /\ received[c] <= Len(sent[c])
        /\ \A i \in 1..Len(sent[c]) :
              IF i % 2 = 1 THEN sent[c][i] \in Texts ELSE sent[c][i] = NewLine

\* The pieces of the client that were cut into lines, and how many lines.
Consumed == received[serving] - Len(pending)
Handled == Consumed \div 2

\* What is pending is what was received last, from the start of a line on.
Cut ==
    /\ serving = None => pending = <<>>
    /\ serving # None =>
          /\ Consumed \in Nat /\ Consumed % 2 = 0
          /\ \A i \in 1..Len(pending) : pending[i] = sent[serving][Consumed + i]

\* The calls made for a client, and the commands among its first lines.
CallsOf(c) == {i \in 1..Len(log) : log[i].client = c}
QueriesAsked(c) == {i \in 1..Len(log) : log[i].client = c /\ log[i].command \in Queries}
AnswersTo(c) == {replies[c][i] : i \in 1..Len(replies[c])}
CommandsAmong(c, n) == {j \in 1..n : sent[c][2 * j - 1] \in Commands}

\* A client that is not served yet is a stranger to the handler.
Strangers ==
    \A c \in Clients :
        link[c] = "away" \/ Contains(backlog, c) =>
            received[c] = 0 /\ replies[c] = <<>> /\ CallsOf(c) = {}

\* Of the client that is served each command cut off so far was handled, and
\* no other client's since its first.
Turns ==
    serving # None =>
        /\ CallsOf(serving) = {} \/ log[Len(log)].client = serving
        /\ Cardinality(CallsOf(serving)) = Cardinality(CommandsAmong(serving, Handled))

\* Between two lines every query has its answer; while one is sent, all but
\* the last call.
Answers ==
    /\ worker \in {"head", "recv", "lines"} => QueriesAsked(serving) = AnswersTo(serving)
    /\ worker = "send" =>
          /\ response = Len(log)
          /\ response \in QueriesAsked(serving) \ AnswersTo(serving)
          /\ QueriesAsked(serving) = AnswersTo(serving) \cup {response}

Inv ==
    /\ TypeOK /\ Lifecycle /\ Connections /\ Stream /\ Cut
    /\ Strangers /\ Turns /\ Answers

-----------------------------------------------------------------------------
LEMMA InitHolds == Init => Inv
<1> SUFFICES ASSUME Init PROVE Inv
  OBVIOUS
<1> USE DEF Init
<1>1. TypeOK
  BY EmptySeq DEF TypeOK
<1>2. Lifecycle
  BY DEF Lifecycle, WithClient
<1>3. Connections
  BY DEF Connections, Contains
<1>4. Stream /\ Cut
  BY DEF Stream, Cut
<1>5. \A c \in Clients : CallsOf(c) = {}
  BY DEF CallsOf
<1>6. Strangers /\ Turns /\ Answers
  BY <1>5 DEF Strangers, Turns, Answers
<1>7. QED
  BY <1>1, <1>2, <1>3, <1>4, <1>6 DEF Inv

\* First the thread: who may run when.
LEMMA LifecycleStep == TypeOK /\ Lifecycle /\ [Next]_vars => Lifecycle'
<1> SUFFICES ASSUME TypeOK, Lifecycle, [Next]_vars PROVE Lifecycle'
  OBVIOUS
<1> USE DEF Lifecycle, WithClient
<1>1. CASE Start
  BY <1>1 DEF Start
<1>2. CASE BeginStop
  BY <1>2 DEF BeginStop
<1>3. CASE CloseListener
  BY <1>3 DEF CloseListener
<1>4. CASE Join
  BY <1>4 DEF Join
<1>5. CASE TestRunning
  BY <1>5 DEF TestRunning, serverVars
<1>6. CASE EnterAccept
  BY <1>6 DEF EnterAccept, serverVars
<1>7. CASE Accept
  <2>1. Head(backlog) \in Clients
    BY <1>7, HeadTailProperties DEF Accept, TypeOK
  <2>2. Head(backlog) # None
    BY <2>1, BoundsAssumption
  <2>3. QED
    BY <1>7, <2>2 DEF Accept, serverVars
<1>8. CASE AcceptFails
  BY <1>8 DEF AcceptFails, serverVars
<1>9. CASE HangUp
  BY <1>9 DEF HangUp, serverVars
<1>10. CASE TestRunningForClient \/ Receive \/ ReceiveTimesOut \/ ReceiveEnds
  BY <1>10 DEF TestRunningForClient, Receive, ReceiveTimesOut, ReceiveEnds, serverVars
<1>11. CASE HandleLine \/ NoMoreLines \/ SendReply \/ SendFails
  BY <1>11 DEF HandleLine, NoMoreLines, SendReply, SendFails, serverVars
<1>12. CASE \E c \in Clients : Client(c)
  BY <1>12 DEF Client, Connect, SendPiece, Read, Close, serverVars
<1>13. CASE UNCHANGED vars
  BY <1>13 DEF vars, serverVars
<1>14. QED
  BY <1>1, <1>2, <1>3, <1>4, <1>5, <1>6, <1>7, <1>8, <1>9, <1>10, <1>11, <1>12, <1>13
  DEF Next, Owner, Worker
-----------------------------------------------------------------------------
\* A set of naturals that is not empty has a minimum.
LEMMA MinOfNaturals ==
    ASSUME NEW T, T \subseteq Nat, T # {}
    PROVE  Min(T) \in T /\ \A n \in T : Min(T) <= n
<1>1. PICK m \in T : \A n \in T : ~ (<<n, m>> \in OpToRel(<, Nat))
  BY NatLessThanWellFounded, WFMin
<1>2. ASSUME NEW n \in T PROVE m <= n
  <2>1. m \in Nat /\ n \in Nat
    OBVIOUS
  <2>2. ~ (n < m)
    BY <1>1, <2>1 DEF OpToRel
  <2>3. QED
    BY <2>1, <2>2
<1>3. QED
  BY <1>2 DEF Min
\* The first newline: none, or the smallest position of one.
LEMMA FirstNewLineType ==
    ASSUME pending \in Seq(Pieces)
    PROVE  /\ FirstNewLine \in Nat
           /\ FirstNewLine # 0 => /\ FirstNewLine \in 1..Len(pending)
                                  /\ pending[FirstNewLine] = NewLine
                                  /\ \A i \in 1..FirstNewLine - 1 : pending[i] # NewLine
           /\ FirstNewLine = 0 => \A i \in 1..Len(pending) : pending[i] # NewLine
<1> DEFINE I == {i \in 1..Len(pending) : pending[i] = NewLine}
<1>1. FirstNewLine = IF I # {} THEN Min(I) ELSE 0
  BY DEF FirstNewLine, SelectInSeq
<1>2. I \subseteq Nat
  OBVIOUS
<1>3. ASSUME I # {} PROVE Min(I) \in I /\ \A i \in I : Min(I) <= i
  BY <1>2, <1>3, MinOfNaturals
<1>4. QED
  <2>1. CASE I = {}
    BY <1>1, <2>1
  <2>2. CASE I # {}
    <3>1. FirstNewLine \in I /\ \A i \in I : FirstNewLine <= i
      BY <1>1, <1>3, <2>2
    <3> HIDE DEF I
    <3>2. FirstNewLine \in 1..Len(pending) /\ pending[FirstNewLine] = NewLine
      BY <3>1 DEF I
    <3>3. \A i \in 1..Len(pending) : pending[i] = NewLine => FirstNewLine <= i
      BY <3>1 DEF I
    <3> HIDE DEF FirstNewLine
    <3>4. QED
      BY <3>2, <3>3
  <2>3. QED
    BY <2>1, <2>2
\* A step keeps the type of each variable.
LEMMA TypeStep == Inv /\ [Next]_vars => TypeOK'
<1> SUFFICES ASSUME Inv, [Next]_vars PROVE TypeOK'
  OBVIOUS
<1> USE DEF Inv, TypeOK, WithClient, serverVars, clientVars
<1>1. CASE Start \/ BeginStop
  BY <1>1 DEF Start, BeginStop
<1>2. CASE CloseListener
  BY <1>2, EmptySeq DEF CloseListener, Reset
<1>3. CASE Join \/ TestRunning \/ EnterAccept \/ AcceptFails
  BY <1>3 DEF Join, TestRunning, EnterAccept, AcceptFails
<1>4. CASE Accept
  <2>1. Head(backlog) \in Clients /\ Tail(backlog) \in Seq(Clients)
    BY <1>4, HeadTailProperties DEF Accept
  <2>2. QED
    BY <1>4, <2>1, EmptySeq DEF Accept, Reset
<1>5. CASE HangUp
  BY <1>5, EmptySeq DEF HangUp
<1>6. CASE TestRunningForClient \/ ReceiveTimesOut \/ ReceiveEnds \/ NoMoreLines \/ SendFails
  BY <1>6 DEF TestRunningForClient, ReceiveTimesOut, ReceiveEnds, NoMoreLines, SendFails
<1>7. CASE Receive
  <2>1. PICK n \in 1..OnTheWay(serving) :
          /\ pending' = pending \o SubSeq(sent[serving], received[serving] + 1,
                                          received[serving] + n)
          /\ received' = [received EXCEPT ![serving] = @ + n]
    BY <1>7 DEF Receive
  <2>2. serving \in Clients
    BY <1>7 DEF Receive, Lifecycle
  <2>3. sent[serving] \in Seq(Pieces) /\ Len(sent[serving]) \in Nat /\ received[serving] \in Nat
    BY <2>2
  <2>4. n \in Nat /\ received[serving] + n <= Len(sent[serving])
    BY <2>1, <2>3 DEF OnTheWay
  <2>5. pending' \in Seq(Pieces)
    <3> DEFINE s == sent[serving]
               r == received[serving]
    <3> HIDE DEF s, r
    <3>1. s \in Seq(Pieces) /\ r \in Nat /\ r + n <= Len(s)
      BY <2>3, <2>4 DEF s, r
    <3>2. \A i \in r + 1..r + n : s[i] \in Pieces
      BY <3>1, <2>4, ElementOfSeq
    <3>3. SubSeq(s, r + 1, r + n) \in Seq(Pieces)
      BY <3>1, <3>2, <2>4, SubSeqProperties
    <3>4. pending' = pending \o SubSeq(s, r + 1, r + n)
      BY <2>1 DEF s, r
    <3>5. QED
      BY <3>3, <3>4, ConcatProperties
  <2>6. received' \in [Clients -> Nat]
    <3>1. received' = [received EXCEPT ![serving] = received[serving] + n]
      BY <2>1
    <3>2. received[serving] + n \in Nat
      BY <2>3, <2>4
    <3> QED
      BY <3>1, <3>2 DEF TypeOK
  <2>7. QED
    BY <1>7, <2>5, <2>6 DEF Receive
<1>8. CASE HandleLine
  <2>1. serving \in Clients
    BY <1>8 DEF HandleLine, Lifecycle
  <2>2. pending' \in Seq(Pieces)
    <3>1. FirstNewLine \in Nat
      BY FirstNewLineType
    <3>2. QED
      BY <1>8, <3>1 DEF HandleLine
  <2>3. log' \in Seq([client : Clients, command : Commands])
    <3> DEFINE line == SubSeq(pending, 1, FirstNewLine - 1)
    <3>1. CASE Len(line) = 1 /\ line[1] \in Commands
      <4> HIDE DEF line
      <4>1. [client |-> serving, command |-> line[1]] \in [client : Clients, command : Commands]
        BY <2>1, <3>1
      <4>2. log' = Append(log, [client |-> serving, command |-> line[1]])
        BY <1>8, <3>1 DEF HandleLine, line
      <4>3. QED
        BY <4>1, <4>2
    <3>2. CASE ~ (Len(line) = 1 /\ line[1] \in Commands)
      BY <1>8, <3>2 DEF HandleLine
    <3>3. QED
      BY <3>1, <3>2
  <2>4. worker' \in {"lines", "send"}
    BY <1>8 DEF HandleLine
  <2>5. QED
    BY <1>8, <2>2, <2>3, <2>4 DEF HandleLine
<1>9. CASE SendReply
  <2>1. serving \in Clients /\ response \in Nat
    BY <1>9 DEF SendReply, Lifecycle, Answers
  <2>2. replies' \in [Clients -> Seq(Nat)]
    BY <1>9, <2>1 DEF SendReply
  <2>3. QED
    BY <1>9, <2>2 DEF SendReply
<1>10. CASE \E c \in Clients : Connect(c) \/ SendPiece(c)
  <2>1. PICK c \in Clients : Connect(c) \/ SendPiece(c)
    BY <1>10
  <2>2. CASE Connect(c)
    BY <2>2 DEF Connect
  <2>3. CASE SendPiece(c)
    <3>1. PICK piece \in Pieces : sent' = [sent EXCEPT ![c] = Append(@, piece)]
      BY <2>3 DEF SendPiece, Pieces
    <3>2. sent' \in [Clients -> Seq(Pieces)]
      BY <3>1
    <3>3. QED
      BY <2>3, <3>2 DEF SendPiece
  <2>4. QED
    BY <2>1, <2>2, <2>3
<1>11. CASE \E c \in Clients : Read(c) \/ Close(c)
  BY <1>11 DEF Read, Close
<1>12. CASE UNCHANGED vars
  BY <1>12 DEF vars
<1>13. QED
  BY <1>1, <1>2, <1>3, <1>4, <1>5, <1>6, <1>7, <1>8, <1>9, <1>10, <1>11, <1>12
  DEF Next, Owner, Worker, Client
\* No connection is lost or held twice: the kernel's queue and handle_client
\* have every open one, whenever the listener closes.
LEMMA ConnectionsStep == Inv /\ [Next]_vars => Connections'
<1> SUFFICES ASSUME Inv, [Next]_vars PROVE Connections'
  OBVIOUS
<1>0. /\ TypeOK /\ Lifecycle /\ Connections /\ None \notin Clients
      /\ backlog \in Seq(Clients) /\ Len(backlog) \in Nat
      /\ \A i \in 1..Len(backlog) : backlog[i] \in Clients
  BY BoundsAssumption, ElementOfSeq DEF Inv, TypeOK
<1>1. CASE Start
  BY <1>0, <1>1 DEF Start, Connections, Contains, Lifecycle, clientVars
<1>2. CASE BeginStop
  BY <1>0, <1>2 DEF BeginStop, Connections, Contains, clientVars
<1>3. CASE CloseListener
  <2>1. CASE worker = "accept" /\ ~CloseWakesAccept
    BY <1>0, <1>3, <2>1 DEF CloseListener, Connections, Contains
  <2>2. CASE ~ (worker = "accept" /\ ~CloseWakesAccept)
    <3>1. backlog' = <<>> /\ link' = Reset(backlog) /\ serving' = serving
      BY <1>3, <2>2 DEF CloseListener
    <3>2. ASSUME NEW c \in Clients, link'[c] = "open" PROVE c = serving
      BY <1>0, <3>1, <3>2 DEF Connections, Reset
    <3>3. serving # None => link'[serving] # "away"
      BY <1>0, <3>1 DEF Connections, Reset, TypeOK
    <3>4. QED
      BY <3>1, <3>2, <3>3 DEF Connections, Contains
  <2>3. QED
    BY <2>1, <2>2
<1>4. CASE Join
  BY <1>0, <1>4 DEF Join, Connections, Contains, clientVars
<1>5. CASE TestRunning \/ EnterAccept
  BY <1>0, <1>5 DEF TestRunning, EnterAccept, Connections, Contains, Lifecycle, serverVars, clientVars
<1>6. CASE Accept
  <2> DEFINE c == Head(backlog)
             rest == Tail(backlog)
  <2>1. /\ backlog # <<>> /\ serving' = c /\ owner' = owner
        /\ listener => backlog' = rest /\ link' = link
        /\ ~listener => backlog' = <<>> /\ link' = Reset(rest)
    BY <1>6 DEF Accept, serverVars
  <2>2. /\ c = backlog[1] /\ rest \in Seq(Clients) /\ Len(rest) = Len(backlog) - 1
        /\ \A i \in 1..Len(rest) : rest[i] = backlog[i + 1]
        /\ Len(backlog) >= 1
    BY <1>0, <2>1, HeadTailProperties, EmptySeq
  <2>3. serving = None
    BY <1>0, <1>6 DEF Accept, Lifecycle, WithClient
  <2> HIDE DEF c, rest
  <2>4. ASSUME NEW d \in Clients, link[d] = "open" PROVE d = c \/ Contains(rest, d)
    <3>1. PICK i \in 1..Len(backlog) : backlog[i] = d
      BY <1>0, <2>3, <2>4 DEF Connections, Contains
    <3>2. CASE i = 1
      BY <2>2, <3>1, <3>2
    <3>3. CASE i # 1
      <4>1. i - 1 \in 1..Len(rest) /\ rest[i - 1] = d
        BY <1>0, <2>2, <3>1, <3>3
      <4>2. QED
        BY <4>1 DEF Contains
    <3>4. QED
      BY <3>2, <3>3
  <2>5. ASSUME NEW i \in 1..Len(rest)
        PROVE  rest[i] # c /\ link[rest[i]] \in {"open", "closed"}
    <3>1. i + 1 \in 1..Len(backlog) /\ 1 \in 1..Len(backlog) /\ i + 1 # 1 /\ rest[i] = backlog[i + 1]
      BY <1>0, <2>2
    <3>2. QED
      BY <1>0, <2>2, <3>1 DEF Connections
  <2>6. ASSUME NEW i \in 1..Len(rest), NEW j \in 1..Len(rest), rest[i] = rest[j] PROVE i = j
    <3>1. i + 1 \in 1..Len(backlog) /\ j + 1 \in 1..Len(backlog) /\ backlog[i + 1] = backlog[j + 1]
      BY <1>0, <2>2, <2>6
    <3>2. i + 1 = j + 1
      BY <1>0, <3>1 DEF Connections
    <3>3. QED
      BY <3>2
  <2>7. c \in Clients /\ link[c] # "away" /\ c # None
    <3>1. 1 \in 1..Len(backlog)
      BY <1>0, <2>2
    <3>2. QED
      BY <1>0, <2>2, <3>1 DEF Connections
  <2>8. CASE listener
    <3>1. owner \notin {"joining", "down"}
      BY <1>0, <2>8 DEF Lifecycle
    <3>2. QED
      BY <2>1, <2>4, <2>5, <2>6, <2>7, <2>8, <3>1 DEF Connections
  <2>9. CASE ~listener
    <3>1. backlog' = <<>> /\ link' = Reset(rest)
      BY <2>1, <2>9
    <3>2. ASSUME NEW d \in Clients, link'[d] = "open" PROVE d = c
      BY <2>4, <3>1, <3>2 DEF Reset
    <3>3. link'[c] # "away"
      BY <2>7, <3>1 DEF Reset
    <3>4. QED
      BY <2>1, <3>1, <3>2, <3>3 DEF Connections, Contains
  <2>10. QED
    BY <2>8, <2>9
<1>7. CASE AcceptFails
  BY <1>0, <1>7 DEF AcceptFails, Connections, Contains, Lifecycle, serverVars, clientVars
<1>8. CASE HangUp
  <2>1. /\ serving \in Clients /\ serving' = None /\ backlog' = backlog /\ owner' = owner
        /\ link' = [link EXCEPT ![serving] = IF @ = "open" THEN "dropped" ELSE @]
        /\ owner \in {"joining", "down"} => backlog = <<>>
    BY <1>0, <1>8 DEF HangUp, Lifecycle, WithClient, TypeOK, serverVars, Connections
  <2>2. ASSUME NEW c \in Clients, link'[c] = "open" PROVE Contains(backlog, c)
    BY <1>0, <2>1, <2>2 DEF TypeOK, Connections
  <2>3. ASSUME NEW i \in 1..Len(backlog)
        PROVE  backlog[i] # None /\ link'[backlog[i]] \in {"open", "closed"}
    BY <1>0, <2>1 DEF TypeOK, Connections
  <2>4. QED
    BY <1>0, <2>1, <2>2, <2>3 DEF Connections
<1>9. CASE TestRunningForClient \/ Receive \/ ReceiveTimesOut \/ ReceiveEnds
  BY <1>0, <1>9 DEF TestRunningForClient, Receive, ReceiveTimesOut, ReceiveEnds,
     Connections, Contains, serverVars, clientVars
<1>10. CASE HandleLine \/ NoMoreLines \/ SendReply \/ SendFails
  BY <1>0, <1>10 DEF HandleLine, NoMoreLines, SendReply, SendFails,
     Connections, Contains, serverVars, clientVars
<1>11. ASSUME NEW c \in Clients, Connect(c) PROVE Connections'
  <2>1. /\ link[c] = "away" /\ link' = [link EXCEPT ![c] = "open"]
        /\ backlog' = Append(backlog, c) /\ serving' = serving /\ owner' = owner
        /\ worker' = worker
        /\ listener \/ (worker = "accept" /\ ~CloseWakesAccept)
    BY <1>11 DEF Connect, serverVars, Listening
  <2>2. /\ Len(backlog') = Len(backlog) + 1 /\ backlog'[Len(backlog) + 1] = c
        /\ \A i \in 1..Len(backlog) : backlog'[i] = backlog[i]
    BY <1>0, <2>1, AppendProperties
  <2>3. \A i \in 1..Len(backlog') : i = Len(backlog) + 1 \/ i \in 1..Len(backlog)
    BY <1>0, <2>2
  <2>4. c # serving /\ \A i \in 1..Len(backlog) : backlog[i] # c
    BY <1>0, <2>1 DEF Connections
  <2>5. ASSUME NEW d \in Clients, link'[d] = "open" PROVE d = serving' \/ Contains(backlog', d)
    <3>1. CASE d = c
      <4>1. Len(backlog) + 1 \in 1..Len(backlog')
        BY <1>0, <2>2
      <4>2. QED
        BY <2>2, <3>1, <4>1 DEF Contains
    <3>2. CASE d # c
      <4>1. d = serving \/ \E i \in 1..Len(backlog) : backlog[i] = d
        BY <1>0, <2>1, <2>5, <3>2 DEF Connections, Contains, TypeOK
      <4>2. \A i \in 1..Len(backlog) : i \in 1..Len(backlog')
        BY <1>0, <2>2
      <4>3. QED
        BY <2>1, <2>2, <4>1, <4>2 DEF Contains
    <3>3. QED
      BY <3>1, <3>2
  <2>6. ASSUME NEW i \in 1..Len(backlog')
        PROVE  backlog'[i] # serving' /\ link'[backlog'[i]] \in {"open", "closed"}
    <3>1. CASE i = Len(backlog) + 1
      BY <1>0, <2>1, <2>2, <2>4, <3>1 DEF TypeOK
    <3>2. CASE i \in 1..Len(backlog)
      BY <1>0, <2>1, <2>2, <2>4, <3>2 DEF TypeOK, Connections
    <3>3. QED
      BY <2>3, <3>1, <3>2
  <2>7. ASSUME NEW i \in 1..Len(backlog'), NEW j \in 1..Len(backlog'), backlog'[i] = backlog'[j]
        PROVE  i = j
    BY <1>0, <2>2, <2>3, <2>4, <2>7 DEF Connections
  <2>8. serving' # None => link'[serving'] # "away"
    BY <1>0, <2>1, <2>4 DEF TypeOK, Connections
  <2>9. owner' \in {"joining", "down"} => worker' = "accept" /\ ~CloseWakesAccept
    BY <1>0, <2>1 DEF Lifecycle
  <2>10. QED
    BY <2>5, <2>6, <2>7, <2>8, <2>9 DEF Connections
<1>12. ASSUME NEW c \in Clients, SendPiece(c) \/ Read(c) PROVE Connections'
  BY <1>0, <1>12 DEF SendPiece, Read, Connections, Contains, serverVars
<1>13. ASSUME NEW c \in Clients, Close(c) PROVE Connections'
  BY <1>0, <1>13 DEF Close, Connections, Contains, serverVars, TypeOK
<1>14. CASE UNCHANGED vars
  BY <1>0, <1>14 DEF vars, Connections, Contains, serverVars, clientVars
<1>15. QED
  BY <1>1, <1>2, <1>3, <1>4, <1>5, <1>6, <1>7, <1>8, <1>9, <1>10, <1>11, <1>12, <1>13, <1>14
  DEF Next, Owner, Worker, Client
-----------------------------------------------------------------------------
\* What a client has sent stays in order, and at most that is received.
LEMMA StreamStep == Inv /\ [Next]_vars => Stream'
<1> SUFFICES ASSUME Inv, [Next]_vars PROVE Stream'
  OBVIOUS
<1>0. TypeOK /\ Lifecycle /\ Stream
  BY DEF Inv
<1>1. CASE Receive
  <2>1. PICK n \in 1..OnTheWay(serving) : received' = [received EXCEPT ![serving] = @ + n]
    BY <1>1 DEF Receive
  <2>2. serving \in Clients /\ sent' = sent
    BY <1>0, <1>1 DEF Receive, Lifecycle, TypeOK, WithClient
  <2>3. received[serving] \in Nat /\ Len(sent[serving]) \in Nat
    BY <1>0, <2>2 DEF TypeOK
  <2>4. received[serving] + n <= Len(sent[serving])
    BY <2>1, <2>3 DEF OnTheWay
  <2>5. \A c \in Clients : received'[c] <= Len(sent[c])
    BY <1>0, <2>1, <2>2, <2>4 DEF TypeOK, Stream
  <2>6. QED
    BY <1>0, <2>2, <2>5 DEF Stream
<1>2. ASSUME NEW c \in Clients, SendPiece(c) PROVE Stream'
  <2> DEFINE s == sent[c]
  <2>1. PICK piece \in IF InMidLine(c) THEN {NewLine} ELSE Texts :
          sent' = [sent EXCEPT ![c] = Append(s, piece)]
    BY <1>2 DEF SendPiece
  <2>2. s \in Seq(Pieces) /\ Len(s) \in Nat /\ received' = received /\ piece \in Pieces
    BY <1>0, <1>2, <2>1 DEF TypeOK, SendPiece, Pieces
  <2>3. sent'[c] = Append(s, piece) /\ \A d \in Clients \ {c} : sent'[d] = sent[d]
    BY <1>0, <2>1 DEF TypeOK
  <2>4. /\ received[c] <= Len(s) /\ received[c] \in Nat
        /\ \A i \in 1..Len(s) : IF i % 2 = 1 THEN s[i] \in Texts ELSE s[i] = NewLine
    BY <1>0 DEF Stream, TypeOK
  <2>5. IF (Len(s) + 1) % 2 = 1 THEN piece \in Texts ELSE piece = NewLine
    <3>1. InMidLine(c) <=> s # <<>> /\ s[Len(s)] # NewLine
      BY DEF InMidLine, Last
    <3>2. CASE s = <<>>
      <4>1. (Len(s) + 1) % 2 = 1
        BY <3>2
      <4>2. QED
        BY <2>1, <3>1, <3>2, <4>1
    <3>3. CASE s # <<>>
      <4>1. Len(s) \in 1..Len(s)
        BY <2>2, <3>3, EmptySeq
      <4>2. IF Len(s) % 2 = 1 THEN s[Len(s)] \in Texts ELSE s[Len(s)] = NewLine
        BY <2>4, <4>1
      <4>3. NewLine \notin Texts
        BY PiecesAssumption DEF Texts, Commands
      <4>4. Len(s) % 2 = 1 <=> ~ ((Len(s) + 1) % 2 = 1)
        <5>1. \A n \in Nat : n % 2 = 1 <=> ~ ((n + 1) % 2 = 1)
          OBVIOUS
        <5>2. QED
          BY <2>2, <5>1
      <4>5. QED
        BY <2>1, <3>1, <3>3, <4>2, <4>3, <4>4
    <3>4. QED
      BY <3>2, <3>3
  <2> HIDE DEF s
  <2>6. /\ Len(Append(s, piece)) = Len(s) + 1
        /\ \A i \in 1..Len(s) : Append(s, piece)[i] = s[i]
        /\ Append(s, piece)[Len(s) + 1] = piece
    BY <2>2, AppendProperties
  <2>7. ASSUME NEW i \in 1..Len(s) + 1
        PROVE  IF i % 2 = 1 THEN Append(s, piece)[i] \in Texts ELSE Append(s, piece)[i] = NewLine
    <3>1. CASE i \in 1..Len(s)
      BY <2>4, <2>6, <3>1
    <3>2. CASE i = Len(s) + 1
      BY <2>5, <2>6, <3>2
    <3>3. QED
      BY <2>2, <3>1, <3>2
  <2>8. received'[c] <= Len(sent'[c])
    BY <2>2, <2>3, <2>4, <2>6
  <2>9. ASSUME NEW d \in Clients, d # c
        PROVE  /\ received'[d] <= Len(sent'[d])
               /\ \A i \in 1..Len(sent'[d]) :
                     IF i % 2 = 1 THEN sent'[d][i] \in Texts ELSE sent'[d][i] = NewLine
    <3>1. sent'[d] = sent[d] /\ received'[d] = received[d]
      BY <2>2, <2>3, <2>9
    <3>2. QED
      BY <1>0, <3>1 DEF Stream
  <2>10. \A i \in 1..Len(sent'[c]) :
            IF i % 2 = 1 THEN sent'[c][i] \in Texts ELSE sent'[c][i] = NewLine
    BY <2>3, <2>6, <2>7
  <2>11. QED
    BY <2>8, <2>9, <2>10 DEF Stream
<1>3. CASE UNCHANGED <<sent, received>>
  BY <1>0, <1>3 DEF Stream
<1>4. QED
  BY <1>1, <1>2, <1>3 DEF Next, Owner, Worker, Client, Start, BeginStop, CloseListener, Join,
     TestRunning, EnterAccept, Accept, AcceptFails, HangUp, TestRunningForClient,
     ReceiveTimesOut, ReceiveEnds, HandleLine, NoMoreLines, SendReply, SendFails,
     Connect, Read, Close, vars, clientVars

\* A piece of a sequence.
LEMMA PartOfSeq ==
    ASSUME NEW S, NEW s \in Seq(S), NEW m \in Nat, NEW n \in Nat, m + n <= Len(s)
    PROVE  /\ SubSeq(s, m + 1, m + n) \in Seq(S)
           /\ Len(SubSeq(s, m + 1, m + n)) = n
           /\ \A i \in 1..n : SubSeq(s, m + 1, m + n)[i] = s[m + i]
<1> DEFINE a == m + 1
           b == m + n
<1>1. a \in Int /\ b \in Int /\ b - a + 1 = n /\ (a <= b <=> n # 0) /\ Len(s) \in Nat
  OBVIOUS
<1>2. \A i \in a..b : s[i] \in S
  <2>1. \A i \in a..b : i \in 1..Len(s)
    BY <1>1
  <2>2. QED
    BY <2>1, ElementOfSeq
<1>3. \A i \in 1..n : a + i - 1 = m + i
  OBVIOUS
<1> HIDE DEF a, b
<1>4. /\ SubSeq(s, a, b) \in Seq(S)
      /\ Len(SubSeq(s, a, b)) = IF a <= b THEN b - a + 1 ELSE 0
      /\ \A i \in 1..b - a + 1 : SubSeq(s, a, b)[i] = s[a + i - 1]
  BY <1>1, <1>2, SubSeqProperties
<1>5. Len(SubSeq(s, a, b)) = n
  BY <1>1, <1>4
<1>6. \A i \in 1..n : SubSeq(s, a, b)[i] = s[m + i]
  BY <1>1, <1>3, <1>4
<1>7. QED
  BY <1>4, <1>5, <1>6 DEF a, b

\* In handle_client there is a client, and nothing but what it sent is read.
LEMMA ServedClient ==
    ASSUME Inv, worker \in WithClient
    PROVE  /\ serving \in Clients /\ serving # None
           /\ pending \in Seq(Pieces) /\ Len(pending) \in Nat
           /\ sent[serving] \in Seq(Pieces) /\ Len(sent[serving]) \in Nat
           /\ received[serving] \in Nat /\ received[serving] <= Len(sent[serving])
           /\ Consumed \in Nat /\ Consumed % 2 = 0
           /\ Consumed + Len(pending) = received[serving]
           /\ \A i \in 1..Len(pending) : pending[i] = sent[serving][Consumed + i]
<1>1. serving \in Clients /\ serving # None
  BY BoundsAssumption DEF Inv, TypeOK, Lifecycle
<1>2. /\ pending \in Seq(Pieces) /\ Len(pending) \in Nat
      /\ sent[serving] \in Seq(Pieces) /\ Len(sent[serving]) \in Nat
      /\ received[serving] \in Nat
  BY <1>1 DEF Inv, TypeOK
<1>3. received[serving] <= Len(sent[serving])
  BY <1>1 DEF Inv, Stream
<1>4. /\ Consumed \in Nat /\ Consumed % 2 = 0
      /\ \A i \in 1..Len(pending) : pending[i] = sent[serving][Consumed + i]
  BY <1>1 DEF Inv, Cut
<1>5. Consumed + Len(pending) = received[serving]
  BY <1>2 DEF Consumed
<1>6. QED
  BY <1>1, <1>2, <1>3, <1>4, <1>5

\* What handle_client takes for the next line is the next line of the client.
LEMMA NextLine ==
    ASSUME Inv, worker = "lines", FirstNewLine # 0
    PROVE  /\ FirstNewLine = 2 /\ Len(pending) >= 2
           /\ pending[1] = sent[serving][Consumed + 1]
           /\ pending[1] \in Texts
           /\ Consumed + 2 <= received[serving]
<1>1. /\ serving \in Clients /\ serving # None /\ pending \in Seq(Pieces) /\ Len(pending) \in Nat
      /\ sent[serving] \in Seq(Pieces) /\ received[serving] \in Nat /\ Len(sent[serving]) \in Nat
  BY ServedClient DEF WithClient
<1>2. /\ Consumed \in Nat /\ Consumed % 2 = 0 /\ Consumed + Len(pending) = received[serving]
      /\ \A i \in 1..Len(pending) : pending[i] = sent[serving][Consumed + i]
  BY ServedClient DEF WithClient
<1>3. /\ received[serving] <= Len(sent[serving])
      /\ \A i \in 1..Len(sent[serving]) :
            IF i % 2 = 1 THEN sent[serving][i] \in Texts ELSE sent[serving][i] = NewLine
  BY <1>1 DEF Inv, Stream
<1>4. /\ FirstNewLine \in 1..Len(pending) /\ pending[FirstNewLine] = NewLine
      /\ \A i \in 1..FirstNewLine - 1 : pending[i] # NewLine
  BY <1>1, FirstNewLineType
<1>5. NewLine \notin Texts
  BY PiecesAssumption DEF Texts, Commands
<1> DEFINE f == FirstNewLine
           k == Consumed
           l == Len(pending)
           r == received[serving]
           m == Len(sent[serving])
<1>types. k \in Nat /\ k % 2 = 0 /\ k + l = r /\ r <= m /\ l \in Nat /\ r \in Nat /\ m \in Nat
  BY <1>1, <1>2, <1>3
<1>first. f \in 1..l
  BY <1>4
<1> HIDE DEF f, k, l, r, m
<1>parity. (k + 1) % 2 = 1 /\ (k + 2) % 2 = 0
  BY <1>types
<1>6. pending[1] = sent[serving][k + 1] /\ pending[1] \in Texts
  <2>1. 1 \in 1..l /\ k + 1 \in 1..m
    BY <1>types, <1>first
  <2>2. QED
    BY <1>2, <1>3, <1>parity, <2>1 DEF k, l, m
<1>7. f # 1
  BY <1>4, <1>5, <1>6 DEF f
<1>8. f >= 2 /\ Len(pending) >= 2
  BY <1>1, <1>4, <1>7 DEF f
<1>9. pending[2] = NewLine
  <2>1. 2 \in 1..l /\ k + 2 \in 1..m /\ (k + 2) % 2 # 1
    BY <1>types, <1>8, <1>parity DEF l
  <2>2. QED
    BY <1>2, <1>3, <2>1 DEF k, l, m
<1>10. f = 2
  <2>1. ASSUME f > 2 PROVE FALSE
    <3>1. 2 \in 1..f - 1
      BY <1>4, <2>1 DEF f
    <3>2. QED
      BY <1>4, <1>9, <3>1 DEF f
  <2>2. QED
    BY <1>4, <1>8, <2>1 DEF f
<1>11. k + 2 <= received[serving]
  BY <1>types, <1>8 DEF l, r
<1>12. QED
  BY <1>6, <1>8, <1>10, <1>11 DEF f, k
\* A recv adds to what is pending and takes nothing from its start.
LEMMA ReceiveExtends ==
    ASSUME Inv, Receive
    PROVE  /\ Consumed' = Consumed
           /\ \A i \in 1..Len(pending') : pending'[i] = sent[serving][Consumed + i]
<1> DEFINE s == sent[serving]
           r == received[serving]
           l == Len(pending)
<1>1. PICK n \in 1..OnTheWay(serving) :
        /\ pending' = pending \o SubSeq(s, r + 1, r + n)
        /\ received' = [received EXCEPT ![serving] = r + n]
  BY DEF Receive
<1>2. /\ serving \in Clients /\ serving # None
      /\ pending \in Seq(Pieces) /\ l \in Nat
      /\ s \in Seq(Pieces) /\ r \in Nat /\ Len(s) \in Nat
      /\ Consumed = r - l /\ Consumed \in Nat
      /\ \A i \in 1..l : pending[i] = s[Consumed + i]
  BY ServedClient DEF WithClient, Receive, Consumed
<1>same. serving' = serving /\ received \in [Clients -> Nat]
  BY DEF Receive, Inv, TypeOK
<1>3. n \in Nat /\ r + n <= Len(s) /\ received'[serving] = r + n
  BY <1>1, <1>2, <1>same DEF OnTheWay
<1>5. Consumed' = received'[serving] - Len(pending')
  BY <1>same DEF Consumed
<1> DEFINE more == SubSeq(s, r + 1, r + n)
           k == Consumed
<1>6. pending' = pending \o more
  BY <1>1
<1> HIDE DEF s, r, l, k, more
<1>7. /\ more \in Seq(Pieces) /\ Len(more) = n
      /\ \A i \in 1..n : more[i] = s[r + i]
  BY <1>2, <1>3, PartOfSeq DEF more
<1>8. /\ Len(pending') = l + n
      /\ \A i \in 1..l + n : pending'[i] = IF i <= l THEN pending[i] ELSE more[i - l]
  BY <1>2, <1>6, <1>7, ConcatProperties, ZenonT(40) DEF l
<1>9. Consumed' = k
  BY <1>2, <1>3, <1>5, <1>8 DEF k
<1>10. ASSUME NEW i \in 1..l + n PROVE pending'[i] = s[k + i]
  <2>1. CASE i <= l
    <3>1. i \in 1..l
      BY <1>2, <2>1
    <3>2. QED
      BY <1>2, <1>8, <2>1, <3>1 DEF k
  <2>2. CASE ~ (i <= l)
    <3>1. i - l \in 1..n /\ r + (i - l) = k + i
      BY <1>2, <1>3, <2>2 DEF k
    <3>2. pending'[i] = more[i - l]
      BY <1>8, <2>2
    <3>3. QED
      BY <1>7, <3>1, <3>2
  <2>3. QED
    BY <2>1, <2>2
<1>11. QED
  BY <1>8, <1>9, <1>10 DEF k, s

\* A pass of the loop over the lines takes one line, and handles a command.
LEMMA HandleTakesOne ==
    ASSUME Inv, HandleLine
    PROVE  /\ Consumed' = Consumed + 2
           /\ Len(pending') = Len(pending) - 2
           /\ \A i \in 1..Len(pending') : pending'[i] = pending[i + 2]
           /\ pending[1] \in Commands =>
                 /\ log' = Append(log, [client |-> serving, command |-> pending[1]])
                 /\ IF pending[1] \in Queries THEN worker' = "send" /\ response' = Len(log')
                    ELSE worker' = worker /\ response' = response
           /\ pending[1] \notin Commands =>
                 log' = log /\ worker' = worker /\ response' = response
<1>1. FirstNewLine = 2 /\ Len(pending) >= 2 /\ pending[1] \in Texts
  BY NextLine DEF HandleLine
<1>2. /\ pending \in Seq(Pieces) /\ Len(pending) \in Nat
      /\ serving \in Clients /\ received[serving] \in Nat
  BY ServedClient DEF WithClient, HandleLine
<1>3. pending' = SubSeq(pending, 2 + 1, Len(pending)) /\ received' = received /\ serving' = serving
  BY <1>1 DEF HandleLine, clientVars
<1>4. /\ Len(pending') = Len(pending) - 2
      /\ \A i \in 1..Len(pending') : pending'[i] = pending[i + 2]
  <2> DEFINE n == Len(pending) - 2
  <2>1. n \in Nat /\ 2 + n = Len(pending)
    BY <1>1, <1>2
  <2> HIDE DEF n
  <2>2. Len(pending') = n /\ \A i \in 1..n : pending'[i] = pending[2 + i]
    BY <1>2, <1>3, <2>1, PartOfSeq
  <2>3. \A i \in 1..n : 2 + i = i + 2
    BY <2>1
  <2>4. QED
    BY <2>2, <2>3 DEF n
<1>5. Consumed' = Consumed + 2
  <2>1. Consumed' = received[serving] - Len(pending')
    BY <1>3 DEF Consumed
  <2>2. QED
    BY <1>2, <1>4, <2>1 DEF Consumed
<1> DEFINE line == SubSeq(pending, 1, FirstNewLine - 1)
<1>6. Len(line) = 1 /\ line[1] = pending[1]
  <2>1. line = SubSeq(pending, 1, 1)
    BY <1>1
  <2> DEFINE m == 0
             n == 1
  <2>2. m \in Nat /\ n \in Nat /\ m + n <= Len(pending) /\ m + 1 = 1 /\ m + n = 1
    BY <1>1, <1>2
  <2> HIDE DEF m, n
  <2>3. /\ Len(SubSeq(pending, m + 1, m + n)) = n
        /\ \A i \in 1..n : SubSeq(pending, m + 1, m + n)[i] = pending[m + i]
    BY <1>2, <2>2, PartOfSeq
  <2>4. QED
    <3>1. Len(line) = 1
      BY <2>1, <2>2, <2>3 DEF n
    <3>2. line[1] = pending[1]
      <4>1. SubSeq(pending, m + 1, m + n) = line
        BY <2>1, <2>2
      <4>2. 1 \in 1..n /\ m + 1 = 1
        BY DEF n, m
      <4> HIDE DEF line
      <4>3. QED
        BY <2>3, <4>1, <4>2
    <3>3. QED
      BY <3>1, <3>2
<1>7. IF Len(line) = 1 /\ line[1] \in Commands
      THEN /\ log' = Append(log, [client |-> serving, command |-> line[1]])
           /\ IF line[1] \in Queries
              THEN worker' = "send" /\ response' = Len(log')
              ELSE UNCHANGED <<worker, response>>
      ELSE UNCHANGED <<worker, response, log>>
  BY DEF HandleLine
<1> HIDE DEF line
<1>8. QED
  BY <1>4, <1>5, <1>6, <1>7

\* What is pending stays the newest of what was received, cut at a newline.
LEMMA CutStep == Inv /\ [Next]_vars => Cut'
<1> SUFFICES ASSUME Inv, [Next]_vars PROVE Cut'
  OBVIOUS
<1>0. TypeOK /\ Lifecycle /\ Stream /\ Cut /\ None \notin Clients
  BY BoundsAssumption DEF Inv
<1>1. CASE Receive
  <2>1. serving' = serving /\ sent' = sent /\ serving # None
    BY <1>0, <1>1 DEF Receive, Lifecycle, WithClient
  <2>2. QED
    BY <1>0, <1>1, <2>1, ReceiveExtends DEF Cut
<1>2. CASE HandleLine
  <2>1. serving' = serving /\ sent' = sent /\ serving # None /\ pending \in Seq(Pieces)
    BY <1>0, <1>2 DEF HandleLine, Lifecycle, WithClient, clientVars, TypeOK
  <2> DEFINE k == Consumed
             l == Len(pending)
  <2>2. /\ k \in Nat /\ k % 2 = 0 /\ l \in Nat
        /\ \A i \in 1..l : pending[i] = sent[serving][k + i]
    BY <1>0, <2>1 DEF Cut
  <2>3. Consumed' = k + 2 /\ Len(pending') = l - 2
        /\ \A i \in 1..Len(pending') : pending'[i] = pending[i + 2]
    BY <1>2, HandleTakesOne
  <2> HIDE DEF k, l
  <2>4. k + 2 \in Nat /\ (k + 2) % 2 = 0
    BY <2>2
  <2>5. ASSUME NEW i \in 1..Len(pending') PROVE pending'[i] = sent[serving][(k + 2) + i]
    <3>1. i + 2 \in 1..l /\ k + (i + 2) = (k + 2) + i
      BY <2>2, <2>3
    <3>2. QED
      BY <2>2, <2>3, <3>1
  <2>6. QED
    BY <2>1, <2>3, <2>4, <2>5 DEF Cut
<1>3. CASE Accept
  <2>1. /\ backlog # <<>> /\ serving' = Head(backlog) /\ Head(backlog) = backlog[1]
        /\ backlog \in Seq(Clients) /\ 1 \in 1..Len(backlog)
        /\ received' = received /\ pending' = pending
    BY <1>0, <1>3, EmptySeq DEF Accept, TypeOK
  <2>2. serving' \in Clients /\ Contains(backlog, serving')
    BY <2>1, ElementOfSeq DEF Contains
  <2>3. received'[serving'] = 0 /\ pending' = <<>>
    <3>1. serving = None
      BY <1>0, <1>3 DEF Accept, Lifecycle, WithClient
    <3>2. received[serving'] = 0
      BY <2>2 DEF Inv, Strangers
    <3>3. pending = <<>>
      BY <1>0, <3>1 DEF Cut
    <3>4. QED
      BY <2>1, <3>2, <3>3
  <2>4. Consumed' = 0
    <3>1. Len(pending') = 0
      BY <2>3
    <3>2. Consumed' = received'[serving'] - Len(pending')
      BY DEF Consumed
    <3>3. QED
      BY <2>3, <3>1, <3>2
  <2>5. QED
    BY <1>0, <2>2, <2>3, <2>4 DEF Cut
<1>4. CASE HangUp
  BY <1>4 DEF HangUp, Cut
<1>5. ASSUME NEW c \in Clients, SendPiece(c) PROVE Cut'
  <2>1. PICK piece \in Pieces : sent' = [sent EXCEPT ![c] = Append(@, piece)]
    BY <1>5 DEF SendPiece, Pieces
  <2>2. serving' = serving /\ pending' = pending /\ received' = received /\ Consumed' = Consumed
    BY <1>5 DEF SendPiece, Consumed
  <2>3. ASSUME serving # None, NEW i \in 1..Len(pending)
        PROVE  sent'[serving][Consumed + i] = sent[serving][Consumed + i]
    <3>1. /\ serving \in Clients /\ sent[serving] \in Seq(Pieces)
          /\ received[serving] \in Nat /\ Len(pending) \in Nat /\ Len(sent[serving]) \in Nat
      BY <1>0, <2>3 DEF TypeOK
    <3>2. Consumed \in Nat /\ Consumed = received[serving] - Len(pending)
      BY <1>0, <2>3 DEF Cut, Consumed
    <3>3. received[serving] <= Len(sent[serving])
      BY <1>0, <3>1 DEF Stream
    <3>4. Consumed + i \in 1..Len(sent[serving])
      BY <3>1, <3>2, <3>3
    <3>5. sent'[serving] = sent[serving] \/ sent'[serving] = Append(sent[serving], piece)
      BY <1>0, <2>1, <3>1 DEF TypeOK
    <3>6. QED
      BY <3>1, <3>4, <3>5, AppendProperties
  <2>4. QED
    BY <1>0, <2>2, <2>3 DEF Cut
<1>6. CASE UNCHANGED <<serving, pending, sent, received>>
  BY <1>0, <1>6 DEF Cut, Consumed
<1>7. QED
  BY <1>1, <1>2, <1>3, <1>4, <1>5, <1>6 DEF Next, Owner, Worker, Client, Start, BeginStop,
     CloseListener, Join, TestRunning, EnterAccept, AcceptFails, TestRunningForClient,
     ReceiveTimesOut, ReceiveEnds, NoMoreLines, SendReply, SendFails,
     Connect, Read, Close, vars, clientVars
-----------------------------------------------------------------------------
\* The positions of a sequence that has grown by one.
LEMMA OneMore == \A n \in Nat : \A i \in 1..n + 1 : i = n + 1 \/ i \in 1..n
OBVIOUS

\* A call is one entry at the end of the log.
LEMMA LogGrows ==
    ASSUME Inv, NEW c \in Clients, NEW k \in Commands,
           log' = Append(log, [client |-> c, command |-> k])
    PROVE  /\ Len(log) \in Nat /\ Len(log') = Len(log) + 1
           /\ \A i \in 1..Len(log) : log'[i] = log[i]
           /\ log'[Len(log) + 1].client = c /\ log'[Len(log) + 1].command = k
<1>1. /\ log \in Seq([client : Clients, command : Commands])
      /\ [client |-> c, command |-> k] \in [client : Clients, command : Commands]
  BY DEF Inv, TypeOK
<1>2. /\ Len(log') = Len(log) + 1
      /\ \A i \in 1..Len(log) : log'[i] = log[i]
      /\ log'[Len(log) + 1] = [client |-> c, command |-> k]
  BY <1>1, AppendProperties
<1>3. QED
  BY <1>1, <1>2

\* Who is a stranger after a step was one before, and the step changed nothing
\* of what the handler knows about it.
LEMMA StrangersStep == Inv /\ [Next]_vars => Strangers'
<1> SUFFICES ASSUME Inv, [Next]_vars, NEW c \in Clients,
                    link'[c] = "away" \/ Contains(backlog', c)
             PROVE  received'[c] = 0 /\ replies'[c] = <<>> /\ CallsOf(c)' = {}
  BY DEF Strangers
<1>0. /\ TypeOK /\ Connections /\ backlog \in Seq(Clients) /\ Len(backlog) \in Nat
      /\ link \in [Clients -> {"away", "open", "closed", "dropped"}]
      /\ log \in Seq([client : Clients, command : Commands]) /\ Len(log) \in Nat
      /\ received \in [Clients -> Nat] /\ replies \in [Clients -> Seq(Nat)]
  BY DEF Inv, TypeOK
<1>1. link[c] = "away" \/ Contains(backlog, c)
  <2>1. CASE CloseListener
    BY <1>0, <2>1 DEF CloseListener, Reset, Contains
  <2>2. CASE Accept
    <3>1. backlog # <<>> /\ (backlog' = Tail(backlog) \/ backlog' = <<>>)
          /\ (link'[c] = "away" => link[c] = "away")
      BY <1>0, <2>2 DEF Accept, Reset
    <3>2. /\ Tail(backlog) \in Seq(Clients) /\ Len(Tail(backlog)) = Len(backlog) - 1
          /\ \A i \in 1..Len(Tail(backlog)) : Tail(backlog)[i] = backlog[i + 1]
      BY <1>0, <3>1, HeadTailProperties
    <3>3. ASSUME NEW i \in 1..Len(Tail(backlog)), Tail(backlog)[i] = c PROVE Contains(backlog, c)
      <4>1. i + 1 \in 1..Len(backlog) /\ backlog[i + 1] = c
        BY <1>0, <3>2, <3>3
      <4>2. QED
        BY <4>1 DEF Contains
    <3>4. QED
      BY <3>1, <3>3 DEF Contains
  <2>3. CASE HangUp
    BY <1>0, <2>3 DEF HangUp
  <2>4. ASSUME NEW d \in Clients, Connect(d) PROVE link[c] = "away" \/ Contains(backlog, c)
    <3>1. /\ link[d] = "away" /\ link' = [link EXCEPT ![d] = "open"]
          /\ backlog' = Append(backlog, d)
      BY <2>4 DEF Connect
    <3>2. /\ Len(backlog') = Len(backlog) + 1 /\ backlog'[Len(backlog) + 1] = d
          /\ \A i \in 1..Len(backlog) : backlog'[i] = backlog[i]
      BY <1>0, <3>1, AppendProperties
    <3>3. ASSUME NEW i \in 1..Len(backlog'), backlog'[i] = c PROVE c = d \/ Contains(backlog, c)
      <4>1. i = Len(backlog) + 1 \/ i \in 1..Len(backlog)
        BY <1>0, <3>2, OneMore
      <4>2. QED
        <5>1. CASE i = Len(backlog) + 1
          BY <3>2, <3>3, <5>1
        <5>2. CASE i \in 1..Len(backlog)
          <6>1. backlog[i] = c
            BY <3>2, <3>3, <5>2
          <6>2. QED
            BY <5>2, <6>1 DEF Contains
        <5>3. QED
          BY <4>1, <5>1, <5>2
    <3>4. CASE c = d
      BY <3>1, <3>4
    <3>5. CASE c # d
      BY <1>0, <3>1, <3>3, <3>5 DEF Contains
    <3>6. QED
      BY <3>4, <3>5
  <2>5. ASSUME NEW d \in Clients, Close(d) PROVE link[c] = "away" \/ Contains(backlog, c)
    BY <1>0, <2>5 DEF Close
  <2>6. CASE UNCHANGED <<backlog, link>>
    BY <2>6
  <2>7. QED
    BY <2>1, <2>2, <2>3, <2>4, <2>5, <2>6 DEF Next, Owner, Worker, Client, Start, BeginStop,
       Join, TestRunning, EnterAccept, AcceptFails, TestRunningForClient, Receive,
       ReceiveTimesOut, ReceiveEnds, HandleLine, NoMoreLines, SendReply, SendFails,
       SendPiece, Read, vars, clientVars
<1>2. received[c] = 0 /\ replies[c] = <<>> /\ CallsOf(c) = {}
  BY <1>1 DEF Inv, Strangers
<1>3. serving # None => c # serving
  BY <1>0, <1>1 DEF Connections, Contains
<1>4. CASE Receive
  <2>1. serving # None
    BY <1>4, ServedClient DEF Receive, WithClient
  <2>2. received'[c] = received[c] /\ replies' = replies /\ log' = log
    BY <1>0, <1>3, <1>4, <2>1 DEF Receive
  <2>3. QED
    BY <1>2, <2>2 DEF CallsOf
<1>5. CASE HandleLine
  <2>1. serving # None /\ serving \in Clients
    BY <1>5, ServedClient DEF HandleLine, WithClient
  <2>2. received' = received /\ replies' = replies
    BY <1>5 DEF HandleLine, clientVars
  <2>3. CASE pending[1] \in Commands
    <3>1. log' = Append(log, [client |-> serving, command |-> pending[1]])
      BY <1>5, <2>3, HandleTakesOne
    <3>2. /\ Len(log') = Len(log) + 1
          /\ \A i \in 1..Len(log) : log'[i] = log[i]
          /\ log'[Len(log) + 1].client = serving
      BY <2>1, <2>3, <3>1, LogGrows
    <3>3. ASSUME NEW i \in 1..Len(log'), log'[i].client = c PROVE FALSE
      <4>1. i \in 1..Len(log) \/ i = Len(log) + 1
        BY <1>0, <3>2, OneMore
      <4>2. i \in 1..Len(log) /\ log[i].client = c
        <5>1. CASE i = Len(log) + 1
          BY <1>3, <2>1, <3>2, <3>3, <5>1
        <5>2. CASE i \in 1..Len(log)
          <6>1. log'[i] = log[i]
            BY <3>2, <5>2
          <6>2. QED
            BY <3>3, <5>2, <6>1
        <5>3. QED
          BY <4>1, <5>1, <5>2
      <4>3. QED
        BY <1>2, <4>2 DEF CallsOf
    <3>4. QED
      BY <1>2, <2>2, <3>3 DEF CallsOf
  <2>4. CASE pending[1] \notin Commands
    <3>1. log' = log
      BY <1>5, <2>4, HandleTakesOne
    <3>2. QED
      BY <1>2, <2>2, <3>1 DEF CallsOf
  <2>5. QED
    BY <2>3, <2>4
<1>6. CASE SendReply
  <2>1. serving # None
    BY <1>6, ServedClient DEF SendReply, WithClient
  <2>2. received' = received /\ replies'[c] = replies[c] /\ log' = log
    BY <1>0, <1>3, <1>6, <2>1 DEF SendReply
  <2>3. QED
    BY <1>2, <2>2 DEF CallsOf
<1>7. CASE UNCHANGED <<received, replies, log>>
  BY <1>2, <1>7 DEF CallsOf
<1>8. QED
  BY <1>4, <1>5, <1>6, <1>7 DEF Next, Owner, Worker, Client, Start, BeginStop, CloseListener,
     Join, TestRunning, EnterAccept, Accept, AcceptFails, HangUp, TestRunningForClient,
     ReceiveTimesOut, ReceiveEnds, NoMoreLines, SendFails, Connect, SendPiece, Read, Close,
     vars, clientVars
\* Both sets are finite.
LEMMA CountsAreFinite ==
    ASSUME Inv, NEW c \in Clients, NEW n \in Nat
    PROVE  IsFiniteSet(CallsOf(c)) /\ IsFiniteSet(CommandsAmong(c, n))
<1>1. Len(log) \in Nat
  BY DEF Inv, TypeOK
<1>2. IsFiniteSet(1..Len(log)) /\ IsFiniteSet(1..n)
  BY <1>1, FS_Interval
<1>3. CallsOf(c) \in SUBSET (1..Len(log)) /\ CommandsAmong(c, n) \in SUBSET (1..n)
  BY DEF CallsOf, CommandsAmong
<1>4. QED
  BY <1>2, <1>3, FS_Subset

\* As many calls as commands among the lines cut off so far: the handler is
\* called for each, once, and for nothing else.
LEMMA TurnsStep == Inv /\ [Next]_vars => Turns'
<1> SUFFICES ASSUME Inv, [Next]_vars, serving' # None PROVE Turns'
  BY DEF Turns
<1>0. TypeOK /\ Lifecycle /\ Turns /\ None \notin Clients
  BY BoundsAssumption DEF Inv
<1>1. CASE Accept
  <2>1. /\ backlog # <<>> /\ serving' = Head(backlog) /\ Head(backlog) = backlog[1]
        /\ backlog \in Seq(Clients) /\ 1 \in 1..Len(backlog)
        /\ received' = received /\ pending' = pending /\ log' = log
    BY <1>0, <1>1, EmptySeq DEF Accept, TypeOK
  <2>2. PICK c \in Clients : c = serving' /\ Contains(backlog, c)
    BY <2>1, ElementOfSeq DEF Contains
  <2>3. received[c] = 0 /\ CallsOf(c) = {}
    BY <2>2 DEF Inv, Strangers
  <2>4. pending = <<>>
    BY <1>0, <1>1 DEF Accept, Lifecycle, WithClient, Inv, Cut
  <2>5. Handled' = 0
    <3>1. Len(pending') = 0
      BY <2>1, <2>4
    <3>2. Consumed' = received'[c] - Len(pending')
      BY <2>2 DEF Consumed
    <3>3. Consumed' = 0
      BY <2>1, <2>3, <3>1, <3>2
    <3>4. QED
      BY <3>3 DEF Handled
  <2>6. CallsOf(c)' = {}
    BY <2>1, <2>3 DEF CallsOf
  <2>7. CommandsAmong(c, Handled)' = {}
    BY <2>5 DEF CommandsAmong
  <2>8. QED
    BY <2>2, <2>6, <2>7 DEF Turns
<1>2. CASE Receive
  <2>1. serving' = serving /\ log' = log /\ sent' = sent /\ serving # None
    BY <1>2, ServedClient DEF Receive, WithClient
  <2>2. Handled' = Handled
    BY <1>2, ReceiveExtends DEF Handled
  <2>3. QED
    BY <1>0, <2>1, <2>2 DEF Turns, CallsOf, CommandsAmong
<1>3. CASE HandleLine
  <2>1. /\ serving' = serving /\ sent' = sent /\ worker = "lines" /\ FirstNewLine # 0
    BY <1>3 DEF HandleLine, clientVars
  <2>2. PICK c \in Clients : c = serving
    BY <2>1, ServedClient DEF WithClient
  <2> DEFINE n == Handled
             k == pending[1]
  <2>3. Consumed \in Nat /\ Consumed % 2 = 0 /\ serving # None
    BY <2>1, ServedClient DEF WithClient
  <2>4. n \in Nat /\ Consumed + 1 = 2 * (n + 1) - 1 /\ (Consumed + 2) \div 2 = n + 1
    BY <2>3 DEF Handled
  <2>5. Handled' = n + 1
    BY <1>3, <2>4, HandleTakesOne DEF Handled
  <2>6. k = sent[c][2 * (n + 1) - 1]
    BY <2>1, <2>2, <2>4, NextLine
  <2>7. CommandsAmong(c, Handled)' = {j \in 1..n + 1 : sent[c][2 * j - 1] \in Commands}
    BY <2>1, <2>5 DEF CommandsAmong
  <2>8. /\ IsFiniteSet(CallsOf(c)) /\ IsFiniteSet(CommandsAmong(c, n))
        /\ CallsOf(c) = {} \/ log[Len(log)].client = c
        /\ Cardinality(CallsOf(c)) = Cardinality(CommandsAmong(c, n))
    BY <1>0, <2>2, <2>3, <2>4, CountsAreFinite DEF Turns
  <2> HIDE DEF n, k
  <2>9. CASE k \in Commands
    <3>1. log' = Append(log, [client |-> c, command |-> k])
      BY <1>3, <2>2, <2>9, HandleTakesOne DEF k
    <3>2. /\ Len(log) \in Nat /\ Len(log') = Len(log) + 1
          /\ \A i \in 1..Len(log) : log'[i] = log[i]
          /\ log'[Len(log) + 1].client = c
      BY <2>9, <3>1, LogGrows
    <3>3. CallsOf(c)' = CallsOf(c) \cup {Len(log) + 1}
      <4>1. ASSUME NEW i \in 1..Len(log) + 1
            PROVE  log'[i].client = c <=> i \in CallsOf(c) \cup {Len(log) + 1}
        <5>1. i = Len(log) + 1 \/ i \in 1..Len(log)
          BY <3>2, OneMore
        <5>2. CASE i = Len(log) + 1
          BY <3>2, <5>2
        <5>3. CASE i \in 1..Len(log)
          <6>1. i # Len(log) + 1
            BY <3>2, <5>3
          <6>2. QED
            BY <3>2, <5>3, <6>1 DEF CallsOf
        <5>4. QED
          BY <5>1, <5>2, <5>3
      <4>2. \A i \in CallsOf(c) \cup {Len(log) + 1} : i \in 1..Len(log) + 1
        BY <3>2 DEF CallsOf
      <4>3. CallsOf(c)' = {i \in 1..Len(log) + 1 : log'[i].client = c}
        BY <3>2 DEF CallsOf
      <4>4. QED
        BY <4>1, <4>2, <4>3
    <3>4. CommandsAmong(c, Handled)' = CommandsAmong(c, n) \cup {n + 1}
      <4>1. \A j \in 1..n + 1 : j = n + 1 \/ j \in 1..n
        BY <2>4, OneMore
      <4>2. n + 1 \in 1..n + 1 /\ \A j \in 1..n : j \in 1..n + 1
        BY <2>4
      <4>3. QED
        BY <2>6, <2>7, <2>9, <4>1, <4>2 DEF CommandsAmong
    <3>5. Len(log) + 1 \notin CallsOf(c) /\ n + 1 \notin CommandsAmong(c, n)
      BY <2>4, <3>2 DEF CallsOf, CommandsAmong
    <3>6. /\ Cardinality(CallsOf(c)') = Cardinality(CallsOf(c)) + 1
          /\ Cardinality(CommandsAmong(c, Handled)') = Cardinality(CommandsAmong(c, n)) + 1
      BY <2>8, <3>3, <3>4, <3>5, FS_AddElement
    <3>7. log'[Len(log')].client = c
      BY <3>2
    <3>8. QED
      BY <2>1, <2>2, <2>8, <3>6, <3>7 DEF Turns
  <2>10. CASE k \notin Commands
    <3>1. log' = log
      BY <1>3, <2>10, HandleTakesOne DEF k
    <3>2. CommandsAmong(c, Handled)' = CommandsAmong(c, n)
      <4>1. \A j \in 1..n + 1 : j = n + 1 \/ j \in 1..n
        BY <2>4, OneMore
      <4>2. \A j \in 1..n : j \in 1..n + 1
        BY <2>4
      <4>3. QED
        BY <2>6, <2>7, <2>10, <4>1, <4>2 DEF CommandsAmong
    <3>3. CallsOf(c)' = CallsOf(c)
      BY <3>1 DEF CallsOf
    <3>4. QED
      BY <2>1, <2>2, <2>8, <3>1, <3>2, <3>3 DEF Turns
  <2>11. QED
    BY <2>9, <2>10
<1>4. ASSUME NEW d \in Clients, SendPiece(d) PROVE Turns'
  <2>1. PICK piece \in Pieces : sent' = [sent EXCEPT ![d] = Append(@, piece)]
    BY <1>4 DEF SendPiece, Pieces
  <2>2. /\ serving' = serving /\ log' = log /\ Consumed' = Consumed /\ Handled' = Handled
        /\ serving # None /\ worker \in WithClient
    BY <1>0, <1>4 DEF SendPiece, Consumed, Handled, Lifecycle
  <2>3. PICK c \in Clients : c = serving
    BY <2>2, ServedClient
  <2>4. /\ Consumed \in Nat /\ Consumed % 2 = 0 /\ Consumed <= Len(sent[c])
        /\ sent[c] \in Seq(Pieces) /\ Len(sent[c]) \in Nat
    <3>1. /\ Consumed \in Nat /\ Consumed % 2 = 0 /\ Consumed + Len(pending) = received[c]
          /\ received[c] <= Len(sent[c]) /\ Len(pending) \in Nat /\ received[c] \in Nat
          /\ sent[c] \in Seq(Pieces) /\ Len(sent[c]) \in Nat
      BY <2>2, <2>3, ServedClient
    <3>2. QED
      BY <3>1
  <2>5. \A j \in 1..Handled : 2 * j - 1 \in 1..Len(sent[c])
    <3> DEFINE k == Consumed
               m == Len(sent[c])
    <3>1. k \in Nat /\ m \in Nat /\ k % 2 = 0 /\ k <= m
      BY <2>4
    <3> HIDE DEF k, m
    <3>2. \A j \in 1..k \div 2 : 2 * j - 1 \in 1..m
      BY <3>1
    <3>3. QED
      BY <3>2 DEF k, m, Handled
  <2>6. \A i \in 1..Len(sent[c]) : sent'[c][i] = sent[c][i]
    <3>1. sent'[c] = sent[c] \/ sent'[c] = Append(sent[c], piece)
      BY <1>0, <2>1, <2>3 DEF TypeOK
    <3>2. QED
      BY <2>4, <3>1, AppendProperties
  <2>7. CommandsAmong(c, Handled)' = CommandsAmong(c, Handled)
    BY <2>2, <2>5, <2>6 DEF CommandsAmong
  <2>8. CallsOf(c)' = CallsOf(c)
    BY <2>2 DEF CallsOf
  <2>9. QED
    BY <1>0, <2>2, <2>3, <2>7, <2>8 DEF Turns
<1>5. CASE HangUp
  BY <1>5 DEF HangUp
<1>6. CASE UNCHANGED <<serving, pending, sent, received, log>>
  BY <1>0, <1>6 DEF Turns, CallsOf, CommandsAmong, Handled, Consumed
<1>7. QED
  BY <1>1, <1>2, <1>3, <1>4, <1>5, <1>6 DEF Next, Owner, Worker, Client, Start, BeginStop,
     CloseListener, Join, TestRunning, EnterAccept, AcceptFails, TestRunningForClient,
     ReceiveTimesOut, ReceiveEnds, NoMoreLines, SendReply, SendFails,
     Connect, Read, Close, vars, clientVars
\* An answer is in the replies of the client before the next line is cut off.
LEMMA AnswersStep == Inv /\ [Next]_vars => Answers'
<1> SUFFICES ASSUME Inv, [Next]_vars PROVE Answers'
  OBVIOUS
<1>0. /\ TypeOK /\ Lifecycle /\ Answers /\ None \notin Clients
      /\ log \in Seq([client : Clients, command : Commands]) /\ Len(log) \in Nat
      /\ replies \in [Clients -> Seq(Nat)]
  BY BoundsAssumption DEF Inv, TypeOK
<1>1. CASE Accept
  <2>1. /\ backlog # <<>> /\ serving' = Head(backlog) /\ Head(backlog) = backlog[1]
        /\ backlog \in Seq(Clients) /\ 1 \in 1..Len(backlog)
        /\ replies' = replies /\ log' = log /\ worker' = "head"
    BY <1>0, <1>1, EmptySeq DEF Accept, TypeOK
  <2>2. PICK c \in Clients : c = serving' /\ Contains(backlog, c)
    BY <2>1, ElementOfSeq DEF Contains
  <2>3. replies[c] = <<>> /\ CallsOf(c) = {}
    BY <2>2 DEF Inv, Strangers
  <2>4. QueriesAsked(c)' = {} /\ AnswersTo(c)' = {}
    BY <2>1, <2>3 DEF QueriesAsked, AnswersTo, CallsOf
  <2>5. QED
    BY <2>1, <2>2, <2>4 DEF Answers
<1>2. CASE HandleLine
  <2>1. serving' = serving /\ worker = "lines" /\ replies' = replies
    BY <1>2 DEF HandleLine, clientVars
  <2>2. PICK c \in Clients : c = serving
    BY <2>1, ServedClient DEF WithClient
  <2>3. QueriesAsked(c) = AnswersTo(c) /\ AnswersTo(c)' = AnswersTo(c)
    BY <1>0, <2>1, <2>2 DEF Answers, AnswersTo
  <2> DEFINE k == pending[1]
             n == Len(log)
  <2>4. CASE k \in Commands
    <3>1. log' = Append(log, [client |-> c, command |-> k])
      BY <1>2, <2>2, <2>4, HandleTakesOne
    <3>2. IF k \in Queries THEN worker' = "send" /\ response' = Len(log')
          ELSE worker' = worker /\ response' = response
      BY <1>2, <2>4, HandleTakesOne
    <3> HIDE DEF k
    <3>3. /\ n \in Nat /\ Len(log') = n + 1
          /\ \A i \in 1..n : log'[i] = log[i]
          /\ log'[n + 1].client = c /\ log'[n + 1].command = k
      BY <2>4, <3>1, LogGrows
    <3> HIDE DEF n
    <3>4. /\ QueriesAsked(c) = {i \in 1..n : log[i].client = c /\ log[i].command \in Queries}
          /\ QueriesAsked(c)' = {i \in 1..n + 1 : log'[i].client = c /\ log'[i].command \in Queries}
      BY <3>3 DEF QueriesAsked, n
    <3>5. \A i \in 1..n + 1 : i = n + 1 \/ i \in 1..n
      BY <3>3, OneMore
    <3>6. n + 1 \in 1..n + 1 /\ n + 1 \notin 1..n /\ \A i \in 1..n : i \in 1..n + 1
      BY <3>3
    <3>7. CASE k \in Queries
      <4>1. QueriesAsked(c)' = QueriesAsked(c) \cup {n + 1}
        BY <3>3, <3>4, <3>5, <3>6, <3>7
      <4>2. n + 1 \notin QueriesAsked(c)
        BY <3>4, <3>6
      <4>3. worker' = "send" /\ response' = n + 1 /\ response' = Len(log')
        BY <3>2, <3>3, <3>7
      <4>4. QED
        BY <2>1, <2>2, <2>3, <4>1, <4>2, <4>3 DEF Answers
    <3>8. CASE k \notin Queries
      <4>1. QueriesAsked(c)' = QueriesAsked(c)
        BY <3>3, <3>4, <3>5, <3>6, <3>8
      <4>2. worker' = "lines"
        BY <2>1, <3>2, <3>8
      <4>3. QED
        BY <2>1, <2>2, <2>3, <4>1, <4>2 DEF Answers
    <3>9. QED
      BY <3>7, <3>8
  <2>5. CASE k \notin Commands
    <3>1. log' = log /\ worker' = worker
      BY <1>2, <2>5, HandleTakesOne
    <3>2. QueriesAsked(c)' = QueriesAsked(c)
      BY <3>1 DEF QueriesAsked
    <3>3. QED
      BY <2>1, <2>2, <2>3, <3>1, <3>2 DEF Answers
  <2>6. QED
    BY <2>4, <2>5
<1>3. CASE SendReply
  <2>1. /\ serving' = serving /\ worker = "send" /\ worker' = "lines" /\ log' = log
        /\ replies' = [replies EXCEPT ![serving] = Append(@, response)]
    BY <1>3 DEF SendReply
  <2>2. PICK c \in Clients : c = serving
    BY <2>1, ServedClient DEF WithClient
  <2>3. response = Len(log) /\ QueriesAsked(c) = AnswersTo(c) \cup {response}
    BY <1>0, <2>1, <2>2 DEF Answers
  <2> DEFINE r == replies[c]
  <2>4. r \in Seq(Nat) /\ Len(r) \in Nat /\ replies'[c] = Append(r, response)
    BY <1>0, <2>1, <2>2
  <2> HIDE DEF r
  <2>5. /\ Len(Append(r, response)) = Len(r) + 1
        /\ \A i \in 1..Len(r) : Append(r, response)[i] = r[i]
        /\ Append(r, response)[Len(r) + 1] = response
    BY <1>0, <2>3, <2>4, AppendProperties
  <2>6. AnswersTo(c)' = AnswersTo(c) \cup {response}
    <3>1. /\ AnswersTo(c) = {r[i] : i \in 1..Len(r)}
          /\ AnswersTo(c)' = {Append(r, response)[i] : i \in 1..Len(r) + 1}
      BY <2>4, <2>5 DEF AnswersTo, r
    <3>2. /\ \A i \in 1..Len(r) + 1 : i = Len(r) + 1 \/ i \in 1..Len(r)
          /\ Len(r) + 1 \in 1..Len(r) + 1 /\ \A i \in 1..Len(r) : i \in 1..Len(r) + 1
      BY <2>4, OneMore
    <3>3. QED
      BY <2>5, <3>1, <3>2
  <2>7. QueriesAsked(c)' = QueriesAsked(c)
    BY <2>1 DEF QueriesAsked
  <2>8. QED
    BY <2>1, <2>2, <2>3, <2>6, <2>7 DEF Answers
<1>4. CASE TestRunningForClient \/ Receive \/ ReceiveTimesOut \/ NoMoreLines
  <2>1. /\ serving' = serving /\ log' = log /\ replies' = replies
        /\ worker \in {"head", "recv", "lines"} /\ worker' # "send"
    BY <1>4 DEF TestRunningForClient, Receive, ReceiveTimesOut, NoMoreLines, clientVars
  <2>2. QueriesAsked(serving)' = QueriesAsked(serving) /\ AnswersTo(serving)' = AnswersTo(serving)
    BY <2>1 DEF QueriesAsked, AnswersTo
  <2>3. QED
    BY <1>0, <2>1, <2>2 DEF Answers
<1>5. CASE ReceiveEnds \/ SendFails \/ HangUp \/ TestRunning \/ EnterAccept \/ AcceptFails
           \/ Start \/ Join
  BY <1>5 DEF ReceiveEnds, SendFails, HangUp, TestRunning, EnterAccept, AcceptFails,
     Start, Join, Answers
<1>6. CASE UNCHANGED <<serving, worker, response, log, replies>>
  <2>1. QueriesAsked(serving)' = QueriesAsked(serving) /\ AnswersTo(serving)' = AnswersTo(serving)
    BY <1>6 DEF QueriesAsked, AnswersTo
  <2>2. QED
    BY <1>0, <1>6, <2>1 DEF Answers
<1>7. QED
  BY <1>1, <1>2, <1>3, <1>4, <1>5, <1>6 DEF Next, Owner, Worker, Client, BeginStop,
     CloseListener, Connect, SendPiece, Read, Close, vars, clientVars

LEMMA StepHolds == Inv /\ [Next]_vars => Inv'
BY TypeStep, LifecycleStep, ConnectionsStep, StreamStep, CutStep, StrangersStep, TurnsStep,
   AnswersStep DEF Inv

LEMMA Invariance == Spec => []Inv
BY InitHolds, StepHolds, PTL DEF Spec

\* When stop has returned there is no thread, no socket and no client left.
THEOREM StopLeavesNothing == Spec => []StoppedLeavesNothing
<1>1. Inv => StoppedLeavesNothing
  <2>1. SUFFICES ASSUME Inv, owner = "down"
                 PROVE  /\ worker = "off" /\ ~running /\ ~listener /\ backlog = <<>>
                        /\ serving = None
                        /\ \A c \in Clients : link[c] # "open"
    BY Zenon DEF StoppedLeavesNothing
  <2>2. TypeOK /\ Lifecycle /\ Connections
    BY <2>1 DEF Inv
  <2>3. worker = "off" /\ ~running /\ ~listener /\ serving = None
    BY <2>1, <2>2 DEF Lifecycle, WithClient
  <2>4. backlog = <<>>
    BY <2>1, <2>2, <2>3 DEF Connections
  <2>5. \A c \in Clients : link[c] # "open"
    BY <2>2, <2>3, <2>4, BoundsAssumption DEF Connections, Contains
  <2>6. QED
    BY <2>3, <2>4, <2>5
<1>2. QED
  BY <1>1, Invariance, PTL

\* From then on the handler is not called and nothing is sent, until a start.
THEOREM StopIsSilent == Spec => SilentAfterStop
<1>1. Inv /\ [Next]_vars => (owner = "down" => UNCHANGED <<log, replies>>)
  <2> SUFFICES ASSUME Inv, [Next]_vars, owner = "down" PROVE UNCHANGED <<log, replies>>
    OBVIOUS
  <2>1. worker = "off"
    BY DEF Inv, Lifecycle
  <2>2. QED
    BY <2>1 DEF Next, Owner, Worker, Client, Start, BeginStop, CloseListener, Join,
       TestRunning, EnterAccept, Accept, AcceptFails, HangUp, TestRunningForClient, Receive,
       ReceiveTimesOut, ReceiveEnds, HandleLine, NoMoreLines, SendReply, SendFails,
       Connect, SendPiece, Read, Close, vars, clientVars
<1>2. QED
  BY <1>1, Invariance, PTL DEF Spec, SilentAfterStop
-----------------------------------------------------------------------------
\* The lines of a client: every text that is followed by its newline.
LEMMA LinesOfClient ==
    ASSUME Inv, NEW c \in Clients
    PROVE  /\ CompleteLines(c) \in Seq(Texts)
           /\ Len(CompleteLines(c)) = Len(sent[c]) \div 2
           /\ \A i \in 1..Len(sent[c]) \div 2 : CompleteLines(c)[i] = sent[c][2 * i - 1]
<1> DEFINE m == Len(sent[c])
           n == m \div 2
<1>1. m \in Nat /\ \A i \in 1..m : i % 2 = 1 => sent[c][i] \in Texts
  BY DEF Inv, TypeOK, Stream
<1> HIDE DEF m
<1>2. n \in Nat /\ \A i \in 1..n : 2 * i - 1 \in 1..m /\ (2 * i - 1) % 2 = 1
  BY <1>1
<1>3. CompleteLines(c) = [i \in 1..n |-> sent[c][2 * i - 1]]
  BY DEF CompleteLines, m
<1> HIDE DEF n
<1>4. CompleteLines(c) \in [1..n -> Texts]
  BY <1>1, <1>2, <1>3
<1>5. CompleteLines(c) \in Seq(Texts) /\ Len(CompleteLines(c)) = n
  BY <1>2, <1>4
<1>6. QED
  BY <1>3, <1>5 DEF m, n

LEMMA ServiceInit == Init => Service!Init
<1> SUFFICES ASSUME Init PROVE Service!Init
  OBVIOUS
<1>1. Inv
  BY InitHolds
<1>2. ASSUME NEW c \in Clients PROVE CompleteLines(c) = <<>>
  <2>1. Len(sent[c]) = 0 /\ 0 \div 2 = 0
    BY DEF Init
  <2>2. CompleteLines(c) \in Seq(Texts) /\ Len(CompleteLines(c)) = 0
    BY <1>1, <2>1, LinesOfClient
  <2>3. QED
    BY <2>2, EmptySeq
<1>3. [c \in Clients |-> CompleteLines(c)] = [c \in Clients |-> <<>>]
  BY <1>2
<1>4. QED
  BY <1>3 DEF Service!Init, Init

\* A newline on the way completes a line; half a line is nobody's business.
LEMMA SendPieceSubmits ==
    ASSUME Inv, NEW c \in Clients, SendPiece(c)
    PROVE  Service!Submit(c) \/ UNCHANGED Service!vars
<1> DEFINE s == sent[c]
           m == Len(s)
<1>1. PICK piece \in Pieces : sent' = [sent EXCEPT ![c] = Append(s, piece)]
  BY DEF SendPiece, Pieces
<1>2. /\ s \in Seq(Pieces) /\ m \in Nat /\ sent \in [Clients -> Seq(Pieces)]
      /\ log' = log /\ replies' = replies
  BY DEF Inv, TypeOK, SendPiece
<1>3. sent'[c] = Append(s, piece) /\ \A d \in Clients \ {c} : sent'[d] = sent[d]
  BY <1>1, <1>2
<1> HIDE DEF s
<1>4. Len(Append(s, piece)) = m + 1 /\ \A i \in 1..m : Append(s, piece)[i] = s[i]
  BY <1>2, AppendProperties
<1>5. \A d \in Clients \ {c} : CompleteLines(d)' = CompleteLines(d)
  BY <1>3 DEF CompleteLines
<1>6. CompleteLines(c)' = [i \in 1..(m + 1) \div 2 |-> Append(s, piece)[2 * i - 1]]
  BY <1>3, <1>4 DEF CompleteLines
<1>7. /\ CompleteLines(c) \in Seq(Texts) /\ Len(CompleteLines(c)) = m \div 2
      /\ \A i \in 1..m \div 2 : CompleteLines(c)[i] = s[2 * i - 1]
      /\ CompleteLines(c) = [i \in 1..m \div 2 |-> s[2 * i - 1]]
  BY LinesOfClient DEF s, CompleteLines
<1> HIDE DEF m
<1>8. CASE m % 2 = 0
  <2>1. (m + 1) \div 2 = m \div 2 /\ \A i \in 1..m \div 2 : 2 * i - 1 \in 1..m
    BY <1>2, <1>8
  <2>2. CompleteLines(c)' = CompleteLines(c)
    BY <1>4, <1>6, <1>7, <2>1
  <2>3. [d \in Clients |-> CompleteLines(d)]' = [d \in Clients |-> CompleteLines(d)]
    BY <1>5, <2>2
  <2>4. QED
    BY <1>2, <2>3 DEF Service!vars
<1>9. CASE m % 2 = 1
  <2> DEFINE n == m \div 2
             line == s[m]
  <2>1. /\ (m + 1) \div 2 = n + 1 /\ n \in Nat /\ 2 * (n + 1) - 1 = m /\ m \in 1..m
        /\ \A i \in 1..n : 2 * i - 1 \in 1..m
    BY <1>2, <1>9
  <2>2. line \in Texts
    BY <1>9, <2>1 DEF Inv, Stream, s, m
  <2> HIDE DEF n, line
  <2>3. CompleteLines(c)' = Append(CompleteLines(c), line)
    <3> DEFINE old == CompleteLines(c)
               new == CompleteLines(c)'
    <3>1. /\ Append(old, line) \in Seq(Texts) /\ Len(Append(old, line)) = n + 1
          /\ \A i \in 1..n : Append(old, line)[i] = old[i]
          /\ Append(old, line)[n + 1] = line
      <4>1. old \in Seq(Texts) /\ Len(old) = n
        BY <1>7 DEF n
      <4> HIDE DEF old
      <4>2. QED
        BY <2>2, <4>1, AppendProperties
    <3>2. new = [i \in 1..n + 1 |-> Append(s, piece)[2 * i - 1]]
      BY <1>6, <2>1
    <3>3. \A i \in 1..n : Append(s, piece)[2 * i - 1] = old[i]
      BY <1>4, <1>7, <2>1 DEF n
    <3>4. Append(s, piece)[2 * (n + 1) - 1] = line
      BY <1>4, <2>1 DEF line
    <3> HIDE DEF old, new
    <3>5. Append(old, line) \in [1..n + 1 -> Texts]
      BY <2>1, <3>1, LenProperties
    <3>6. ASSUME NEW i \in 1..n + 1 PROVE Append(s, piece)[2 * i - 1] = Append(old, line)[i]
      <4>1. i = n + 1 \/ i \in 1..n
        BY <2>1, OneMore
      <4>2. QED
        BY <3>1, <3>3, <3>4, <4>1
    <3>7. new = Append(old, line)
      BY <3>2, <3>5, <3>6
    <3>8. QED
      BY <3>7 DEF old, new
  <2>4. [d \in Clients |-> CompleteLines(d)]'
           = [[d \in Clients |-> CompleteLines(d)] EXCEPT ![c] = Append(@, line)]
    BY <1>5, <2>3
  <2>5. QED
    BY <1>2, <2>2, <2>4 DEF Service!Submit, Texts, Commands
<1>10. QED
  BY <1>2, <1>8, <1>9

\* The instance has FiniteSets of its own.
LEMMA SameCardinality == \A S : Service!Cardinality(S) = Cardinality(S)
BY DEF Service!Cardinality, Cardinality

\* A command that is handled is the next one of its client, and its turn.
LEMMA HandleLineExecutes ==
    ASSUME Inv, HandleLine
    PROVE  (\E c \in Clients : Service!Execute(c)) \/ UNCHANGED Service!vars
<1>1. /\ worker = "lines" /\ FirstNewLine # 0 /\ sent' = sent /\ replies' = replies
  BY DEF HandleLine, clientVars
<1>2. PICK c \in Clients : c = serving
  BY <1>1, ServedClient DEF WithClient
<1>3. [d \in Clients |-> CompleteLines(d)]' = [d \in Clients |-> CompleteLines(d)]
  BY <1>1 DEF CompleteLines
<1> DEFINE k == pending[1]
           n == Handled
           lines == [d \in Clients |-> CompleteLines(d)]
<1>4. CASE k \in Commands
  <2>1. log' = Append(log, [client |-> c, command |-> k])
    BY <1>2, <1>4, HandleTakesOne
  <2>2. /\ Consumed \in Nat /\ Consumed % 2 = 0 /\ serving # None
        /\ Consumed + 2 <= received[c] /\ received[c] <= Len(sent[c])
        /\ received[c] \in Nat /\ Len(sent[c]) \in Nat
        /\ k = sent[c][Consumed + 1]
    BY <1>1, <1>2, ServedClient, NextLine DEF WithClient
  <2>3. n \in Nat /\ Consumed + 1 = 2 * (n + 1) - 1 /\ n + 1 \in 1..Len(sent[c]) \div 2
    <3> DEFINE a == Consumed
               m == Len(sent[c])
    <3>1. a \in Nat /\ m \in Nat /\ a % 2 = 0 /\ a + 2 <= m
      BY <2>2
    <3> HIDE DEF a, m
    <3>2. a \div 2 \in Nat /\ a + 1 = 2 * (a \div 2 + 1) - 1 /\ a \div 2 + 1 \in 1..m \div 2
      BY <3>1
    <3>3. QED
      BY <3>2 DEF a, m, Handled
  <2>4. /\ Len(CompleteLines(c)) = Len(sent[c]) \div 2
        /\ \A i \in 1..Len(sent[c]) \div 2 : CompleteLines(c)[i] = sent[c][2 * i - 1]
    BY LinesOfClient
  <2>5. n + 1 \in 1..Len(lines[c]) /\ lines[c][n + 1] = k
    BY <2>2, <2>3, <2>4
  <2>6. Service!Executed(c) = CallsOf(c)
    BY DEF Service!Executed, CallsOf
  <2>7. Service!Before(c, n + 1) = CommandsAmong(c, n)
    <3> DEFINE m == Len(sent[c]) \div 2
    <3>types. n \in Nat /\ n + 1 \in 1..m /\ m \in Nat
      <4>1. m \in Nat
        <5> DEFINE l == Len(sent[c])
        <5>1. l \in Nat
          BY <2>2
        <5> HIDE DEF l
        <5>2. l \div 2 \in Nat
          BY <5>1
        <5>3. QED
          BY <5>2 DEF l
      <4>2. QED
        BY <2>3, <4>1
    <3>1. (n + 1) - 1 = n /\ \A j \in 1..n : j \in 1..m
      <4> HIDE DEF n, m
      <4>1. QED
        BY <3>types
    <3>2. \A j \in 1..n : lines[c][j] = sent[c][2 * j - 1]
      BY <2>4, <3>1
    <3> HIDE DEF n
    <3>3. QED
      BY <3>1, <3>2 DEF Service!Before, CommandsAmong, Commands
  <2>8. /\ CallsOf(c) = {} \/ log[Len(log)].client = c
        /\ Cardinality(CallsOf(c)) = Cardinality(CommandsAmong(c, n))
    BY <1>2, <2>2 DEF Inv, Turns
  <2>9. Service!Asked(c) = Service!Answered(c)
    <3>1. QueriesAsked(c) = AnswersTo(c)
      BY <1>1, <1>2 DEF Inv, Answers
    <3>2. QED
      BY <3>1 DEF Service!Asked, Service!Answered, QueriesAsked, AnswersTo
  <2> HIDE DEF n, lines, k
  <2>10. /\ k \in Queries \cup Quiet
         /\ Service!Cardinality(Service!Before(c, n + 1)) = Service!Cardinality(Service!Executed(c))
    BY <1>4, <2>6, <2>7, <2>8, SameCardinality DEF Commands
  <2>11. \E line \in 1..Len(lines[c]) :
            /\ lines[c][line] \in Queries \cup Quiet
            /\ Service!Cardinality(Service!Before(c, line)) = Service!Cardinality(Service!Executed(c))
            /\ log' = Append(log, [client |-> c, command |-> lines[c][line]])
    BY <2>1, <2>5, <2>10
  <2>12. Service!Execute(c)
    <3>1. Service!Executed(c) = {} \/ log[Len(log)].client = c
      BY <2>6, <2>8
    <3>2. UNCHANGED <<[d \in Clients |-> CompleteLines(d)], replies>>
      BY <1>1, <1>3
    <3>3. QED
      BY <2>9, <2>11, <3>1, <3>2, Zenon DEF Service!Execute, lines
  <2>13. QED
    BY <2>12
<1>5. CASE k \notin Commands
  <2>1. log' = log
    BY <1>5, HandleTakesOne
  <2>2. QED
    BY <1>1, <1>3, <2>1 DEF Service!vars
<1>6. QED
  BY <1>4, <1>5

\* What send_all sends answers a query of its client that had no answer.
LEMMA SendReplyAnswers ==
    ASSUME Inv, SendReply
    PROVE  \E c \in Clients : Service!Answer(c)
<1>1. /\ worker = "send" /\ sent' = sent /\ log' = log
      /\ replies' = [replies EXCEPT ![serving] = Append(@, response)]
  BY DEF SendReply
<1>2. PICK c \in Clients : c = serving
  BY <1>1, ServedClient DEF WithClient
<1>3. [d \in Clients |-> CompleteLines(d)]' = [d \in Clients |-> CompleteLines(d)]
  BY <1>1 DEF CompleteLines
<1>4. response \in QueriesAsked(c) \ AnswersTo(c)
  BY <1>1, <1>2 DEF Inv, Answers
<1>5. response \in Service!Asked(c) \ Service!Answered(c)
  BY <1>4 DEF Service!Asked, Service!Answered, QueriesAsked, AnswersTo
<1>6. Service!Answer(c)
  BY <1>1, <1>2, <1>3, <1>5 DEF Service!Answer
<1>7. QED
  BY <1>6

\* The server with its sockets, buffers and threads implements CommandService:
\* every command a client completed is handled in order, once, and a query is
\* answered before the next command of its client.
THEOREM ServerIsCommandService == Spec => ImplementsCommandService
<1>1. Inv /\ [Next]_vars => [Service!Next]_(Service!vars)
  <2> SUFFICES ASSUME Inv, [Next]_vars PROVE [Service!Next]_(Service!vars)
    OBVIOUS
  <2>1. CASE \E c \in Clients : SendPiece(c)
    BY <2>1, SendPieceSubmits DEF Service!Next
  <2>2. CASE HandleLine
    BY <2>2, HandleLineExecutes DEF Service!Next
  <2>3. CASE SendReply
    BY <2>3, SendReplyAnswers DEF Service!Next
  <2>4. CASE UNCHANGED <<sent, log, replies>>
    <3>1. [d \in Clients |-> CompleteLines(d)]' = [d \in Clients |-> CompleteLines(d)]
      BY <2>4 DEF CompleteLines
    <3>2. QED
      BY <2>4, <3>1 DEF Service!vars
  <2>5. QED
    BY <2>1, <2>2, <2>3, <2>4 DEF Next, Owner, Worker, Client, Start, BeginStop, CloseListener,
       Join, TestRunning, EnterAccept, Accept, AcceptFails, HangUp, TestRunningForClient,
       Receive, ReceiveTimesOut, ReceiveEnds, NoMoreLines, SendFails, Connect, Read, Close,
       vars, clientVars
<1>2. QED
  BY <1>1, ServiceInit, Invariance, PTL DEF Spec, ImplementsCommandService, Service!Spec
=============================================================================
