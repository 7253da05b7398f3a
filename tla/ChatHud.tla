------------------------------ MODULE ChatHud -------------------------------
(***************************************************************************)
(* The chat on the screen: messages come over the API into the game        *)
(* (GameState::post_chat), whose list new_world and load clear; a frame of *)
(* the client (ClientApp.cpp) hands those past its cursor to HudRenderer   *)
(* (client/HudRenderer.cpp), which keeps the last lines, each with the     *)
(* time it came, and shows those that are young.  The cursor is never set  *)
(* back, and there are frames with a chat only on the screen of the game.  *)
(*                                                                         *)
(* Messages are numbered in the order they are posted.                     *)
(***************************************************************************)
EXTENDS Integers, Sequences, SequencesExt, FiniteSetsExt

CONSTANTS
    MaxLines,       \* the lines HudRenderer keeps: 64
    MaxVisible,     \* the lines a frame shows: 10
    Lifetime,       \* how long a line is shown: 10 seconds
    MaxPosts,       \* a bound on the messages
    MaxTime         \* a bound on the time

ASSUME BoundsAssumption ==
    /\ MaxLines \in Nat \ {0} /\ MaxVisible \in 1 .. MaxLines
    /\ Lifetime \in Nat /\ MaxPosts \in Nat /\ MaxTime \in Nat

VARIABLES
    kind,           \* the screen (kind_ of Screen)
    messages,       \* GameState's chat_messages_
    known,          \* known_chat_messages, the cursor
    chat,           \* the lines of HudRenderer
    now,            \* the time of the last frame
    visible,        \* what it showed
    posted,         \* the number of messages posted in all the worlds
    skipped         \* the cursor as it was when the world began

chatVars == <<kind, messages, known, chat, now, visible, posted, skipped>>

Line == [message : 1 .. MaxPosts, timestamp : 0 .. MaxTime]

ChatInit ==
    /\ kind = "Title"
    /\ messages = <<>> /\ known = 0
    /\ chat = <<>> /\ now = 0 /\ visible = <<>>
    /\ posted = 0 /\ skipped = 0

LastOf(s, n) == SubSeq(s, Max({1, Len(s) - n + 1}), Len(s))

\* Mutant of PushChat: the oldest lines are kept.
PushChatFirst(lines) == SubSeq(chat \o lines, 1, Min({Len(chat \o lines), MaxLines}))

\* push_chat, for one line after the other.
PushChat(lines) == LastOf(chat \o lines, MaxLines)

\* The lines that are young, in order.
Young(lines, time) ==
    LET young == {i \in DOMAIN lines : /\ lines[i].timestamp <= time
                                       /\ time - lines[i].timestamp <= Lifetime}
        at(k) == CHOOSE i \in young : Cardinality({j \in young : j <= i}) = k
    IN  [k \in 1 .. Cardinality(young) |-> lines[at(k)]]

\* Mutant of VisibleChat: of too many young lines the newest are cut off.
VisibleChatOldest(lines, time) ==
    LET young == Young(lines, time)
    IN  [i \in 1 .. Min({Len(young), MaxVisible}) |-> young[i].message]

\* visible_chat.
VisibleChat(lines, time) ==
    LastOf([i \in DOMAIN Young(lines, time) |-> Young(lines, time)[i].message], MaxVisible)

\* A frame with a chat; the API is locked out.  It takes any time.
Frame ==
    /\ kind = "Game"
    /\ now' \in now .. MaxTime
    /\ LET new == [i \in 1 .. Max({0, Len(messages) - known}) |->
                       [message |-> messages[known + i], timestamp |-> now']]
       IN  chat' = PushChat(new)
    /\ known' = Max({known, Len(messages)})
    /\ visible' = VisibleChat(chat', now')
    /\ UNCHANGED <<kind, messages, posted, skipped>>

\* A frame of another screen.
OtherFrame ==
    /\ kind # "Game"
    /\ now' \in now .. MaxTime
    /\ visible' = <<>>
    /\ UNCHANGED <<kind, messages, known, chat, posted, skipped>>

\* GameState::post_chat, on the thread of the API.
PostChat ==
    /\ posted < MaxPosts
    /\ posted' = posted + 1 /\ messages' = Append(messages, posted')
    /\ UNCHANGED <<kind, known, chat, now, visible, skipped>>

\* new_world by N or a load by L on the title, a load by F9 in the game.
ReplaceWorld ==
    /\ kind \in {"Title", "Game"}
    /\ kind' = "Game"
    /\ messages' = <<>> /\ skipped' = known
    /\ UNCHANGED <<known, chat, now, visible, posted>>

\* Escape, Return and T; Return on the title needs a world, which there may be.
KeyPressed ==
    /\ kind' \in CASE kind = "Pause" -> {"Game", "Title"}
                     [] kind = "Game"  -> {"Pause"}
                     [] OTHER            -> {"Game"}
    /\ UNCHANGED <<messages, known, chat, now, visible, posted, skipped>>

ChatNext == Frame \/ OtherFrame \/ PostChat \/ ReplaceWorld \/ KeyPressed

ChatSpec == ChatInit /\ [][ChatNext]_chatVars

-----------------------------------------------------------------------------
\* The lines kept are the last messages handed over: each once, in the order
\* they were posted, over all the worlds, with no time out of order.  Of this
\* world they are all the messages up to the cursor but the first ones: as
\* many as the cursor had counted in the worlds before are never shown, since
\* it was not set back.
LinesAreTheLatest ==
    LET here == {i \in 1 .. Len(messages) : skipped < i /\ i <= known}
        kept == {chat[i].message : i \in DOMAIN chat}
    IN  /\ Len(chat) <= MaxLines
        /\ \A i, j \in DOMAIN chat : i < j =>
              /\ chat[i].message < chat[j].message
              /\ chat[i].timestamp <= chat[j].timestamp
        /\ \A i \in here : i > known - MaxLines => messages[i] \in kept
        /\ \A i \in DOMAIN messages : messages[i] \in kept => i \in here

\* A frame shows every message that came since the frame before, up to the
\* number it has room for, however long they waited behind other screens, and
\* none that was on the screen for longer than its lifetime.
FramesShowWhatIsNew ==
    [][ Frame =>
        /\ \A i \in known + 1 .. Len(messages) :
              i > Len(messages) - MaxVisible => messages[i] \in ToSet(visible')
        /\ \A i \in DOMAIN chat :
              chat[i].message \in ToSet(visible') => now' - chat[i].timestamp <= Lifetime ]_chatVars
=============================================================================
