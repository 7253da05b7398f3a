------------------------------ MODULE Program -------------------------------
(***************************************************************************)
(* The life of the program around one world file: main (headless) and      *)
(* ClientApp::run (with a window), the three screens, the storage router   *)
(* that decides what a file is, and the crash or kill that may come at     *)
(* any time, in the middle of a save as well.                              *)
(*                                                                         *)
(* A game is reduced to whether a world was generated, its seed and the    *)
(* set of edits made to it; GameState shows that a file in the project's   *)
(* own format brings exactly that back.  game_mutex makes one action of    *)
(* every key and every API command, except that a save has two steps: the  *)
(* file is truncated, and the file is written.                             *)
(***************************************************************************)
EXTENDS Naturals

CONSTANTS
    Seeds,          \* the seeds of worlds; 0 is also that of no world
    Edits,          \* the changes players and the API make
    Extension,      \* the format the extension of the path stands for
    InitialFiles,   \* what may lie at the path before the first launch
    Damaged,        \* the contents of a file that no storage can load
    None            \* no file, no option, no save under way

Game == [generated : BOOLEAN, seed : Seeds, edits : SUBSET Edits]

\* A file as load_world and save_world tell them apart.
File == [format : {"legacy", "dat"}, game : Game]
        \cup [format : {"legacy", "unknown"}, game : {Damaged}]

ASSUME SeedsAssumption == Seeds \subseteq Nat /\ 0 \in Seeds
ASSUME ExtensionAssumption == Extension \in {"legacy", "dat"}
ASSUME FilesAssumption == InitialFiles \subseteq File \cup {None}
ASSUME NoneAssumption == None \notin File \cup Game \cup Seeds /\ Damaged \notin Game

VARIABLES
    phase,          \* of the process: down, starting, playing, stopping (its loop is
                    \* over) or joining (in ApiServer::stop)
    mode,           \* headless or client
    seedOption,     \* --seed
    screen,         \* the client's screen
    game,           \* the GameState
    file,           \* what lies at the path
    saving,         \* the file being written, None outside save_world
    interrupted,    \* keep_running = 0
    running,        \* the flag of the client's loop
    left,           \* history: the world the last orderly exit was to keep
    worker          \* the API server's thread: off, in accept, at a client, held up
                    \* in send by a client, or ended

vars == <<phase, mode, seedOption, screen, game, file, saving, interrupted, running, left, worker>>

NoWorld == [generated |-> FALSE, seed |-> 0, edits |-> {}]
New(s) == [generated |-> TRUE, seed |-> s, edits |-> {}]

Init ==
    /\ phase = "down" /\ mode = "headless" /\ seedOption = None /\ screen = "Title"
    /\ game = NoWorld
    /\ file \in InitialFiles
    /\ saving = None /\ interrupted = FALSE /\ running = FALSE
    /\ left = None /\ worker = "off"

-----------------------------------------------------------------------------
(* StorageRouter.                                                          *)

\* Mutant of Loads: the contents are not checked.
LoadsAnything(f) == f # None

\* load_world succeeds.
Loads(f) == f # None /\ f.game # Damaged

\* Mutant of SaveFormat: a file that is not recognised is written over.
SaveFormatOver(f) == IF f = None \/ f.format = "unknown" THEN Extension ELSE f.format

\* The format save_world writes, "unknown" if it refuses.
SaveFormat(f) == IF f = None THEN Extension ELSE f.format

\* What a format keeps of a game: a level.dat has the seed and no edits, and
\* loading it generates a world.
Image(format, g) ==
    [format |-> format, game |-> IF format = "dat" THEN New(g.seed) ELSE g]

\* What a file of the project's own format may be read as that lacks its last
\* byte, or a digit of its last number: the game still, or one whose last
\* change is another.
CutShort(g) == {g} \cup {[g EXCEPT !.edits = (@ \ {e}) \cup {d}] : e \in g.edits, d \in Edits}

\* A file that was truncated and not written to its end.  A level.dat of the
\* wrong length is no level.dat; a file of the project's own format is
\* recognised by its first bytes, and nothing in it marks the end.
Torn(format, g) ==
    [format : {"unknown"} \cup ({format} \ {"dat"}), game : {Damaged}]
    \cup [format : {format} \ {"dat"}, game : CutShort(g)]

\* save_world up to its first write; a refusal changes nothing.
BeginSave(g) ==
    IF SaveFormat(file) = "unknown" THEN UNCHANGED <<file, saving>>
    ELSE /\ file' \in Torn(SaveFormat(file), g)
         /\ saving' = Image(SaveFormat(file), g)

FinishSave ==
    /\ saving # None
    /\ file' = saving /\ saving' = None
    /\ UNCHANGED <<phase, mode, seedOption, screen, game, interrupted, running, left, worker>>

-----------------------------------------------------------------------------
(* The process.                                                            *)

\* main without a window: the world is there before the API is.  A file that
\* does not load ends the process at once.
LaunchHeadless ==
    /\ phase = "down" /\ (file # None => Loads(file))
    /\ phase' = "playing" /\ mode' = "headless"
    /\ seedOption' \in Seeds \cup {None}
    /\ game' = IF file # None THEN file.game
               ELSE IF seedOption' # None THEN New(seedOption') ELSE NoWorld
    /\ interrupted' = FALSE /\ left' = None /\ worker' = "accept"
    /\ UNCHANGED <<screen, file, saving, running>>

\* main with a window: the API is there before the world is.
LaunchClient ==
    /\ phase = "down"
    /\ phase' = "starting" /\ mode' = "client"
    /\ seedOption' \in Seeds \cup {None}
    /\ game' = NoWorld /\ screen' = "Title"
    /\ interrupted' = FALSE /\ running' = TRUE /\ left' = None /\ worker' = "accept"
    /\ UNCHANGED <<file, saving>>

\* The client loads the file it finds, whatever the API did before.
StartupLoad ==
    /\ phase = "starting"
    /\ phase' = "playing"
    /\ game' = IF Loads(file) THEN file.game ELSE game
    /\ UNCHANGED <<mode, seedOption, screen, file, saving, interrupted, running, left, worker>>

\* A block is changed by the client the API serves, until the worker has
\* ended, or by the player.
Edit ==
    /\ saving = None
    /\ worker = "client" \/ (phase = "playing" /\ mode = "client")
    /\ \E e \in Edits : game' = [game EXCEPT !.edits = @ \cup {e}]
    /\ UNCHANGED <<phase, mode, seedOption, screen, file, saving, interrupted, running, left,
                   worker>>

\* SIGINT or SIGTERM.  The client never looks at the flag.
Interrupt ==
    /\ phase \in {"starting", "playing"}
    /\ interrupted' = TRUE
    /\ UNCHANGED <<phase, mode, seedOption, screen, game, file, saving, running, left, worker>>

\* Mutant of SaveAtExit: a game that is paused is taken to be saved already.
StopPaused ==
    /\ phase = "playing" /\ saving = None
    /\ phase' = "stopping"
    /\ IF game.generated
       THEN /\ IF screen = "Pause" THEN UNCHANGED <<file, saving>> ELSE BeginSave(game)
            /\ left' = IF SaveFormat(file) = "unknown" THEN None ELSE game
       ELSE UNCHANGED <<file, saving, left>>
    /\ UNCHANGED <<mode, seedOption, screen, game, interrupted, running, worker>>

\* The end of either loop: a generated world is saved.
SaveAtExit ==
    /\ phase = "playing" /\ saving = None
    /\ phase' = "stopping"
    /\ IF game.generated
       THEN BeginSave(game) /\ left' = IF SaveFormat(file) = "unknown" THEN None ELSE game
       ELSE UNCHANGED <<file, saving, left>>
    /\ UNCHANGED <<mode, seedOption, screen, game, interrupted, running, worker>>

LeaveHeadless == mode = "headless" /\ interrupted /\ SaveAtExit
LeaveClient == mode = "client" /\ ~running /\ SaveAtExit

Down ==
    /\ phase' = "down"
    /\ game' = NoWorld /\ screen' = "Title" /\ interrupted' = FALSE /\ running' = FALSE
    /\ worker' = "off"
    /\ UNCHANGED <<mode, seedOption, file>>

\* ApiServer::stop: is_running is cleared and the listening socket closed ...
StopServer ==
    /\ phase = "stopping" /\ saving = None
    /\ phase' = "joining"
    /\ UNCHANGED <<mode, seedOption, screen, game, file, saving, interrupted, running, left,
                   worker>>

\* ... and the worker joined, after which main returns.
Stopped ==
    /\ phase = "joining" /\ worker = "ended"
    /\ Down
    /\ UNCHANGED <<saving, left>>

\* The process dies where it is.
Crash ==
    /\ phase # "down"
    /\ Down
    /\ saving' = None
    /\ left' = IF saving = None THEN left ELSE None

-----------------------------------------------------------------------------
(* The worker of the API server, as far as stop waits for it; all of it is *)
(* in ApiServer.                                                           *)

WorkerGoes(from, to) ==
    /\ worker \in from /\ worker' = to
    /\ UNCHANGED <<phase, mode, seedOption, screen, game, file, saving, interrupted, running, left>>

\* accept returns a connection.  One that comes when stop has begun, to a
\* socket whose closing did not end the accept, is not served.
Accept == WorkerGoes({"accept"}, IF phase = "joining" THEN "ended" ELSE "client")

\* The closing of the listening socket ends an accept under way, as it does on
\* some systems, or comes before the accept.
AcceptFails == phase = "joining" /\ WorkerGoes({"accept"}, "ended")

\* send_all blocks, with no timeout, when a client does not read ...
SendBlocks == WorkerGoes({"client"}, "send")

\* ... until it reads.
SendGoesOn == WorkerGoes({"send"}, "client")

\* handle_client returns: the client has left, or is_running was found cleared.
HangUp == WorkerGoes({"client", "send"}, IF phase = "joining" THEN "ended" ELSE "accept")

Worker == Accept \/ AcceptFails \/ SendBlocks \/ SendGoesOn \/ HangUp

-----------------------------------------------------------------------------
(* The keys of the client.  Events that were queued behind the one that    *)
(* ended the loop are still handled, so no guard asks for running.         *)

Key(s) == phase = "playing" /\ mode = "client" /\ saving = None /\ screen = s

\* Mutant of NewGame: a new world sets the loop going again.
NewGameRuns ==
    /\ Key("Title")
    /\ \E s \in Seeds : (seedOption # None => s = seedOption) /\ game' = New(s)
    /\ BeginSave(game')
    /\ screen' = "Game" /\ running' = TRUE
    /\ UNCHANGED <<phase, mode, seedOption, interrupted, left, worker>>

\* N: without --seed the seed is taken from the clock.
NewGame ==
    /\ Key("Title")
    /\ \E s \in Seeds : (seedOption # None => s = seedOption) /\ game' = New(s)
    /\ BeginSave(game')
    /\ screen' = "Game"
    /\ UNCHANGED <<phase, mode, seedOption, interrupted, running, left, worker>>

\* L, and F9 in the game.
LoadGame ==
    /\ Key("Title") \/ Key("Game")
    /\ Loads(file)
    /\ game' = file.game
    /\ screen' = "Game"
    /\ UNCHANGED <<phase, mode, seedOption, file, saving, interrupted, running, left, worker>>

\* Return on the title screen.
ContinueGame ==
    /\ Key("Title") /\ game.generated
    /\ screen' = "Game"
    /\ UNCHANGED <<phase, mode, seedOption, game, file, saving, interrupted, running, left, worker>>

\* Esc on the title screen, or the window is closed.
Quit ==
    /\ phase = "playing" /\ mode = "client" /\ saving = None
    /\ running' = FALSE
    /\ UNCHANGED <<phase, mode, seedOption, screen, game, file, saving, interrupted, left, worker>>

\* Esc in the game.
Pause ==
    /\ Key("Game")
    /\ IF game.generated THEN BeginSave(game) ELSE UNCHANGED <<file, saving>>
    /\ screen' = "Pause"
    /\ UNCHANGED <<phase, mode, seedOption, game, interrupted, running, left, worker>>

\* Esc, Return and T on the pause screen.
Resume ==
    /\ Key("Pause")
    /\ screen' \in {"Game", "Title"}
    /\ UNCHANGED <<phase, mode, seedOption, game, file, saving, interrupted, running, left, worker>>

\* F5 in the game or on the pause screen, whether a world was generated or not.
SaveGame ==
    /\ Key("Game") \/ Key("Pause")
    /\ BeginSave(game)
    /\ UNCHANGED <<phase, mode, seedOption, screen, game, interrupted, running, left, worker>>

Keys == NewGame \/ LoadGame \/ ContinueGame \/ Quit \/ Pause \/ Resume \/ SaveGame

Next ==
    \/ LaunchHeadless \/ LaunchClient \/ StartupLoad \/ Edit \/ Interrupt
    \/ LeaveHeadless \/ LeaveClient \/ StopServer \/ Stopped \/ Crash
    \/ FinishSave \/ Worker \/ Keys

\* The process keeps going: it writes what it began to write, it looks at its
\* flag every 50 ms, it calls stop, and the join returns when the worker has
\* ended.  The client comes to the end of the events that are queued again and
\* again, though some of them save the game in between, hence the strong
\* fairness.  The worker finds is_running cleared after the lines it has
\* received, some of which may hold it up in send.  Nothing is assumed of the
\* clients, nor that closing a socket ends an accept.
Spec ==
    /\ Init /\ [][Next]_vars
    /\ WF_vars(FinishSave) /\ WF_vars(StartupLoad)
    /\ WF_vars(LeaveHeadless) /\ SF_vars(LeaveClient)
    /\ WF_vars(StopServer) /\ WF_vars(Stopped)
    /\ SF_vars(phase = "joining" /\ worker = "client" /\ HangUp)

-----------------------------------------------------------------------------
\* Every variable has its type, a save is under way only in a process that
\* runs, over a file that has the format it is to have or cannot be recognised,
\* and there is a worker just as long as there is a process.
TypeOK ==
    /\ phase \in {"down", "starting", "playing", "stopping", "joining"}
    /\ worker \in {"off", "accept", "client", "send", "ended"}
    /\ worker = "off" <=> phase = "down"
    /\ worker = "ended" => phase = "joining"
    /\ mode \in {"headless", "client"} /\ screen \in {"Title", "Game", "Pause"}
    /\ seedOption \in Seeds \cup {None}
    /\ game \in Game /\ left \in Game \cup {None}
    /\ file \in File \cup {None}
    /\ interrupted \in BOOLEAN /\ running \in BOOLEAN
    /\ saving = None \/ /\ saving \in File /\ saving.game # Damaged
                        /\ phase \in {"playing", "stopping"}
                        /\ file # None /\ file.format \in {saving.format, "unknown"}

\* After an orderly exit of a process that played a generated world, the file
\* holds that world as it was when the loop ended, with all edits the format
\* keeps, from whatever screen and after whatever keys the exit came, and even
\* if the process dies, or hangs, while the API server is being stopped.  (Edits the API
\* makes while it is being stopped come too late for the file.)
ExitKeepsWorld ==
    left # None /\ saving = None => file # None /\ file = Image(file.format, left)

\* A save over a file keeps to the format of that file, whatever the path is
\* called; and a file that is not recognised, someone else's or one torn by a
\* crash, is never touched.
FileKeepsFormat ==
    [][file # None /\ saving = None =>
         /\ file.format = "unknown" => file' = file
         /\ file' # file => saving' # None /\ saving'.format = file.format]_vars

\* The join of the worker waits for the other end: for a connection, which a
\* worker in accept gets or does not where closing the socket does not wake it,
\* or for a client that does not read.
HeldUp == phase = "joining" /\ worker \in {"accept", "send"}

\* A headless process that gets a signal ends, and so does a client that is
\* told to quit, whatever keys and API commands come meanwhile, unless it hangs
\* for good in stop, and that for one of two reasons only: nobody connects to a
\* worker in accept, or a client neither reads nor leaves.  (ApiServer shows
\* the first to happen where closing a socket does not end an accept.)
EndsWhenAsked ==
    /\ mode = "headless" /\ interrupted ~> phase = "down" \/ []HeldUp
    /\ mode = "client" /\ phase = "playing" /\ ~running ~> phase = "down" \/ []HeldUp
=============================================================================
