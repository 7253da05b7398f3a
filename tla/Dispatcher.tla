----------------------------- MODULE Dispatcher ------------------------------
(***************************************************************************)
(* ApiDispatcher (api/ApiDispatcher.cpp) on top of the game: the commands  *)
(* of one client, executed one at a time under main's game_mutex, between  *)
(* whatever the window does to the same game.  A command is parsed by the  *)
(* worker of the API server before the lock is taken, so the window may    *)
(* come between; the spawn, which all coordinates of the API are relative  *)
(* to, is read under the lock.                                             *)
(*                                                                         *)
(* The game is the one of module EditableWorld, which GameState            *)
(* implements, with what only the API and the window use beside it.        *)
(* Positions are in halves of a block, so that a place between two blocks  *)
(* exists.  Air that carries data is not written.                          *)
(***************************************************************************)
EXTENDS CommandText

CONSTANTS
    Lines,          \* what the client may send
    WorldMax,       \* world_max_x, _y, _z: 255, 127, 255
    Worlds,         \* what new_world and load may bring
    Places,         \* where the window moves the player
    Fail, Silent,   \* the answer "Fail", and none at all
    MaxTurns        \* a bound on the lines, the moves and the clicks of a behaviour

Cell == (0..WorldMax[1]) \X (0..WorldMax[2]) \X (0..WorldMax[3])

Block == [id : 0..255, data : 0..15]
Place == [1..3 -> Int]
Tile == [1..3 -> IntRange]

ASSUME GameAssumption ==
    /\ None \notin Lines /\ Lines \subseteq Seq(Tokens)
    /\ WorldMax \in [1..3 -> Nat] /\ \A i \in 1..3 : WorldMax[i] < MaxInt
    /\ \A w \in Worlds : w.blocks \in [Cell -> Block] /\ w.spawn \in Tile /\ w.player \in Place
    /\ Places \subseteq Place

\* No answer in numbers is Fail, or is none.
ASSUME AnswersAssumption ==
    /\ Fail # Silent
    /\ Fail \notin Seq(Int) /\ Silent \notin Seq(Int)

VARIABLES
    blocks, self, marked,   \* the world, the player and the spawn, the checkpoint
    hits, chat,             \* block_hits_, chat_messages_
    camera,                 \* camera_mode_, camera_position_, camera_target_entity_id_
    settings,               \* the settings that are true, of the world and of the player
    line, command,          \* the line the worker is at, and what it parsed to
    reply,                  \* what the last line was answered
    turns

world == <<blocks, self, marked>>
rest == <<hits, chat, camera, settings>>
vars == <<world, rest, line, command, reply, turns>>

Game == INSTANCE EditableWorld
    WITH saved <- <<>>, Seeds <- {}, Terrain <- <<>>, Blocks <- {}

\* The ids of the EntityRegistry: the player is all there is.
PlayerId == 0
Immutable == <<"world_immutable">>

Init ==
    /\ \E w \in Worlds :
          /\ w.generated
          /\ blocks = w.blocks /\ self = [spawn |-> w.spawn, player |-> w.player]
    /\ marked = None
    /\ hits = <<>> /\ chat = <<>>
    /\ camera = [mode |-> "Normal", at |-> self.player, target |-> PlayerId]
    /\ settings = [world |-> {<<"nametags_visible">>}, player |-> {<<"autojump">>}]
    /\ line = None /\ command = None /\ reply = Silent /\ turns = 0

-----------------------------------------------------------------------------
(* Coordinates.  incoming and outgoing, for ints and for doubles.          *)

Incoming(api) == [i \in 1..3 |-> Wrap(api[i] + self.spawn[i])]
Outgoing(internal) == [i \in 1..3 |-> Wrap(internal[i] - self.spawn[i])]
IncomingExact(api) == [i \in 1..3 |-> api[i] + 2 * self.spawn[i]]
OutgoingExact(place) == [i \in 1..3 |-> place[i] - 2 * self.spawn[i]]

Exactly(tile) == [i \in 1..3 |-> 2 * tile[i]]

\* Mutant of Below: the cast alone, which goes towards zero.
Truncated(halves) == IF halves < 0 THEN -((-halves) \div 2) ELSE halves \div 2

\* std::floor, and the tiles the position may be cast to.
Below(halves) == halves \div 2
Tiles(place) == Cast(Below(place[1])) \X Cast(Below(place[2])) \X Cast(Below(place[3]))

BlockAt(p) == IF p \in Cell THEN blocks[p] ELSE Game!Air

\* height_at.
HeightAt(x, z) == Max({0} \cup {p[2] + 1 : p \in {q \in Cell : /\ q[1] = x /\ q[3] = z
                                                               /\ blocks[q].id # 0}})

\* The loop of set_blocks: corners in any order, clamped to the world.
Region(a, b) == {p \in Cell : \A i \in 1..3 : Min({a[i], b[i]}) <= p[i] /\ p[i] <= Max({a[i], b[i]})}

-----------------------------------------------------------------------------
(* The API.  Every disjunct of Execute is one branch of dispatch.          *)

\* The worker of ApiServer has a whole line.
Receive ==
    /\ line = None /\ turns < MaxTurns
    /\ line' \in Lines
    /\ command' = Parse(line')
    /\ reply' = Silent /\ turns' = turns + 1
    /\ UNCHANGED <<world, rest>>

Is(names) == command # None /\ (\E name \in names : IsCall(command, name)) /\ Accepted(command)
Argument(i) == IntAt(command, i)
HasArgument(i) == i <= Len(command.arguments)

Return(answer) == reply' = answer /\ line' = None /\ command' = None /\ UNCHANGED turns
Answer(answer) == Return(answer) /\ UNCHANGED <<world, rest>>
Obey == Return(Silent)

\* Mutant of TurnDown: a query that is turned down is not answered.
TurnDownSilently == command # None /\ ~Accepted(command) /\ Answer(Silent)

\* An unknown name, arguments that are too few, too many or do not read.
TurnDown == /\ command # None /\ ~Accepted(command)
            /\ Answer(IF IsQuery(command) THEN Fail ELSE Silent)

\* A line that is no command never gets to the dispatcher.
Ignore == command = None /\ Answer(Silent)

GetPos == Is({"player.getPos"}) /\ Answer(OutgoingExact(self.player))

GetTile == /\ Is({"player.getTile"})
           /\ \E tile \in Tiles(self.player) : Answer(Outgoing(tile))

SetPlayer(place) == self' = [self EXCEPT !.player = place] /\ Game!Play

SetPos == /\ Is({"player.setPos"})
          /\ SetPlayer(IncomingExact(Vec3(command, 1)))
          /\ Obey /\ UNCHANGED rest

SetTile == /\ Is({"player.setTile"})
           /\ SetPlayer(Exactly(Incoming(IVec3(command, 1))))
           /\ Obey /\ UNCHANGED rest

GetBlock == /\ Is({"world.getBlock"})
            /\ Answer(<<BlockAt(Incoming(IVec3(command, 1))).id>>)

GetBlockWithData ==
    /\ Is({"world.getBlockWithData"})
    /\ LET block == BlockAt(Incoming(IVec3(command, 1))) IN Answer(<<block.id, block.data>>)

\* The block a command writes: its data is 0 when the argument is left out.
BlockFrom(i) == [id |-> Argument(i), data |-> IF HasArgument(i + 1) THEN Argument(i + 1) ELSE 0]

SetBlock ==
    /\ Is({"world.setBlock"})
    /\ LET p == Incoming(IVec3(command, 1))
       IN  IF p \in Cell THEN Game!Edit(p, BlockFrom(4)) ELSE UNCHANGED world
    /\ Obey /\ UNCHANGED rest

\* Mutant of SetBlocks: the second corner is not translated.
SetBlocksFromSpawn ==
    /\ Is({"world.setBlocks"})
    /\ Game!Fill(Region(Incoming(IVec3(command, 1)), IVec3(command, 4)), BlockFrom(7))
    /\ Obey /\ UNCHANGED rest

SetBlocks ==
    /\ Is({"world.setBlocks"})
    /\ Game!Fill(Region(Incoming(IVec3(command, 1)), Incoming(IVec3(command, 4))), BlockFrom(7))
    /\ Obey /\ UNCHANGED rest

GetHeight ==
    /\ Is({"world.getHeight"})
    /\ LET x == Wrap(Argument(1) + self.spawn[1])
           z == Wrap(Argument(2) + self.spawn[3])
       IN  Answer(<<Wrap(HeightAt(x, z) - self.spawn[2])>>)

SaveCheckpoint == Is({"world.checkpoint.save"}) /\ Game!Mark /\ Obey /\ UNCHANGED rest

RestoreCheckpoint ==
    /\ Is({"world.checkpoint.restore"})
    /\ IF marked # None THEN Game!Return ELSE UNCHANGED world
    /\ Obey /\ UNCHANGED rest

With(keys, on) == IF on THEN keys \cup {command.arguments[1]} ELSE keys \ {command.arguments[1]}

Setting ==
    /\ \/ /\ Is({"world.setting"})
          /\ settings' = [settings EXCEPT !.world = With(@, Argument(2) # 0)]
       \/ /\ Is({"player.setting"})
          /\ settings' = [settings EXCEPT !.player = With(@, Argument(2) # 0)]
    /\ Obey /\ UNCHANGED <<world, hits, chat, camera>>

PostChat ==
    /\ Is({"chat.post"})
    /\ chat' = Append(chat, command.arguments[1])
    /\ Obey /\ UNCHANGED <<world, hits, camera, settings>>

\* The optional argument is the entity to follow; no entity need have that id.
CameraMode(mode) ==
    /\ camera' = [camera EXCEPT !.mode = mode,
                                !.target = IF HasArgument(1) THEN Argument(1) ELSE @]
    /\ Obey /\ UNCHANGED <<world, hits, chat, settings>>

SetNormal == Is({"camera.mode.setNormal"}) /\ CameraMode("Normal")
SetThirdPerson == Is({"camera.mode.setThirdPerson", "camera.mode.setFollow"})
                  /\ CameraMode("ThirdPerson")
SetFixed == Is({"camera.mode.setFixed"}) /\ CameraMode("Fixed")

SetCameraPos ==
    /\ Is({"camera.setPos", "camera.mode.setPos"})
    /\ camera' = [camera EXCEPT !.at = IncomingExact(Vec3(command, 1))]
    /\ Obey /\ UNCHANGED <<world, hits, chat, settings>>

\* Positions, one after the other.
InARow(positions) ==
    [k \in 1..(3 * Len(positions)) |-> positions[(k + 2) \div 3][((k + 2) % 3) + 1]]

\* Mutant of BlockHits: positions of the world are handed out as they are.
BlockHitsInWorld ==
    /\ Is({"events.block.hits"})
    /\ Return(InARow(hits))
    /\ hits' = <<>>
    /\ UNCHANGED <<world, chat, camera, settings>>

\* poll_block_hits; the answer to a poll without hits is the empty line.
BlockHits ==
    /\ Is({"events.block.hits"})
    /\ Return(InARow([i \in DOMAIN hits |-> Outgoing(hits[i])]))
    /\ hits' = <<>>
    /\ UNCHANGED <<world, chat, camera, settings>>

ClearEvents == /\ Is({"events.clear"})
               /\ hits' = <<>>
               /\ Obey /\ UNCHANGED <<world, chat, camera, settings>>

GetPlayerIds == Is({"world.getPlayerIds"}) /\ Answer(<<PlayerId>>)

EntityGetPos ==
    /\ Is({"entity.getPos"})
    /\ Answer(IF Argument(1) = PlayerId THEN OutgoingExact(self.player) ELSE Fail)

EntityGetTile ==
    /\ Is({"entity.getTile"})
    /\ IF Argument(1) = PlayerId
       THEN \E tile \in Tiles(self.player) : Answer(Outgoing(tile))
       ELSE Answer(Fail)

EntitySet(place) ==
    /\ IF Argument(1) = PlayerId THEN SetPlayer(place) ELSE UNCHANGED world
    /\ Obey /\ UNCHANGED rest

EntitySetPos == Is({"entity.setPos"}) /\ EntitySet(IncomingExact(Vec3(command, 2)))
EntitySetTile == Is({"entity.setTile"}) /\ EntitySet(Exactly(Incoming(IVec3(command, 2))))

Execute ==
    /\ line # None
    /\ \/ Ignore \/ TurnDown
       \/ GetPos \/ GetTile \/ SetPos \/ SetTile
       \/ GetBlock \/ GetBlockWithData \/ SetBlock \/ SetBlocks \/ GetHeight
       \/ SaveCheckpoint \/ RestoreCheckpoint
       \/ Setting \/ PostChat
       \/ SetNormal \/ SetThirdPerson \/ SetFixed \/ SetCameraPos
       \/ BlockHits \/ ClearEvents
       \/ GetPlayerIds \/ EntityGetPos \/ EntityGetTile \/ EntitySetPos \/ EntitySetTile

-----------------------------------------------------------------------------
(* The window, between two commands or while one waits for the lock.       *)

Turn == turns < MaxTurns /\ turns' = turns + 1 /\ UNCHANGED <<line, command, reply>>

\* A click with the left button: break_block, which a setting may forbid,
\* and add_block_hit, which it does not.
Click ==
    /\ Turn
    /\ \E p \in Cell :
          /\ blocks[p].id # 0
          /\ hits' = Append(hits, p)
          /\ IF Immutable \in settings.world THEN UNCHANGED world ELSE Game!Edit(p, Game!Air)
    /\ UNCHANGED <<chat, camera, settings>>

MovePlayer ==
    /\ Turn
    /\ \E place \in Places : SetPlayer(place)
    /\ UNCHANGED rest

\* new_world, and load, for a file that is generated or not.
ReplaceWorld ==
    /\ Turn
    /\ \E w \in Worlds :
          /\ blocks' = w.blocks /\ self' = [spawn |-> w.spawn, player |-> w.player]
          /\ camera' = [camera EXCEPT !.at = w.player,
                                      !.mode = IF w.generated THEN "Normal" ELSE @]
          /\ hits' = IF w.generated THEN <<>> ELSE hits
          /\ chat' = IF w.generated THEN <<>> ELSE chat
    /\ marked' = None
    /\ UNCHANGED settings

Next == Receive \/ Execute \/ Click \/ MovePlayer \/ ReplaceWorld

Spec == Init /\ [][Next]_vars

-----------------------------------------------------------------------------
Dispatched == command # None /\ command' = None

\* What the server relies on when it sends a line for some handler results
\* and none for others: a query is answered whatever is wrong with it, or
\* the client waits forever; anything else is not, or the next query gets
\* the answer of this one; and what is answered with Fail has done nothing.
AnswersItsKind ==
    [][ Dispatched =>
            /\ reply' # Silent <=> IsQuery(command)
            /\ reply' = Fail => UNCHANGED <<world, rest>> ]_vars

\* The player's box of one block starts in the block at p.
Inside(place, p) == \A i \in 1..3 : 2 * p[i] <= place[i] /\ place[i] < 2 * p[i] + 2

\* For the block at p: what a write changes and a read answers, where the
\* player is found and where it is put, when its position is the one of p.
WritesWhatIsNamed(p) ==
    Is({"world.setBlock"}) =>
        blocks'[p] = IF Outgoing(p) = IVec3(command, 1) THEN Game!Seen(BlockFrom(4)) ELSE blocks[p]
ReadsWhatIsNamed(p) ==
    Is({"world.getBlock", "world.getBlockWithData"}) /\ Outgoing(p) = IVec3(command, 1) =>
        reply'[1] = blocks[p].id
FindsThePlayer(p) ==
    Is({"player.getTile"}) => (Outgoing(p) = reply' <=> Inside(self.player, p))
PutsThePlayer(p) ==
    Is({"player.setTile"}) /\ Outgoing(p) = IVec3(command, 1) => Inside(self'.player, p)

\* One block of the world has one position in the API, that of outgoing:
\* by it the block is written and read, the player is put into it and found
\* in it, wherever the spawn is and whatever the sums come to.
OneBlockOnePosition ==
    [][ Dispatched => \A p \in Cell : /\ WritesWhatIsNamed(p) /\ ReadsWhatIsNamed(p)
                                    /\ FindsThePlayer(p) /\ PutsThePlayer(p) ]_vars

Sums(api) == \A i \in 1..3 : api[i] + self.spawn[i] \in IntRange

\* The blocks between two positions of the API, in whatever order these are.
Between(a, b) ==
    {p \in Cell : \A i \in 1..3 : /\ Min({a[i], b[i]}) <= p[i] - self.spawn[i]
                                 /\ p[i] - self.spawn[i] <= Max({a[i], b[i]})}

FillsWhatIsNamed(a, b) ==
    Sums(a) /\ Sums(b) =>
        blocks' = [p \in Cell |-> IF p \in Between(a, b) THEN Game!Seen(BlockFrom(7)) ELSE blocks[p]]

\* set_blocks fills the blocks of the world between the two positions it is
\* given, and no other, as long as both positions plus the spawn are ints.
\* (If one is not, the sum overflows and another region is filled: from 0 to
\* the greatest int is not to the end of the world.)
FillsTheNamedRegion ==
    [][ Dispatched /\ Is({"world.setBlocks"}) =>
            FillsWhatIsNamed(IVec3(command, 1), IVec3(command, 4)) ]_vars

\* A hit leaves the queue in one of three ways: in the answer to a poll, at
\* its place in the order and at the position that stands for its block, on
\* request, or with its world.  Nothing else a client sends loses it.
NoHitIsLost ==
    [][ hits' # hits =>
        \/ \E p \in Cell : hits' = Append(hits, p)
        \/ /\ hits' = <<>> /\ Dispatched
           /\ \/ Is({"events.clear"})
              \/ /\ reply' \notin {Fail, Silent} /\ Len(reply') = 3 * Len(hits)
                 /\ \A i \in DOMAIN hits :
                        Incoming(SubSeq(reply', 3 * i - 2, 3 * i)) = hits[i]
        \/ hits' = <<>> /\ chat' = <<>> /\ marked' = None /\ line' = line ]_vars

\* What chat.post is given between its outermost parentheses is what is
\* posted, whatever characters of the protocol are in it.
TextIsVerbatim ==
    [][ \A length \in 1..(IF line = None THEN 0 ELSE Len(line) - 3) :
        LET text == SubSeq(line, 3, length + 2)
        IN  (line' = None /\ text = Trim(text) /\ line = <<"chat.post", Open>> \o text \o <<Close>>)
                => chat' = Append(chat, text) ]_vars
=============================================================================
