# A TLA+ model of mcpi-recompiled

This directory holds a formal model of the reconstruction of *Minecraft: Pi
Edition*: its block storage, its light, the game state with its save file and
checkpoints, the movement of the player and the loop that drives it, the API from
the socket to the command, `level.dat` down to its bytes, the chat on the screen,
and the life cycle of the program. TLC checks the model on small instances; TLAPS
proves a part of what is checked for every value of the constants.

Paths of the source below are relative to `src/src/`.

## 1. The system

### Components, state, operations

| Component | State it keeps | Operations | What makes it correct |
|---|---|---|---|
| `world::Chunk`, `world::World` | ids and nibbles of 16x128x16 blocks, height map, count of blocks that are not air; the map of chunks | `set_block`, `block_at`, `height_at`, `clear` | the caches agree with the blocks; chunks that come and go are not noticeable |
| `world::LightEngine` | none (light nibbles live in the chunks) | `rebuild` | it ends, with the one right light, whatever order the hash map has |
| `world::BlockUpdateEngine`, `BlockBehaviorRegistry` | queue of scheduled ticks, count of notifications | `on_block_changed`, `pop_scheduled_tick`, `clear` | bounded; no tick for a world that is gone |
| `world::RandomLevelSource`, `WorldGenerator` | none | `generate` | a function of the seed |
| `game::GameState` | world, overrides, checkpoint, spawn, player, inventory, camera, hits, chat, settings, seed | `set_block(s)`, `new_world`, `save`, `load`, checkpoints, the GameApi | what is saved accounts for what is there |
| `game::Inventory` | nine stacks and the selection | `select`, `set_hotbar` | the selected slot exists |
| `game::EntityRegistry`, `Entity`, `Player` | entities and ids | `register_external`, `add`, `find` | ids are not used twice |
| `game::Physics` | none (position, velocity and ground are the player's) | `move`, `tick_player`, `intersects_solid` | no move into a block, through one, or less far than the way is open |
| `game::GameLoop` | accumulator, pause | `advance` | time becomes ticks, no more than the cap; the simulation goes on |
| `api::ApiServer` | sockets, `running_`, the worker thread, the pending bytes of the client | `start`, `stop`, the worker's loops | nothing after `stop`; each complete line handled once; `stop` returns |
| `api::Command`, `api::ApiDispatcher` | none | `parse_command`, `dispatch` | one position names one block, whatever the spawn is; a query is always answered, an order never; a refused command does nothing |
| `main.cpp` | `keep_running`, the game mutex | launch, wait, save, stop | a signal ends it, unless the API's worker is held up; the world is saved |
| `client::ClientApp`, `Screen` | screen, loop flag, chat cursor, orientation | keys, mouse, frames | the world is saved on the way out; the right screen |
| `client::HudRenderer` (chat) | the last lines and when they came | `push_chat`, `visible_chat` | each message once, in order, while it is young |
| `storage::StorageRouter`, `LegacyLevelStorage`, `PiLevelStorage` | the file | `load_world`, `save_world` | a file keeps its format; someone else's file is not touched; a load happens as a whole or not at all |
| `storage::Nbt` | none | `write_named`, `read_named` | what is written is read back; what is read is within the limits |
| rendering, sound, assets, `network::Packet`, parity harness, clients | - | - | see *Not modelled* |

### How they interact

```
 API client --TCP--> ApiServer worker --handler--> ApiDispatcher --+
                                                                   | game_mutex
 keyboard, mouse --> ClientApp (main thread) ----------------------+--> GameState
                          |                                              |-- World / Chunk
 signals --> main --------+--> StorageRouter --> the world file          |-- LightEngine
                                                                         |-- BlockUpdateEngine
```

Two threads exist: the main thread (headless loop or `ClientApp::run`) and the
worker of `ApiServer`. `main` gives both the same `game_mutex`, so operations
of `GameState` exclude each other; nothing excludes the threads otherwise.
The file is the only thing that outlives a process.

### What is hard here

* **Caches beside their source of truth**: height map and block count beside the
  blocks, light beside the blocks, overrides beside the world, the checkpoint
  beside the seed, ticks beside the world.
* **Order left to a hash map**: the sweep of the chunks in `rebuild`, the replay
  of overrides in `load`.
* **Two representations of a block**: the caller's ints, and a byte and a nibble.
* **Threads and sockets**: `stop` against a worker that blocks in `accept`, `recv`
  or `send`; lines cut anywhere by TCP; one client at a time.
* **The process and its file**: saves in place that a crash can cut short; the
  order of the last save and the end of the API; keys handled after the quit; bytes of
  a file that are damaged or were written by somebody else.
* **Coordinates relative to a spawn that moves**: a command is parsed before the lock
  is taken, and `new_world` and `load` change what its coordinates mean; sums with
  coordinates from the wire overflow.
* **Cursors and time**: a chat cursor over a list that is cleared; time that is dropped,
  or must not be made up for after a pause.

`PROJECT.json` lists each hazard at its line with the properties that watch it.

## 2. Modules

| Module | Models | Notes |
|---|---|---|
| `Chunks` | `Chunk.cpp`, the block part of `World.cpp` | operators on worlds: `ChunkWith`, `WorldWith`, `BlockAt`, `ColumnHeight`; `ScanDown` is the scan of `recompute_height` |
| `FlatWorld` | abstract | a grid of blocks with a write and a clear |
| `BlockWorld` | `World` as a state machine | one action per operation; implements `FlatWorld` |
| `LightEngine` | `LightEngine.cpp` | `ChangeBlock` starts a rebuild, `Sweep` does a chunk, `Spread` a cell of the queue |
| `EditableWorld` | abstract | blocks, what the player has, a mark and a saved copy, each changed in one step |
| `GameState` | `GameState.cpp` with the tick queue and the hotbar | one action per operation; the loops of `set_blocks` and `load` one block per step in any order; implements `EditableWorld` |
| `CommandService` | abstract | what an API client may rely on: complete lines, each once, in order, none after `stop` has returned; stated with positions in what was sent and with counts |
| `ApiServer` | `ApiServer.cpp` and the sockets around it | owner, worker and clients are separate processes; implements `CommandService` |
| `CommandText` | `Command.cpp`, the parse functions of `ApiDispatcher.cpp` | operators on lines, which are sequences of tokens (`Tokens`); parentheses, comma and blank have names |
| `Dispatcher` | `ApiDispatcher.cpp` and what the window does between two commands | one action per kind of command, over the game of `EditableWorld` |
| `Physics` | `Physics.cpp`, `Player::jump`, `Entity::bounds` | coordinates in whole units; one action per kind of move, and the teleports and edits that may come between them |
| `GameLoop` | `GameLoop.cpp` over `Physics` | `advance` is a call, its ticks and its return; pause, jumps and scheduled updates may come between any two calls |
| `Nbt` | `Nbt.cpp` | what the writer makes of a tag and the reader of bytes, in both byte orders: recursive functions on the room that is left below a tag |
| `LevelDat` | `PiLevelStorage.cpp` over `Nbt` | saves, loads, a save that is cut off, a damaged byte, a file of another program |
| `ChatHud` | the chat of `HudRenderer.cpp` and the cursor of `ClientApp.cpp` | frames, messages in bursts, worlds that are replaced |
| `Program` | `main.cpp`, the control of `ClientApp.cpp`, `Screen.cpp`, `StorageRouter.cpp` | a save has two steps, a crash may come between them; of the worker of `ApiServer.cpp` only where it is when `stop` waits for it |
| `MC...` | - | the instances TLC checks |
| `BlockWorldProofs` (with `Chunks`), `LightEngineProofs`, `GameStateProofs`, `ApiServerProofs`, `DispatcherProofs`, `GameLoopProofs` (with `Physics`), `ProgramProofs` (with `ChatHud`), `LevelDatProofs` (with `Nbt`) | - | lemmas, inductive invariants and theorems |

`GameState` and `LightEngine` use the operators of `Chunks`. `Program` reduces a
game to its seed and the set of its edits: that a file in the project's format
brings a game back is what `GameState` establishes, so `Program` relies on it.
`ApiServer` leaves the handler abstract (a command is answered or not); `Dispatcher` is
that handler, and its `AnswersItsKind` is what `ApiServer` takes for granted. `Dispatcher`
works on the game of `EditableWorld`, which `GameState` is shown to implement, and adds
what only the API and the window use. `GameLoop` composes with `Physics`: a tick of the
loop is the tick of that module.

The state corresponds to the code as follows.

* A **cell** is a chunk, a column of that chunk and a level. `world` maps the chunks
  that exist to records of `ids`, `data`, `height` and `nonAir`, the members of
  `Chunk`. A **raw block** holds the caller's ints; `Stored` is what the chunk's
  byte and nibble make of it.
* In `GameState`, `changes` is `changes_`, `lit` stands for the light nibbles (the
  world they were computed from: `rebuild` is a function of the blocks), `file` is
  what `save` writes, `op` the loop that is under way. A place is one integer.
* In `ApiServer`, the program counters `owner` and `worker` name the statement a
  thread is at; the kernel's part (backlog, bytes on the way, closed peers) is
  marked external in the map.
* In `Physics`, `at` is the lower corner of `bounds()`, from which the position follows,
  and `solid` the blocks whose behaviour is solid. `Clip` has the axis as a parameter
  where the code has `clip_x`, `clip_y` and `clip_z`. The client calls `move` in every
  frame; `tick_player` and `jump` are called by `GameLoop` and by tests only.
* In `Dispatcher`, `line` is what the worker has received, `command` what it parsed to
  before it waited for the lock, `reply` the answer to the last line. The numerals of a
  line are a finite set with their values (`IntOf`, `HalvesOf`), so that `nan`, `inf` and
  the digits themselves are left out; a place is in halves of a block, enough for one
  between two blocks. Signed overflow of a sum with the spawn is taken as the wrap of the
  machine's adder; the cast of a `double` beyond `int`, which differs between machines, is
  either of two results. Air that carries data is not written (`GameState` has it).
* In `GameLoop`, `advancing`, `elapsed` and `executed` are the locals of a call of
  `advance`. Time is in whole units: the tolerance of 1e-12 that makes up for rounding
  has no part.
* In `LevelDat` and `Nbt`, a byte is a digit to the base `Base`, numbers have the widths of
  `Width`, a float stands for its bits, and the names of the tags of a `level.dat` are one
  byte each. What the reader returns is a record with `ok`, the tag, the offset it has got to
  and what is left of its budget; a call of `read_payload` at some depth is an application of
  `Reads` at the room below it, `MaxDepth` + 1 less the depth. `Writable` gathers what the
  writer refuses; the writer stops there with a part of the tag written, into a buffer that
  is then dropped.
* In `ChatHud`, a message is its number in the order of posting; `skipped` is a history
  variable: where the cursor stood when the world began.
* In `Program`, `phase` is where the process is, `saving` the contents that
  `save_world` is about to write, `interrupted` is `keep_running == 0` and
  `running` the flag of the client's loop. `worker` is where the API's worker is,
  as far as `stop` waits for it: `ApiServer` has the whole of it. A save that was cut off
  is of no use (`Damaged`), or, in the text format, which has no mark at its end, one that
  loads: cut before the last newline it is the same game, cut in the last number one whose
  last change has other data (`CutShort`, which takes any edit for the other one). `left` is a history variable: the world
  that the last orderly exit was to keep.

## 3. Runs

| Run | Distinct states | What is checked |
|---|---|---|
| `BlockWorld` | 1,131 (symmetry) | height map, count of blocks, refinement of `FlatWorld` |
| `LightEngine` | 8,465 | least settled light, sky light, termination |
| `GameState` | 600,714 | overrides, checkpoint, light and ticks against the world, refinement of `EditableWorld` |
| `GameStatePlay` | 262,672 | refinement of `EditableWorld` with the operations of play |
| `ApiServer` | 255,009 | cleanup and silence after stop, refinement of `CommandService`, stop returns, queries are answered |
| `ApiServerStop` | - | `StopReturns` fails where closing a socket does not wake `accept` |
| `Physics` | 70,626 | clips against a definition by single steps, free places, the ground after a tick |
| `GameLoop` | 134,867 | ticks for the time passed and no more; the simulation goes on |
| `Dispatcher` | 65,383 | answers by kind, one position for one block, the region of a fill, hits, text |
| `LevelDat` | 3,978 | the codec both ways, what is saved comes back, all or nothing |
| `ChatHud` | 34,518 | the lines kept and shown, and the messages the cursor skips |
| `Program` | 21,283 | the world at exit, formats of files, the program ends when asked or hangs in `stop` |

### Bounds, and why they are enough

* `BlockWorld`: two chunks of two columns with three levels. One level is never
  written, so a scan passes over air; writes above and below the world are in. A
  third block is stored as air though its id is not 0.
* `LightEngine`: a row of two chunks, one column, two levels; the brightest light is
  4 instead of 15, so that light dies out within the world. The blocks are air, an
  opaque lamp, a torch and water, which cover every branch of the loop.
* `GameState`: two chunks of one block each, so that writing one block creates or
  destroys a chunk; one seed with terrain in one of them, and the ungenerated world;
  a queue of one tick; blocks air, air with data, and water (which schedules ticks).
  `MaxScheduledTicks` is 4096 in the code. Larger instances multiply the same
  independent cells.
* `GameStatePlay`: one chunk, a hotbar of two slots. `MaxChat` and `MaxHits` bound two
  vectors that the code lets grow; 1 is enough to tell an empty one from another.
* `ApiServer`: two clients, `MaxStarts` = 2 calls of start, one place in the backlog and
  one reply in the send buffer (more only delays the blocking), and at most
  `MaxLines` lines per client. The clients send a query, a command without reply and
  a line that does not parse.
* `Physics`: a world of 2 x 3 x 2 blocks of three units and a box of 2 x 5 x 2, so that
  the player can straddle blocks along every axis and is less than two blocks tall, as
  in the program; at most two solid blocks (`MaxSolid`), which make a wall, a floor, a
  ceiling or a corner. A unit is more than the epsilon of the code, and rounding is left
  out. `MaxFall` bounds the speed of a fall: in the code gravity and drag balance. A tick
  loses any part of the velocity to the drag, so that the factor does not matter.
* `GameLoop`: the world of `Physics`; a tick of two units, calls with less than one, more
  than one and more than the two (`MaxCatchUp`, 20 in the code) that are caught up, and
  one scheduled update (`MaxScheduled`). Block edits are those of `Physics`, which run
  there; here the blocks are any that `Init` may have.
* `Dispatcher`: a world of 2 x 2 x 1 blocks and ints of four bits (`MaxInt` = 7), so that the
  ends of `int` are near; spawns in the world, beside it, and at the least int, where the
  sums on the way into the world overflow. Each of the commands is sent well formed and,
  in every way its branch refuses, ill formed. `MaxTurns` = 3 lines, clicks, moves and
  replaced worlds in a behaviour: one before a command, one between its parse and
  its execution, and one after it, or two commands and something between.
* `LevelDat`: a byte has four bits, an int two bytes, three levels of depth, 12 elements and
  16 bytes of array. One seed is negative as an int. `MaxFaults` = 1 save cut off, byte
  damaged (by every place, plus one) or foreign file; the foreign ones have every type
  of tag, within each limit, at it and past it. The theorems have no such bounds.
* `ChatHud`: three lines kept (64 in the code), two shown (10), six messages (`MaxPosts`) and
  three units of time (`MaxTime`), which overfill the lines and outlive them; the next
  world may get fewer or more messages than the cursor has counted.
* `Program`: two edits, two seeds, one client at a time, and each kind of file that can lie at the path
  before the first launch. Launches are not bounded.

### Fairness

* `LightEngine`: weak fairness of `Sweep` and of `Spread`: `rebuild` is a loop of one
  thread that waits for nothing.
* `ApiServer`: weak fairness of the worker (the scheduler runs a thread that can run,
  and a receive timeout comes when it is due) and of the steps of `stop`; nobody is
  obliged to call `start` or `stop`. Every client reads what arrives, because
  `send_all` has no timeout and a client that never reads holds the server for ever;
  and a client that is not in `Patient` leaves some day, because one that stays keeps
  all others waiting. A `Patient` client waits for its answers, and
  `QueriesAnswered` is about those.
* `GameLoop`: weak fairness of the steps of a call (`LoopTick` or `Return`: a loop that waits
  for nothing) and of `Advance`: whoever owns the loop calls it again. `SimulationGoesOn`
  is about behaviours in which the loop is in the end not paused. As built, the program
  constructs no `GameLoop`; its users are the tests.
* `Program`: the process writes what it began to write, polls its flag, calls `stop`, and
  goes on when the worker it joins has ended. Strong fairness of two steps: the end of the
  client's loop, which comes to the end of the queued events again and again, though keys
  may start saves in between; and the return of `handle_client` once `is_running` is
  cleared, since the lines it has received are finitely many, though some may hold it up
  in `send`. **That `stop` returns is not assumed**: nothing is said of
  the clients, nor does closing the socket have to end an `accept`. So `EndsWhenAsked` has
  two outcomes: the process ends, or it is held up in the join for good (`HeldUp`), by
  `accept` or by `send` and by nothing else.
* `BlockWorld`, `GameState`, `Physics`, `Dispatcher`, `LevelDat` and `ChatHud` have no fairness and
  no liveness property: their operations are calls.

`CHECK_DEADLOCK FALSE` is set for `ApiServer` and `Dispatcher`: the clients may have sent
all their lines and the owner may have used up its starts, or the turns are over, and
then nothing moves.

### What the violation run shows

`ApiServer::stop` closes the listening socket and joins the worker. The worker may
already be blocked in `accept`. POSIX does not say that closing a descriptor wakes a
thread that is blocked on it, and on Linux it does not: `stop` waits until somebody
connects. The test of `stop` (`tests/api_server_tests.cpp:119-120`) calls it right
after a client was served, and gets away with it. The run
`ApiServerStop` is the model with `CloseWakesAccept = FALSE`; with `TRUE`, the run
`ApiServer` shows that nothing else keeps `stop` from returning, as long as the client
being served reads its replies.

Worth knowing, though no document claims otherwise:

* `main` saves before it stops the API server, so an edit made in between is in no file
  (`ExitKeepsWorld` states what *is* kept).
* A save cut short by a crash loses the save before it, and if it is cut before the
  header, the file is not recognised and never saved to again (`FileKeepsFormat`). If it is cut
  in its very last number, it loads, with other data in its last change.
* A headless process that is signalled while its worker waits in `accept` saves its world and
  then, where closing the socket does not end the `accept`, does not end; the signal handler is
  still there, so that further signals do nothing. A client that does not read its replies
  has the same effect everywhere (`EndsWhenAsked`). What was saved stays saved (`ExitKeepsWorld`).
* Each corner of `world.setBlocks` is brought into the world's coordinates on its own. If
  one of the sums with the spawn overflows, that corner lands at the other end of `int` and
  another region is filled than the one named: `FillsTheNamedRegion` excludes just that case.
  A single block is named consistently even then (`OneBlockOnePosition`).
* The reader of `Nbt` has one budget of elements for a whole file, the writer looks at
  one container at a time, so the writer puts out tags the reader refuses
  (`CodecRoundTrips` says which). No game the program saves comes near the limit.
* `new_world` and the load of a world with terrain clear the messages, and the chat cursor of
  the client stays: as many messages of the next world as it had counted are never shown
  (`LinesAreTheLatest`).

## 4. Proofs

All theorems hold for every value of the constants that satisfies the named
assumptions of the modules. Those are: the height is in 1..255 (128 in the code; a
height map entry is a byte), the columns of a chunk are finite in number, blocks are
pairs of integers, terrain is a function of the seed whose air carries no data, the
hotbar has at least one slot and its defaults are blocks callers may write; a box fits
into its world and gravity pulls; the world is smaller than `int`; a tick has a length,
and at least one is caught up; `None` is no file, game, seed, checkpoint, client or parsed
command, and a damaged file is no game; lines, queries and the newline are told apart;
a line is a sequence of tokens, and the four with a meaning are different ones; an answer in
numbers is neither `Fail` nor none; the screen keeps at least one line of chat and shows no
more than it keeps; a byte has more values than there are types of tags, a long is wider than
an int, a level has room for its depth and its elements, and seeds, spawns and places are
numbers of their types, as are the tags of other programs.

* **`BlockWorldProofs`** proves, for `Chunks`, what the operators return: `ScanDown` (stated
  by what the loop of `recompute_height` finds) exists and is the top of the
  column, by the least element of a set of naturals; the count changes by one where
  airness changes; `WorldWith` keeps a world well formed and exact, and shows the
  block that was written. For `BlockWorld`: `WorldTypeOK`, `HeightsExact` and `CountsExact` are inductive
  together: that a chunk is dropped exactly when it is empty needs the count, and
  the count is only right if the stored ids are. The refinement of `FlatWorld`
  follows step by step from them.
* **`LightEngineProofs`**: `LightIsLeast` speaks of a finished rebuild and is not
  inductive. The invariant says what holds on the way: cells already swept have at
  least their own light (`Sown`), during the sweep exactly that, and are queued
  (`Fresh`); a cell that is not queued has nothing left to brighten (`Passed`); and
  no cell is brighter than in any distribution with all sources that is settled
  (`Justified`). The theorem holds for any geometry (`Beside`), any table of
  opacities and emissions, and any order of the queue. `SkyIsWhatComesThrough` relates the
  scan down a column to a sum. What the sum of a finite set is, `MapThenSumSet` of the
  community modules, is proved first: it exists, and one summand may be taken out. The
  scan is a recursive function; that it exists and is the sum at every level is shown
  by the highest level at which it would fail, since the library's rule for induction
  cannot be used (below).
* **`GameStateProofs`**: the four invariants of the run, with the type invariant and
  `WorldExact` for the world, the lit world and the checkpoint. That overrides
  explain the world needs the checkpoint to be of this world
  (`restore_checkpoint` makes one the other), and the middle of a load needs the
  part of `OverridesExplainWorld` about cells still to come. The refinement of
  `EditableWorld` rests on the same invariant: a save is an abstract save because the
  overrides explain the world, a load is one in its first step and stutters while it
  replays.
* **`GameLoopProofs`**, for `Physics`: the minimum and maximum in `Clip` exist although nothing bounds the
  number of blocks (least elements of sets of naturals). A clip is within the bounded
  move and stops before each block ahead; so a free box stays free at every place along
  one axis up to the clip (`WayStaysFree`), and the three axes follow one from another.
  A clip that falls short has stopped at a block beside the box on both other axes, or
  at the end of the world, so the next unit is blocked (`NextIsBlocked`). The two together
  are `ClipIsFarthest`. `GroundHolds` needs an invariant: a player on the ground is
  not on the way up; without it a tick whose gravity just stops the way up would keep
  a ground that is gone. For `GameLoop`: what a call has spent, `executed` ticks and the
  `accumulator` together, is between the time it was given, cut at the cap, and that and
  one tick more: the accumulator was less than a tick before. `CatchUpIsBounded` follows.
* **`ApiServerProofs`**: one invariant `Inv` for everything. The owner's step and the worker's
  go together (`Lifecycle`); each connection that is open is in exactly one place, in the
  backlog or served (`Connections`); what is pending is the newest of what was received and
  starts where a line does (`Cut`), so the next line that is cut off is the next that
  was sent, however the bytes arrived; of the client that is served, as many calls were
  made as commands were cut off (`Turns`); and between two lines every query has its answer
  (`Answers`). The first two give `StoppedLeavesNothing` and `SilentAfterStop`; all of them
  together that every step is one of `CommandService` or none. It holds with
  `CloseWakesAccept` and without.
* **`DispatcherProofs`**: sums with the spawn wrap at the width of `int`, so the translations
  in and out are inverse modulo 2^w (lemmas on `%`), and the world is smaller than
  that. The invariant says that the spawn is an int and the blocks are those of the world,
  through every command and every world that replaces this one. A region without
  an overflow is translated as a whole. For `NoHitIsLost` each command is shown to leave the
  queue alone, to clear it, or to answer with all of it; that the positions of the answer
  are those of the hits is the arithmetic of `InARow`, which lays tuples of equal length one
  after the other. `AnswersItsKind` goes through the branches of every command.
  `TextIsVerbatim` is about the text between the first parenthesis and the last: trimming
  takes nothing from a text without a blank at its ends.
* **`ProgramProofs`**: the invariant relates what was to be kept, `left`, to the phase, the
  file and the save under way (`LeftIsSaved`): once the save at the exit has begun, the
  process does nothing but stop, or hang in it, and either the save under way holds that world or the
  file does, each in its own format. The second half is about `ChatHud`: the
  invariant (`HudInv`) says that the last lines of the chat are the messages of this world up to the
  cursor, without a gap, unless the chat is full; those before are of other worlds and
  smaller. `LinesAreTheLatest` follows. Lines are in the order of their times, so the
  young ones are the last ones (`YoungAreLast`), and the last `MaxVisible` of them include
  what is new: `FramesShowWhatIsNew`.
* **`LevelDatProofs`**: the codec and the file, for every base, width and limit, and for tags
  of any shape within them. Writer and reader are recursive functions, and the library's rule for
  induction cannot be used: that such a function exists is shown by the functions up to
  `n`, of which there is one for every `n` (the least `n` without one would be the successor of
  one with), and facts about it go from `n` to `n` + 1 in the same way. The facts, from the
  leaves of a tag outwards: a number comes back from its digits in both byte orders
  (arithmetic on `%` and division); a compound's names, in the order of the map, are a sequence
  without repetition (`InOrderEnumerates`, by counting those before each); and a payload is
  read back, from any offset in any bytes that hold it there, when its elements are within what is left of the
  budget, and refused otherwise. For whole tags this is `WriteReadBack`. The other direction,
  `ReadAccepts`, is about any bytes whatever: what `read_named` accepts is a tag
  that `write_named` writes, and costs no more than the budget, though fields with a
  name that was there before are charged and dropped. Together they are `CodecRoundTrips`.
  A header is right about its payload (`FramedOpens`) and about no prefix of the file
  (`CutIsRefused`), from which, whatever the payload would decode to, a save that was cut
  off is refused. The root of a game can be written and paid for (`RootIsSound`); what is read
  of it is the game with its place as floats hold it (`SavedIsLoaded`); and what any file loads as is
  again a game whose root can be written (`LoadedIsGame`), damaged and foreign files included;
  only the limit on the size of the file may still refuse it, which the model has in `Bytes`.
  The invariant `Inv` says just that of the game, and of a file that was written as a whole
  that it is the one of the game it was written for.

Only model-checked is liveness (`RebuildEnds`, `StopReturns`, `QueriesAnswered`,
`SimulationGoesOn`, `EndsWhenAsked`), which needs fairness and is beyond the prover. All other
properties of the runs are theorems. Where a module had a fold
or a filter of the library over a sequence (the hits, the young lines of the chat, the
lines executed), it is written with positions and counts, so that it can be reasoned about;
and `Nbt` has recursive functions instead of recursive operators for the same reason.

## 5. Not modelled

* Rendering (`ChunkMesh`, `LevelRenderer`), the view of the camera, the layout of the HUD
  and sound: floating point and pixels over a world that does not change meanwhile.
* The noise of `RandomLevelSource`: arithmetic with golden tests of its own; terrain is
  a constant.
* The text format of the world file, below its fields: `GameState` has the file as the
  values it holds. One hazard without a property is here: a position that
  `operator>>` does not read back.
* The other hazards without a property are in the models, but nothing says what would be right:
  edits the API took before the client loads its world, or after the last save; chat and hits
  across the load of a world without terrain; a client that never reads (its effect is
  named in `EndsWhenAsked`).
* Stack counts, name tags and auto-jump: no property tells them apart. `EntityRegistry` is
  what the program makes of it, one entity with id 0; `add`, which takes further entities in, is
  called by tests only.
* Failures of the disk other than a crash and a damaged byte; two processes on one file.
* `network::Packet`, a codec that only its test uses; assets, the parity harness, build and
  release scripts: no state that changes.

## 6. Plan

Done: every module above, its runs and its proofs. Next, in this order:

1. `WorldFile`: the two versions of the text format as fields, which states save into a file
   that loads, and torn files.
2. `EntityRegistry`: ids, and a camera that follows an entity that is gone.
