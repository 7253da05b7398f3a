----------------------------- MODULE GameState ------------------------------
(***************************************************************************)
(* GameState (game/GameState.cpp): the one object that holds the world     *)
(* being played, the player, and what the API and the client exchange      *)
(* about them.  Every operation runs under main's game_mutex, so an        *)
(* operation here is not interleaved with another one; the two that loop   *)
(* over blocks (set_blocks and load) are modelled one block per step, in   *)
(* any order: load replays an unordered_map.                               *)
(*                                                                         *)
(* A place (of the player, the spawn or the camera) is reduced to one      *)
(* integer, its height.  Light is represented by the world it was last     *)
(* computed from (LightEngine::rebuild is a function of the blocks).       *)
(***************************************************************************)
EXTENDS Chunks, Sequences

CONSTANTS
    Seeds,                  \* the seeds worlds are generated from
    Terrain,                \* Terrain[s]: the blocks RandomLevelSource makes of s
    SpawnChunk,             \* the chunk and the column of (128, 128)
    SpawnColumn,
    Blocks,                 \* the raw blocks callers write
    Items,                  \* the blocks callers put in the hotbar
    Boxes,                  \* the regions of set_blocks, clamped to the world
    MaxScheduledTicks,      \* BlockUpdateEngine::max_scheduled_ticks: 4096
    ScheduledIds,           \* ids whose behavior has scheduled_tick
    HotbarSize,             \* 9 in the code
    CreativeDefaults,       \* the stacks of reset_creative_defaults
    CameraModes,            \* Normal, ThirdPerson, Fixed
    Places,                 \* where callers put the player and the camera
    Messages, MaxChat,      \* chat messages, and a bound on how many are kept
    MaxHits,                \* a bound on the block hits nobody has polled
    None                    \* an optional without a value, a path without a file

Slots == 0..(HotbarSize - 1)

ASSUME TerrainAssumption == Terrain \in [Seeds -> [Cell -> Block]]
ASSUME AirTerrainAssumption ==
    \A s \in Seeds : \A p \in Cell : Terrain[s][p].id = 0 => Terrain[s][p] = Air
ASSUME SpawnAssumption == SpawnChunk \in ChunkPos /\ SpawnColumn \in Column
ASSUME BlocksAssumption == Blocks \subseteq RawBlock /\ Air \in Blocks
ASSUME BoxesAssumption == Boxes \subseteq SUBSET Cell
ASSUME ConstantsAssumption ==
    /\ MaxScheduledTicks \in Nat /\ MaxChat \in Nat /\ MaxHits \in Nat
    /\ HotbarSize \in Nat \ {0}
    /\ Items \subseteq {block \in Blocks : block.data = 0}
    /\ CreativeDefaults \in [Slots -> Blocks]
    /\ "Normal" \in CameraModes
    /\ Places \subseteq Int /\ Seeds \subseteq Int

Inventory == [slots : [Slots -> Blocks], selected : Slots]

\* An optional that has a value is not one that has none: neither a checkpoint
\* nor a file, nor what EditableWorld makes of the two.
ASSUME NoneAssumption ==
    /\ None \notin [world : UNION {[chunks -> Chunk] : chunks \in SUBSET ChunkPos}, player : Int,
                   changes : UNION {[cells -> Blocks] : cells \in SUBSET Cell}]
    /\ None \notin [generated : BOOLEAN, seed : Int, spawn : Int, player : Int,
                   inventory : Inventory,
                   changes : UNION {[cells -> Blocks] : cells \in SUBSET Cell}]
    /\ None \notin [blocks : [Cell -> Block], player : Int]
    /\ None \notin [blocks : [Cell -> Block],
                   self : [spawn : Int, player : Int, inventory : Inventory]]

VARIABLES
    seed, generated,    \* seed_, generated_world_
    world, lit,         \* world_, and the world its light was computed from
    ticks,              \* the queue of BlockUpdateEngine
    changes,            \* changes_: cell -> raw block, the overrides that are saved
    checkpoint,         \* checkpoint_
    spawn, player,      \* spawn_position_, and the player's position
    inventory,          \* the player's inventory: the stacks and the selection
    camera,             \* camera_mode_ and camera_position_
    hits, chat,         \* block_hits_, chat_messages_
    immutable,          \* the world setting world_immutable
    file,               \* the save file
    op                  \* the operation under way

blockVars == <<seed, generated, world, lit, ticks, changes, checkpoint>>
playVars  == <<spawn, player, inventory, camera, hits, chat, immutable>>
vars == <<blockVars, playVars, file, op>>

Idle == [kind |-> "idle"]
Free == op = Idle

DefaultInventory == [slots |-> CreativeDefaults, selected |-> 0]

-----------------------------------------------------------------------------
\* WorldGenerator::generate: every block of the terrain that is not air is
\* written to an empty world, so the chunks with such a block come into being.
Generate(s) ==
    LET Filled(c) == {l \in Local : Terrain[s][[chunk |-> c, column |-> l[1], y |-> l[2]]].id # 0}
        At(c, l)  == Terrain[s][[chunk |-> c, column |-> l[1], y |-> l[2]]]
        Ids(c)    == [l \in Local |-> At(c, l).id]
    IN  [c \in {d \in ChunkPos : Filled(d) # {}} |->
            [ids    |-> Ids(c),
             data   |-> [l \in Local |-> At(c, l).data],
             height |-> [column \in Column |-> ScanDown(Ids(c), column, Height)],
             nonAir |-> Cardinality(Filled(c))]]

\* changes_ maps cells to the raw blocks they were overridden with.
IsOverrides(over) == DOMAIN over \subseteq Cell /\ over \in [DOMAIN over -> Blocks]
NoChanges == [p \in {} |-> Air]

\* The blocks a reader of a world sees, and the blocks a seed and a set of
\* overrides stand for: those that loading a file with them is to bring back.
Shown(w) == [p \in Cell |-> Visible(BlockAt(w, p))]
Base(gen, s) == IF gen THEN Terrain[s] ELSE [p \in Cell |-> Air]
Overlay(gen, s, over) ==
    [p \in Cell |-> IF p \in DOMAIN over THEN Visible(Stored(over[p])) ELSE Base(gen, s)[p]]

Init ==
    /\ seed = 0 /\ generated = FALSE
    /\ world = NoChunks /\ lit = NoChunks
    /\ ticks = <<>> /\ changes = NoChanges /\ checkpoint = None
    /\ spawn = 64 /\ player = 0
    /\ inventory = DefaultInventory
    /\ camera = [mode |-> "Normal", at |-> 64]
    /\ hits = <<>> /\ chat = <<>>
    /\ immutable = FALSE
    /\ file = None
    /\ op = Idle

-----------------------------------------------------------------------------
(* Changing blocks.                                                        *)

\* Mutant of Schedule: the queue has no limit.
ScheduleAll(p, before, after) ==
    IF before # after /\ after.id \in ScheduledIds THEN Append(ticks, p) ELSE ticks

\* BlockUpdateEngine::on_block_changed and schedule_tick: a tick that finds
\* the queue full is dropped.
Schedule(p, before, after) ==
    IF before # after /\ after.id \in ScheduledIds /\ Len(ticks) < MaxScheduledTicks
    THEN Append(ticks, p)
    ELSE ticks

\* What set_block and the loop of set_blocks have in common.  The override
\* and the comparison keep the caller's ints, the world a byte and a nibble.
WriteBlock(p, block) ==
    /\ world' = WorldWith(world, p, block)
    /\ changes' = [q \in DOMAIN changes \cup {p} |-> IF q = p THEN block ELSE changes[q]]
    /\ ticks' = Schedule(p, BlockAt(world, p), block)

\* set_block.  A position outside the world is ignored.
SetBlock(p, block) ==
    /\ WriteBlock(p, block)
    /\ lit' = IF BlockAt(world, p) # block THEN world' ELSE lit
    /\ UNCHANGED <<seed, generated, checkpoint, playVars, file, op>>

ApiSetBlock ==
    /\ Free
    /\ \E p \in Cell, block \in Blocks : SetBlock(p, block)

\* break_block.
BreakBlock ==
    /\ Free /\ ~immutable
    /\ \E p \in Cell : SetBlock(p, Air)

\* place_selected_block.
PlaceSelectedBlock ==
    /\ Free /\ ~immutable
    /\ \E p \in Cell : SetBlock(p, inventory.slots[inventory.selected])

\* set_blocks, up to its loop; an empty region is ignored.
BeginSetBlocks ==
    /\ Free
    /\ \E box \in Boxes \ {{}}, block \in Blocks :
          op' = [kind |-> "fill", left |-> box, block |-> block, changed |-> FALSE]
    /\ UNCHANGED <<blockVars, playVars, file>>

\* Mutant of FillCell: changed tells of the last block only.
FillCellLast ==
    /\ op.kind = "fill"
    /\ \E p \in op.left :
          /\ WriteBlock(p, op.block)
          /\ op' = [kind |-> "fill", left |-> op.left \ {p}, block |-> op.block,
                    changed |-> BlockAt(world, p) # op.block]
    /\ UNCHANGED <<seed, generated, lit, checkpoint, playVars, file>>

FillCell ==
    /\ op.kind = "fill"
    /\ \E p \in op.left :
          /\ WriteBlock(p, op.block)
          /\ op' = [kind |-> "fill", left |-> op.left \ {p}, block |-> op.block,
                    changed |-> op.changed \/ BlockAt(world, p) # op.block]
    /\ UNCHANGED <<seed, generated, lit, checkpoint, playVars, file>>

EndSetBlocks ==
    /\ op.kind = "fill" /\ op.left = {}
    /\ lit' = IF op.changed THEN world ELSE lit
    /\ op' = Idle
    /\ UNCHANGED <<seed, generated, world, ticks, changes, checkpoint, playVars, file>>

\* deliver_scheduled_block_tick, called by GameLoop::tick.
DeliverTick ==
    /\ Free /\ ticks # <<>>
    /\ ticks' = Tail(ticks)
    /\ UNCHANGED <<seed, generated, world, lit, changes, checkpoint, playVars, file, op>>

-----------------------------------------------------------------------------
(* Replacing the world.                                                    *)

\* Mutant of ResetBlocks: the checkpoint survives.
ResetKeepingCheckpoint(s) ==
    /\ seed' = s /\ generated' = TRUE
    /\ world' = Generate(s) /\ lit' = Generate(s)
    /\ ticks' = <<>> /\ UNCHANGED checkpoint

\* What new_world does to the blocks.
ResetBlocks(s) ==
    /\ seed' = s /\ generated' = TRUE
    /\ world' = Generate(s) /\ lit' = Generate(s)
    /\ ticks' = <<>> /\ checkpoint' = None

NewWorld ==
    /\ Free
    /\ \E s \in Seeds : ResetBlocks(s)
    /\ changes' = NoChanges
    /\ spawn' = ColumnHeight(world', SpawnChunk, SpawnColumn)
    /\ player' = spawn'
    /\ inventory' = DefaultInventory
    /\ camera' = [mode |-> "Normal", at |-> spawn']
    /\ hits' = <<>> /\ chat' = <<>>
    /\ UNCHANGED <<immutable, file, op>>

SaveCheckpoint ==
    /\ Free
    /\ checkpoint' = [world |-> world, player |-> player, changes |-> changes]
    /\ UNCHANGED <<seed, generated, world, lit, ticks, changes, playVars, file, op>>

\* Mutant of RestoreCheckpoint: the scheduled ticks survive.
RestoreKeepingTicks ==
    /\ Free /\ checkpoint # None
    /\ world' = checkpoint.world /\ lit' = checkpoint.world
    /\ changes' = checkpoint.changes
    /\ player' = checkpoint.player
    /\ UNCHANGED <<seed, generated, ticks, checkpoint, spawn, inventory, camera, hits, chat,
                   immutable, file, op>>

\* Mutant of RestoreCheckpoint: the blocks come back, and nothing with them.
RestoreWorldOnly ==
    /\ Free /\ checkpoint # None
    /\ world' = checkpoint.world /\ lit' = checkpoint.world
    /\ UNCHANGED <<seed, generated, ticks, changes, checkpoint, playVars, file, op>>

RestoreCheckpoint ==
    /\ Free /\ checkpoint # None
    /\ world' = checkpoint.world
    /\ lit' = checkpoint.world
    /\ changes' = checkpoint.changes
    /\ ticks' = <<>>
    /\ player' = checkpoint.player
    /\ UNCHANGED <<seed, generated, checkpoint, spawn, inventory, camera, hits, chat,
                   immutable, file, op>>

\* Mutant of Save: an override with air is taken for no override.
SaveSolid ==
    /\ Free
    /\ file' = [generated |-> generated, seed |-> seed, spawn |-> spawn, player |-> player,
                inventory |-> inventory,
                changes |-> [p \in {q \in DOMAIN changes : changes[q].id # 0} |-> changes[p]]]
    /\ UNCHANGED <<blockVars, playVars, op>>

Save ==
    /\ Free
    /\ file' = [generated |-> generated, seed |-> seed, spawn |-> spawn, player |-> player,
                inventory |-> inventory, changes |-> changes]
    /\ UNCHANGED <<blockVars, playVars, op>>

\* The check of version 2 on the stacks of a file.
Accepted(image) ==
    \A slot \in Slots : image.inventory.slots[slot].id >= 0 /\ image.inventory.slots[slot].data >= 0

\* load, once the whole file has been read and accepted, up to the loop that
\* writes the overrides.  A generated file goes through new_world first; any
\* other leaves the chat, the hits and the camera's mode alone.
BeginLoad ==
    /\ Free /\ file # None /\ Accepted(file)
    /\ IF file.generated
       THEN /\ ResetBlocks(file.seed)
            /\ hits' = <<>> /\ chat' = <<>>
            /\ camera' = [mode |-> "Normal",
                          at |-> ColumnHeight(world', SpawnChunk, SpawnColumn)]
       ELSE /\ seed' = file.seed /\ generated' = FALSE
            /\ world' = NoChunks /\ ticks' = <<>> /\ checkpoint' = None
            /\ UNCHANGED <<lit, hits, chat, camera>>
    /\ spawn' = file.spawn /\ player' = file.player
    /\ inventory' = file.inventory
    /\ changes' = file.changes
    /\ op' = [kind |-> "replay", left |-> DOMAIN file.changes]
    /\ UNCHANGED <<immutable, file>>

ReplayChange ==
    /\ op.kind = "replay"
    /\ \E p \in op.left :
          /\ world' = WorldWith(world, p, changes[p])
          /\ op' = [kind |-> "replay", left |-> op.left \ {p}]
    /\ UNCHANGED <<seed, generated, lit, ticks, changes, checkpoint, playVars, file>>

EndLoad ==
    /\ op.kind = "replay" /\ op.left = {}
    /\ lit' = world /\ ticks' = <<>>
    /\ camera' = [camera EXCEPT !.at = player]
    /\ op' = Idle
    /\ UNCHANGED <<seed, generated, world, changes, checkpoint, spawn, player, inventory,
                   hits, chat, immutable, file>>

-----------------------------------------------------------------------------
(* The player, the camera, the settings, and what is reported.             *)

MovePlayer ==
    /\ Free
    /\ player' \in Places
    /\ UNCHANGED <<blockVars, spawn, inventory, camera, hits, chat, immutable, file, op>>

\* Mutant of SelectHotbarSlot: the slot is not clamped from above.
SelectAnySlot ==
    /\ Free
    /\ \E slot \in -1..HotbarSize :
          inventory' = [inventory EXCEPT !.selected = IF slot < 0 THEN 0 ELSE slot]
    /\ UNCHANGED <<blockVars, spawn, player, camera, hits, chat, immutable, file, op>>

\* Inventory::select clamps the slot.
SelectHotbarSlot ==
    /\ Free
    /\ \E slot \in -1..HotbarSize :
          inventory' = [inventory EXCEPT !.selected =
              IF slot < 0 THEN 0 ELSE IF slot \in Slots THEN slot ELSE HotbarSize - 1]
    /\ UNCHANGED <<blockVars, spawn, player, camera, hits, chat, immutable, file, op>>

\* set_hotbar_block.
SetHotbarBlock ==
    /\ Free
    /\ \E slot \in Slots, block \in Items :
          inventory' = [inventory EXCEPT !.slots[slot] = block]
    /\ UNCHANGED <<blockVars, spawn, player, camera, hits, chat, immutable, file, op>>

SetCamera ==
    /\ Free
    /\ \/ \E mode \in CameraModes : camera' = [camera EXCEPT !.mode = mode]
       \/ \E at \in Places : camera' = [camera EXCEPT !.at = at]
    /\ UNCHANGED <<blockVars, spawn, player, inventory, hits, chat, immutable, file, op>>

SetWorldImmutable ==
    /\ Free
    /\ immutable' \in BOOLEAN
    /\ UNCHANGED <<blockVars, spawn, player, inventory, camera, hits, chat, file, op>>

AddBlockHit ==
    /\ Free /\ Len(hits) < MaxHits
    /\ \E p \in Cell : hits' = Append(hits, p)
    /\ UNCHANGED <<blockVars, spawn, player, inventory, camera, chat, immutable, file, op>>

\* poll_block_hits and clear_events leave the same state behind.
PollBlockHits ==
    /\ Free
    /\ hits' = <<>>
    /\ UNCHANGED <<blockVars, spawn, player, inventory, camera, chat, immutable, file, op>>

PostChat ==
    /\ Free /\ Len(chat) < MaxChat
    /\ \E message \in Messages : chat' = Append(chat, message)
    /\ UNCHANGED <<blockVars, spawn, player, inventory, camera, hits, immutable, file, op>>

BlockNext == ApiSetBlock \/ BreakBlock \/ PlaceSelectedBlock
             \/ BeginSetBlocks \/ FillCell \/ EndSetBlocks \/ DeliverTick
LifecycleNext == NewWorld \/ SaveCheckpoint \/ RestoreCheckpoint \/ Save
                 \/ BeginLoad \/ ReplayChange \/ EndLoad
PlayNext == MovePlayer \/ SelectHotbarSlot \/ SetHotbarBlock \/ SetCamera
            \/ SetWorldImmutable \/ AddBlockHit \/ PollBlockHits \/ PostChat

Next == BlockNext \/ LifecycleNext \/ PlayNext

Spec == Init /\ [][Next]_vars

-----------------------------------------------------------------------------
BlocksTypeOK ==
    /\ seed \in Int /\ generated \in BOOLEAN /\ (generated => seed \in Seeds)
    /\ IsWorld(world) /\ IsWorld(lit)
    /\ ticks \in Seq(Cell) /\ Len(ticks) <= MaxScheduledTicks
    /\ IsOverrides(changes)
    /\ checkpoint = None \/
          /\ IsWorld(checkpoint.world) /\ checkpoint.player \in Int
          /\ IsOverrides(checkpoint.changes)

PlayTypeOK ==
    /\ spawn \in Int /\ player \in Int
    /\ inventory \in Inventory
    /\ camera \in [mode : CameraModes, at : Int]
    /\ hits \in Seq(Cell) /\ chat \in Seq(Messages)
    /\ immutable \in BOOLEAN

FileTypeOK ==
    file = None \/
        /\ file.generated \in BOOLEAN /\ file.seed \in Int
        /\ file.generated => file.seed \in Seeds
        /\ file.spawn \in Int /\ file.player \in Int /\ file.inventory \in Inventory
        /\ IsOverrides(file.changes)

OpTypeOK ==
    \/ op = Idle
    \/ /\ op.kind = "fill"
       /\ op = [kind |-> "fill", left |-> op.left, block |-> op.block, changed |-> op.changed]
       /\ op.left \subseteq Cell /\ op.block \in Blocks /\ op.changed \in BOOLEAN
    \/ /\ op.kind = "replay"
       /\ op = [kind |-> "replay", left |-> op.left]
       /\ op.left \subseteq DOMAIN changes

\* Every variable has its type; in particular the selected slot exists:
\* Inventory::slot throws for any other one, and selected_block is noexcept.
TypeOK == BlocksTypeOK /\ PlayTypeOK /\ FileTypeOK /\ OpTypeOK

\* The overrides (changes_) account for everything that makes the world
\* differ from its terrain, by whatever sequence of edits, fills, returns to
\* a checkpoint and loads it came about: they are all that save writes, so a
\* block they do not explain is lost with the process.  While load replays
\* them, the cells still to come show the terrain.
OverridesExplainWorld ==
    IF op.kind = "replay"
    THEN Shown(world) = [p \in Cell |-> IF p \in op.left THEN Base(generated, seed)[p]
                                        ELSE Overlay(generated, seed, changes)[p]]
    ELSE Shown(world) = Overlay(generated, seed, changes)

\* A checkpoint belongs to the world being played: its blocks and its
\* overrides match over the terrain of the current seed.  One that outlived
\* new_world or load would bring back blocks of another world and make the
\* next save describe neither.
CheckpointOfThisWorld ==
    checkpoint # None =>
        Shown(checkpoint.world) = Overlay(generated, seed, checkpoint.changes)

\* Between operations the stored light is that of the blocks as they are,
\* down to the chunks that exist: a fresh chunk holds no light until the next
\* rebuild.  set_block rebuilds when the raw block differs, set_blocks once
\* at its end, and load, new_world and restore_checkpoint always.
LightCurrent == Free => lit = world

\* A scheduled tick is for a block that was written in this world since the
\* overrides were last replaced: new_world, load and restore_checkpoint leave
\* no tick behind for a block of the world they replaced.
TicksOfThisWorld == \A i \in 1..Len(ticks) : ticks[i] \in DOMAIN changes

Self(s, p, inv) == [spawn |-> s, player |-> p, inventory |-> inv]

Editable == INSTANCE EditableWorld WITH
    blocks <- IF op.kind = "replay" THEN Overlay(generated, seed, changes) ELSE Shown(world),
    self   <- Self(spawn, player, inventory),
    marked <- IF checkpoint = None THEN None
              ELSE [blocks |-> Shown(checkpoint.world), player |-> checkpoint.player],
    saved  <- IF file = None THEN None
              ELSE [blocks |-> Overlay(file.generated, file.seed, file.changes),
                    self   |-> Self(file.spawn, file.player, file.inventory)]

\* Seen from outside, a game state is a world of blocks with a mark and a
\* file: save, which writes a seed and the overrides, keeps all the blocks,
\* load, which rebuilds the terrain and replays the overrides in any order,
\* brings exactly them back with the player and the inventory, and
\* restore_checkpoint returns to the marked blocks.
ImplementsEditableWorld == Editable!Spec
=============================================================================
