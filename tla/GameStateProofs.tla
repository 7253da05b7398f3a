-------------------------- MODULE GameStateProofs ---------------------------
(***************************************************************************)
(* The theorems about GameState.  The inductive invariant IInv adds to the *)
(* properties what they rest on: the chunks of the world and of the        *)
(* checkpoint are exact (otherwise a write may drop a chunk that still     *)
(* shows a block), and while set_blocks runs the light is that of the      *)
(* world unless a block has changed, which is what its last step tests.    *)
(***************************************************************************)
EXTENDS GameState, BlockWorldProofs

FillLight == op.kind = "fill" /\ op.changed = FALSE => lit = world

IInv ==
    /\ TypeOK
    /\ WorldExact(world)
    /\ checkpoint # None => WorldExact(checkpoint.world)
    /\ OverridesExplainWorld
    /\ CheckpointOfThisWorld
    /\ LightCurrent
    /\ FillLight
    /\ TicksOfThisWorld

\* Every cell is a position, and every block callers write is a raw block.
LEMMA CellIsPosition == Cell \subseteq Position /\ Blocks \subseteq RawBlock
BY BlocksAssumption DEF Cell, Position, Level

\* The terrain of a seed, once it is stored in chunks: they are exact, and
\* the world shows that terrain.
LEMMA GenerateExact ==
    ASSUME NEW s \in Seeds
    PROVE  /\ IsWorld(Generate(s)) /\ WorldExact(Generate(s))
           /\ Shown(Generate(s)) = Terrain[s]
<1> DEFINE At(c, l) == Terrain[s][[chunk |-> c, column |-> l[1], y |-> l[2]]]
           Filled(c) == {l \in Local : At(c, l).id # 0}
           TIds(c) == [l \in Local |-> At(c, l).id]
           G(c) == [ids    |-> TIds(c),
                    data   |-> [l \in Local |-> At(c, l).data],
                    height |-> [column \in Column |-> ScanDown(TIds(c), column, Height)],
                    nonAir |-> Cardinality(Filled(c))]
           D == {d \in ChunkPos : Filled(d) # {}}
<1>1. Generate(s) = [c \in D |-> G(c)]
  BY DEF Generate
<1>2. ASSUME NEW c \in ChunkPos, NEW l \in Local
      PROVE  At(c, l) \in Block
  <2>1. [chunk |-> c, column |-> l[1], y |-> l[2]] \in Cell
    BY DEF Cell, Local
  <2> QED
    BY <2>1, TerrainAssumption
<1>3. ASSUME NEW c \in ChunkPos PROVE TIds(c) \in [Local -> 0..255]
  BY <1>2, ZenonT(30) DEF Block
<1>4. ASSUME NEW c \in ChunkPos, NEW column \in Column
      PROVE  /\ ScanDown(TIds(c), column, Height) \in 0..Height
             /\ IsTop(TIds(c), column, ScanDown(TIds(c), column, Height))
  <2>1. Height \in 0..Height /\ \A k \in Level : k >= Height => TIds(c)[<<column, k>>] = 0
    BY HeightAssumption DEF Level
  <2>2. TIds(c) \in [Local -> 0..255]
    BY <1>3
  <2> HIDE DEF TIds
  <2> QED
    BY <2>1, <2>2, ScanDownFindsTop
<1>5. ASSUME NEW c \in ChunkPos
      PROVE  /\ SolidIn(TIds(c)) = Filled(c)
             /\ IsFiniteSet(Filled(c)) /\ Cardinality(Filled(c)) \in Nat
             /\ Filled(c) # {} => Cardinality(Filled(c)) # 0
  <2>1. SolidIn(TIds(c)) = Filled(c)
    BY DEF SolidIn
  <2>2. IsFiniteSet(Filled(c))
    BY LocalFinite, FS_Subset
  <2> HIDE DEF Filled
  <2> QED
    BY <2>1, <2>2, FS_CardinalityType, FS_EmptySet
<1>6. ASSUME NEW c \in ChunkPos PROVE G(c) \in Chunk /\ ChunkExact(G(c))
  <2>1. [l \in Local |-> At(c, l).data] \in [Local -> 0..15]
    BY <1>2 DEF Block
  <2>2. [column \in Column |-> ScanDown(TIds(c), column, Height)] \in [Column -> 0..Height]
    BY <1>4
  <2>3. TIds(c) \in [Local -> 0..255] /\ Cardinality(Filled(c)) \in Int
    BY <1>3, <1>5, SMTT(30)
  <2>4. G(c) \in Chunk
    <3> HIDE DEF At, TIds, Filled
    <3> QED
      BY <2>1, <2>2, <2>3 DEF Chunk
  <2>5. ChunkExact(G(c))
    <3>1. G(c).nonAir = Cardinality(SolidIn(G(c).ids))
      BY <1>5
    <3>2. \A column \in Column : IsTop(G(c).ids, column, G(c).height[column])
      <4> HIDE DEF TIds
      <4> QED
        BY <1>4
    <3> QED
      BY <3>1, <3>2 DEF ChunkExact
  <2> QED
    BY <2>4, <2>5
<1>7. IsWorld(Generate(s)) /\ WorldExact(Generate(s))
  <2>1. \A c \in D : G(c).nonAir # 0
    BY <1>5
  <2> HIDE DEF G
  <2> QED
    BY <1>1, <1>6, <2>1 DEF IsWorld, WorldExact
<1>8. ASSUME NEW p \in Cell PROVE Visible(BlockAt(Generate(s), p)) = Terrain[s][p]
  <2> DEFINE l == <<p.column, p.y>>
  <2>1. p.chunk \in ChunkPos /\ l \in Local /\ p.y \in Level
    BY DEF Cell, Local
  <2>2. At(p.chunk, l) = Terrain[s][p]
    BY DEF Cell
  <2>3. Terrain[s][p] \in Block /\ (Terrain[s][p].id = 0 => Terrain[s][p] = Air)
    BY TerrainAssumption, AirTerrainAssumption
  <2>4. CASE p.chunk \in D
    <3>1. G(p.chunk).ids[l] = At(p.chunk, l).id /\ G(p.chunk).data[l] = At(p.chunk, l).data
      BY <2>1
    <3>2. Generate(s)[p.chunk] = G(p.chunk) /\ p.chunk \in DOMAIN Generate(s)
      BY <1>1, <2>4
    <3> HIDE DEF G, At, l, D
    <3>3. BlockAt(Generate(s), p) = [id |-> Terrain[s][p].id, data |-> Terrain[s][p].data]
      BY <3>1, <3>2, <2>1, <2>2 DEF BlockAt, l
    <3>4. BlockAt(Generate(s), p) = Terrain[s][p]
      BY <3>3, <2>3 DEF Block
    <3> QED
      BY <3>4, <2>3 DEF Visible
  <2>5. CASE p.chunk \notin D
    <3>1. Terrain[s][p].id = 0
      BY <2>5, <2>1, <2>2
    <3>2. p.chunk \notin DOMAIN Generate(s)
      BY <1>1, <2>5
    <3> QED
      BY <3>1, <3>2, <2>3 DEF BlockAt, Visible, Air
  <2> QED
    BY <2>4, <2>5
<1>9. Terrain[s] = [p \in Cell |-> Terrain[s][p]]
  BY TerrainAssumption
<1> QED
  BY <1>7, <1>8, <1>9 DEF Shown

-----------------------------------------------------------------------------
\* One write: the world stays exact and the cell shows the new block, the
\* override is recorded, and the queue still holds cells that were written.
LEMMA WriteBlockKeeps ==
    ASSUME TypeOK, WorldExact(world), TicksOfThisWorld,
           NEW p \in Cell, NEW block \in Blocks, WriteBlock(p, block)
    PROVE  /\ IsWorld(world') /\ WorldExact(world')
           /\ IsOverrides(changes')
           /\ ticks' \in Seq(Cell) /\ Len(ticks') <= MaxScheduledTicks
           /\ TicksOfThisWorld'
           /\ Shown(world') = [Shown(world) EXCEPT ![p] = Visible(Stored(block))]
<1>1. p \in Position /\ block \in RawBlock
  BY CellIsPosition
<1>2. world' = WorldWith(world, p, block)
  BY DEF WriteBlock
<1>3. IsWorld(world') /\ WorldExact(world')
  BY <1>1, <1>2, WorldWithExact DEF TypeOK, BlocksTypeOK
<1>4. Shown(world') = [Shown(world) EXCEPT ![p] = Visible(Stored(block))]
  <2>1. \A q \in Cell : Visible(BlockAt(world', q)) =
            IF q = p THEN Visible(Stored(block)) ELSE Visible(BlockAt(world, q))
    BY <1>1, <1>2, WorldWithReads DEF TypeOK, BlocksTypeOK
  <2> QED
    BY <2>1 DEF Shown
<1>5. IsOverrides(changes') /\ DOMAIN changes' = DOMAIN changes \cup {p}
  BY DEF WriteBlock, TypeOK, BlocksTypeOK, IsOverrides
<1>6. /\ ticks' \in Seq(Cell) /\ Len(ticks') <= MaxScheduledTicks
      /\ \A i \in 1..Len(ticks') : ticks'[i] \in DOMAIN changes \cup {p}
  <2>1. /\ ticks \in Seq(Cell) /\ Len(ticks) <= MaxScheduledTicks
        /\ \A i \in 1..Len(ticks) : ticks[i] \in DOMAIN changes
    BY DEF TypeOK, BlocksTypeOK, TicksOfThisWorld
  <2>2. ticks' = ticks \/ (ticks' = Append(ticks, p) /\ Len(ticks) < MaxScheduledTicks)
    BY DEF WriteBlock, Schedule
  <2>3. CASE ticks' = ticks
    BY <2>1, <2>3
  <2>4. CASE ticks' = Append(ticks, p) /\ Len(ticks) < MaxScheduledTicks
    <3>1. ticks' \in Seq(Cell) /\ Len(ticks') = Len(ticks) + 1 /\ Len(ticks) \in Nat
      BY <2>1, <2>4
    <3>2. ASSUME NEW i \in 1..Len(ticks') PROVE ticks'[i] \in DOMAIN changes \cup {p}
      <4>1. CASE i \in 1..Len(ticks)
        BY <4>1, <2>1, <2>4
      <4>2. CASE i = Len(ticks) + 1
        BY <4>2, <2>1, <2>4
      <4> QED
        BY <3>1, <3>2, <4>1, <4>2
    <3> QED
      BY <3>1, <3>2, <2>4, ConstantsAssumption
  <2> QED
    BY <2>2, <2>3, <2>4
<1> QED
  BY <1>3, <1>4, <1>5, <1>6 DEF TicksOfThisWorld

\* Recording an override changes what the overrides stand for at its cell.
LEMMA OverlayOfWrite ==
    ASSUME NEW p \in Cell, NEW block \in Blocks, WriteBlock(p, block),
           NEW gen, NEW s
    PROVE  Overlay(gen, s, changes') =
              [Overlay(gen, s, changes) EXCEPT ![p] = Visible(Stored(block))]
<1>1. /\ DOMAIN changes' = DOMAIN changes \cup {p}
      /\ \A q \in DOMAIN changes' : changes'[q] = IF q = p THEN block ELSE changes[q]
  BY DEF WriteBlock
<1> HIDE DEF WriteBlock
<1> QED
  BY <1>1 DEF Overlay

LEMMA InitIInv == Init => IInv
<1> SUFFICES ASSUME Init PROVE IInv
  OBVIOUS
<1>1. IsWorld(NoChunks) /\ WorldExact(NoChunks)
  BY DEF IsWorld, WorldExact, NoChunks
<1>2. IsOverrides(NoChanges)
  BY DEF IsOverrides, NoChanges
<1>3. DefaultInventory \in Inventory
  BY ConstantsAssumption DEF DefaultInventory, Inventory, Slots
<1>4. TypeOK
  <2>1. ticks = <<>> /\ hits = <<>> /\ chat = <<>>
    BY DEF Init
  <2>2. ticks \in Seq(Cell) /\ Len(ticks) = 0 /\ hits \in Seq(Cell) /\ chat \in Seq(Messages)
    BY <2>1
  <2>3. camera \in [mode : CameraModes, at : Int]
    BY ConstantsAssumption DEF Init
  <2>4. seed \in Int
    BY DEF Init
  <2>7. generated \in BOOLEAN /\ (generated => seed \in Seeds) /\ immutable \in BOOLEAN
    BY DEF Init
  <2>5. /\ IsWorld(world) /\ IsWorld(lit) /\ IsOverrides(changes)
        /\ checkpoint = None /\ file = None /\ op = Idle
    BY <1>1, <1>2 DEF Init
  <2>6. spawn \in Int /\ player \in Int /\ inventory \in Inventory
    BY <1>3 DEF Init
  <2> QED
    BY <2>2, <2>3, <2>4, <2>5, <2>6, <2>7, ConstantsAssumption
    DEF TypeOK, BlocksTypeOK, PlayTypeOK, FileTypeOK, OpTypeOK
<1>5. Shown(world) = Overlay(generated, seed, changes)
  BY DEF Init, Shown, Overlay, Base, NoChunks, NoChanges, BlockAt, Visible, Air
<1>6. OverridesExplainWorld /\ CheckpointOfThisWorld /\ LightCurrent /\ FillLight /\ TicksOfThisWorld
  BY <1>5 DEF Init, OverridesExplainWorld, CheckpointOfThisWorld, LightCurrent, FillLight,
              TicksOfThisWorld, Idle
<1> QED
  BY <1>1, <1>4, <1>6 DEF Init, IInv

\* set_block, whoever calls it.
LEMMA SetBlockIInv ==
    ASSUME IInv, Free, NEW p \in Cell, NEW block \in Blocks, SetBlock(p, block)
    PROVE  IInv'
<1>1. WriteBlock(p, block) /\ UNCHANGED <<seed, generated, checkpoint, playVars, file, op>>
  BY DEF SetBlock
<1>2. /\ IsWorld(world') /\ WorldExact(world') /\ IsOverrides(changes')
      /\ ticks' \in Seq(Cell) /\ Len(ticks') <= MaxScheduledTicks /\ TicksOfThisWorld'
      /\ Shown(world') = [Shown(world) EXCEPT ![p] = Visible(Stored(block))]
  BY <1>1, WriteBlockKeeps DEF IInv
<1>3. Overlay(generated, seed, changes') =
         [Overlay(generated, seed, changes) EXCEPT ![p] = Visible(Stored(block))]
  BY <1>1, OverlayOfWrite
<1>4. lit' = world'
  <2>1. CASE BlockAt(world, p) # block
    BY <2>1 DEF SetBlock
  <2>2. CASE BlockAt(world, p) = block
    BY <2>2, <1>1, WriteSameBlock DEF SetBlock, WriteBlock, IInv, TypeOK, BlocksTypeOK, LightCurrent
  <2> QED
    BY <2>1, <2>2
<1>5. op' = Idle /\ op = Idle
  BY <1>1 DEF Free
<1> QED
  BY <1>1, <1>2, <1>3, <1>4, <1>5
  DEF IInv, TypeOK, BlocksTypeOK, PlayTypeOK, FileTypeOK, OpTypeOK, playVars, OverridesExplainWorld, CheckpointOfThisWorld, LightCurrent, FillLight, Free, Idle

LEMMA BeginSetBlocksIInv == IInv /\ BeginSetBlocks => IInv'
<1> SUFFICES ASSUME IInv, BeginSetBlocks PROVE IInv'
  OBVIOUS
<1>1. PICK box \in Boxes \ {{}}, block \in Blocks :
         op' = [kind |-> "fill", left |-> box, block |-> block, changed |-> FALSE]
  BY DEF BeginSetBlocks
<1>2. op = Idle /\ UNCHANGED <<blockVars, playVars, file>>
  BY DEF BeginSetBlocks, Free
<1>3. OpTypeOK'
  BY <1>1, BoxesAssumption DEF OpTypeOK
<1>4. op.kind = "idle" /\ op'.kind = "fill"
  BY <1>1, <1>2 DEF Idle
<1> QED
  BY <1>2, <1>3, <1>4
  DEF IInv, TypeOK, BlocksTypeOK, PlayTypeOK, FileTypeOK, blockVars, playVars, FillLight, Free,
      OverridesExplainWorld, CheckpointOfThisWorld, LightCurrent, TicksOfThisWorld, Idle

LEMMA FillCellIInv == IInv /\ FillCell => IInv'
<1> SUFFICES ASSUME IInv, FillCell PROVE IInv'
  OBVIOUS
<1>1. PICK p \in op.left :
         /\ WriteBlock(p, op.block)
         /\ op' = [kind |-> "fill", left |-> op.left \ {p}, block |-> op.block,
                   changed |-> op.changed \/ BlockAt(world, p) # op.block]
  BY DEF FillCell
<1>2. op.kind = "fill" /\ UNCHANGED <<seed, generated, lit, checkpoint, playVars, file>>
  BY DEF FillCell
<1>3. /\ op = [kind |-> "fill", left |-> op.left, block |-> op.block, changed |-> op.changed]
      /\ op.left \subseteq Cell /\ op.block \in Blocks /\ op.changed \in BOOLEAN
  BY <1>2 DEF IInv, TypeOK, OpTypeOK, Idle
<1>4. p \in Cell
  BY <1>3
<1>5. /\ IsWorld(world') /\ WorldExact(world') /\ IsOverrides(changes')
      /\ ticks' \in Seq(Cell) /\ Len(ticks') <= MaxScheduledTicks /\ TicksOfThisWorld'
      /\ Shown(world') = [Shown(world) EXCEPT ![p] = Visible(Stored(op.block))]
  BY <1>1, <1>3, <1>4, WriteBlockKeeps DEF IInv
<1>6. Overlay(generated, seed, changes') =
         [Overlay(generated, seed, changes) EXCEPT ![p] = Visible(Stored(op.block))]
  BY <1>1, <1>3, <1>4, OverlayOfWrite
<1> DEFINE changed == op.changed \/ BlockAt(world, p) # op.block
<1>7. op' = [kind |-> "fill", left |-> op.left \ {p}, block |-> op.block, changed |-> changed]
  BY <1>1
<1>8. OpTypeOK'
  <2>1. changed \in BOOLEAN
    OBVIOUS
  <2> HIDE DEF changed
  <2> QED
    BY <2>1, <1>7, <1>3 DEF OpTypeOK
<1>9. FillLight'
  <2>1. ASSUME op'.changed = FALSE PROVE lit' = world'
    <3>1. op.changed = FALSE /\ BlockAt(world, p) = op.block
      BY <2>1, <1>7, <1>3
    <3>2. world' = world
      BY <3>1, <1>1, <1>4, WriteSameBlock DEF WriteBlock, IInv, TypeOK, BlocksTypeOK
    <3> QED
      BY <3>1, <3>2, <1>2 DEF IInv, FillLight
  <2> QED
    BY <2>1 DEF FillLight
<1>10. op'.kind = "fill" /\ op' # Idle
  BY <1>7 DEF Idle
<1> HIDE DEF changed
<1> QED
  BY <1>2, <1>5, <1>6, <1>8, <1>9, <1>10
  DEF IInv, TypeOK, BlocksTypeOK, PlayTypeOK, FileTypeOK, playVars, Free,
      OverridesExplainWorld, CheckpointOfThisWorld, LightCurrent

LEMMA EndSetBlocksIInv == IInv /\ EndSetBlocks => IInv'
<1> SUFFICES ASSUME IInv, EndSetBlocks PROVE IInv'
  OBVIOUS
<1>1. /\ op.kind = "fill" /\ op' = Idle
      /\ UNCHANGED <<seed, generated, world, ticks, changes, checkpoint, playVars, file>>
  BY DEF EndSetBlocks
<1>2. op.changed \in BOOLEAN
  BY <1>1 DEF IInv, TypeOK, OpTypeOK, Idle
<1>3. lit' = world
  <2>1. CASE op.changed
    BY <2>1 DEF EndSetBlocks
  <2>2. CASE ~ op.changed
    BY <2>2, <1>1, <1>2 DEF EndSetBlocks, IInv, FillLight
  <2> QED
    BY <2>1, <2>2
<1>4. op'.kind = "idle"
  BY <1>1 DEF Idle
<1> QED
  BY <1>1, <1>3, <1>4
  DEF IInv, TypeOK, BlocksTypeOK, PlayTypeOK, FileTypeOK, OpTypeOK, playVars, FillLight, Free,
      OverridesExplainWorld, CheckpointOfThisWorld, LightCurrent, TicksOfThisWorld

LEMMA DeliverTickIInv == IInv /\ DeliverTick => IInv'
<1> SUFFICES ASSUME IInv, DeliverTick PROVE IInv'
  OBVIOUS
<1>1. /\ ticks # <<>> /\ ticks' = Tail(ticks)
      /\ UNCHANGED <<seed, generated, world, lit, changes, checkpoint, playVars, file, op>>
  BY DEF DeliverTick
<1>2. /\ ticks \in Seq(Cell) /\ Len(ticks) <= MaxScheduledTicks
      /\ \A i \in 1..Len(ticks) : ticks[i] \in DOMAIN changes
  BY DEF IInv, TypeOK, BlocksTypeOK, TicksOfThisWorld
<1>3. /\ ticks' \in Seq(Cell) /\ Len(ticks') = Len(ticks) - 1 /\ Len(ticks) \in Nat
      /\ \A i \in 1..Len(ticks') : ticks'[i] = ticks[i + 1]
  BY <1>1, <1>2
<1>4. Len(ticks') <= MaxScheduledTicks /\ TicksOfThisWorld'
  BY <1>1, <1>2, <1>3, ConstantsAssumption DEF TicksOfThisWorld
<1> QED
  BY <1>1, <1>3, <1>4
  DEF IInv, TypeOK, BlocksTypeOK, PlayTypeOK, FileTypeOK, OpTypeOK, playVars, FillLight, Free,
      OverridesExplainWorld, CheckpointOfThisWorld, LightCurrent

-----------------------------------------------------------------------------
LEMMA NewWorldIInv == IInv /\ NewWorld => IInv'
<1> SUFFICES ASSUME IInv, NewWorld PROVE IInv'
  OBVIOUS
<1>1. PICK s \in Seeds : ResetBlocks(s)
  BY DEF NewWorld
<1>2. /\ changes' = NoChanges /\ spawn' = ColumnHeight(world', SpawnChunk, SpawnColumn)
      /\ player' = spawn' /\ inventory' = DefaultInventory
      /\ camera' = [mode |-> "Normal", at |-> spawn'] /\ hits' = <<>> /\ chat' = <<>>
      /\ op = Idle /\ UNCHANGED <<immutable, file, op>>
  BY DEF NewWorld, Free
<1>3. /\ seed' = s /\ generated' = TRUE /\ world' = Generate(s) /\ lit' = Generate(s)
      /\ ticks' = <<>> /\ checkpoint' = None
  BY <1>1 DEF ResetBlocks
<1>4. IsWorld(world') /\ WorldExact(world') /\ Shown(world') = Terrain[s]
  BY <1>3, GenerateExact
<1>5. IsOverrides(changes')
  BY <1>2 DEF IsOverrides, NoChanges
<1>6. ticks' \in Seq(Cell) /\ Len(ticks') = 0 /\ TicksOfThisWorld'
  BY <1>3 DEF TicksOfThisWorld
<1>7. BlocksTypeOK'
  <2>1. seed' \in Int /\ generated' \in BOOLEAN /\ (generated' => seed' \in Seeds)
    BY <1>3, ConstantsAssumption
  <2> QED
    BY <2>1, <1>3, <1>4, <1>5, <1>6, ConstantsAssumption DEF BlocksTypeOK
<1>8. PlayTypeOK'
  <2>1. spawn' \in Int
    BY <1>2, <1>4, SpawnAssumption DEF ColumnHeight, IsWorld, Chunk
  <2>2. inventory' \in Inventory
    BY <1>2, ConstantsAssumption DEF DefaultInventory, Inventory, Slots
  <2>3. camera' \in [mode : CameraModes, at : Int]
    BY <1>2, <2>1, ConstantsAssumption
  <2>4. hits' \in Seq(Cell) /\ chat' \in Seq(Messages)
    BY <1>2
  <2> QED
    BY <1>2, <2>1, <2>2, <2>3, <2>4 DEF PlayTypeOK, IInv, TypeOK
<1>9. FileTypeOK' /\ OpTypeOK'
  BY <1>2 DEF IInv, TypeOK, FileTypeOK, OpTypeOK
<1>10. Shown(world') = Overlay(generated', seed', changes')
  <2>1. Terrain[s] = [p \in Cell |-> Terrain[s][p]]
    BY TerrainAssumption
  <2> QED
    BY <1>2, <1>3, <1>4, <2>1 DEF Overlay, Base, NoChanges
<1>11. op'.kind = "idle"
  BY <1>2 DEF Idle
<1> QED
  BY <1>3, <1>4, <1>6, <1>7, <1>8, <1>9, <1>10, <1>11
  DEF IInv, TypeOK, FillLight, LightCurrent, OverridesExplainWorld, CheckpointOfThisWorld

LEMMA SaveCheckpointIInv == IInv /\ SaveCheckpoint => IInv'
<1> SUFFICES ASSUME IInv, SaveCheckpoint PROVE IInv'
  OBVIOUS
<1>1. /\ op = Idle
      /\ checkpoint' = [world |-> world, player |-> player, changes |-> changes]
      /\ UNCHANGED <<seed, generated, world, lit, ticks, changes, playVars, file, op>>
  BY DEF SaveCheckpoint, Free
<1>2. op.kind = "idle"
  BY <1>1 DEF Idle
<1>3. /\ checkpoint'.world = world /\ checkpoint'.changes = changes
      /\ checkpoint'.player = player
  BY <1>1
<1>4. Shown(checkpoint'.world) = Overlay(generated, seed, checkpoint'.changes)
  BY <1>2, <1>3 DEF IInv, OverridesExplainWorld
<1> HIDE DEF Idle
<1> QED
  BY <1>1, <1>2, <1>3, <1>4
  DEF IInv, TypeOK, BlocksTypeOK, PlayTypeOK, FileTypeOK, OpTypeOK, playVars, FillLight, Free,
      OverridesExplainWorld, CheckpointOfThisWorld, LightCurrent, TicksOfThisWorld

LEMMA RestoreCheckpointIInv == IInv /\ RestoreCheckpoint => IInv'
<1> SUFFICES ASSUME IInv, RestoreCheckpoint PROVE IInv'
  OBVIOUS
<1>1. /\ op = Idle /\ checkpoint # None
      /\ world' = checkpoint.world /\ lit' = checkpoint.world
      /\ changes' = checkpoint.changes /\ ticks' = <<>> /\ player' = checkpoint.player
      /\ UNCHANGED <<seed, generated, checkpoint, spawn, inventory, camera, hits, chat,
                     immutable, file, op>>
  BY DEF RestoreCheckpoint, Free
<1>2. /\ IsWorld(checkpoint.world) /\ checkpoint.player \in Int
      /\ IsOverrides(checkpoint.changes) /\ WorldExact(checkpoint.world)
      /\ Shown(checkpoint.world) = Overlay(generated, seed, checkpoint.changes)
  BY <1>1 DEF IInv, TypeOK, BlocksTypeOK, CheckpointOfThisWorld
<1>3. ticks' \in Seq(Cell) /\ Len(ticks') = 0 /\ TicksOfThisWorld'
  BY <1>1 DEF TicksOfThisWorld
<1>4. op.kind = "idle"
  BY <1>1 DEF Idle
<1>5. BlocksTypeOK' /\ PlayTypeOK' /\ FileTypeOK' /\ OpTypeOK'
  BY <1>1, <1>2, <1>3, <1>4, ConstantsAssumption
  DEF IInv, TypeOK, BlocksTypeOK, PlayTypeOK, FileTypeOK, OpTypeOK
<1> QED
  BY <1>1, <1>2, <1>3, <1>4, <1>5
  DEF IInv, TypeOK, FillLight, OverridesExplainWorld, CheckpointOfThisWorld, LightCurrent

LEMMA SaveIInv == IInv /\ Save => IInv'
<1> SUFFICES ASSUME IInv, Save PROVE IInv'
  OBVIOUS
<1>1. /\ UNCHANGED <<blockVars, playVars, op>>
      /\ file' = [generated |-> generated, seed |-> seed, spawn |-> spawn,
                  player |-> player, inventory |-> inventory, changes |-> changes]
  BY DEF Save
<1>2. /\ file'.generated = generated /\ file'.seed = seed /\ file'.spawn = spawn
      /\ file'.player = player /\ file'.inventory = inventory /\ file'.changes = changes
  BY <1>1
<1>3. FileTypeOK'
  BY <1>2 DEF IInv, TypeOK, BlocksTypeOK, PlayTypeOK, FileTypeOK
<1> QED
  BY <1>1, <1>3
  DEF IInv, TypeOK, BlocksTypeOK, PlayTypeOK, OpTypeOK, blockVars, playVars, FillLight, Free,
      OverridesExplainWorld, CheckpointOfThisWorld, LightCurrent, TicksOfThisWorld

LEMMA BeginLoadIInv == IInv /\ BeginLoad => IInv'
<1> SUFFICES ASSUME IInv, BeginLoad PROVE IInv'
  OBVIOUS
<1>1. /\ op = Idle /\ file # None
      /\ spawn' = file.spawn /\ player' = file.player /\ inventory' = file.inventory
      /\ changes' = file.changes
      /\ op' = [kind |-> "replay", left |-> DOMAIN file.changes]
      /\ UNCHANGED <<immutable, file>>
  BY DEF BeginLoad, Free
<1>2. /\ file.generated \in BOOLEAN /\ file.seed \in Int
      /\ file.generated => file.seed \in Seeds
      /\ file.spawn \in Int /\ file.player \in Int /\ file.inventory \in Inventory
      /\ IsOverrides(file.changes)
  BY <1>1 DEF IInv, TypeOK, FileTypeOK
<1>3. /\ seed' = file.seed /\ generated' = file.generated
      /\ IsWorld(world') /\ WorldExact(world') /\ IsWorld(lit')
      /\ Shown(world') = [p \in Cell |-> Base(file.generated, file.seed)[p]]
      /\ ticks' = <<>> /\ checkpoint' = None
      /\ camera' \in [mode : CameraModes, at : Int]
      /\ hits' \in Seq(Cell) /\ chat' \in Seq(Messages)
  <2>1. CASE file.generated
    <3>1. /\ ResetBlocks(file.seed) /\ hits' = <<>> /\ chat' = <<>>
          /\ camera' = [mode |-> "Normal",
                        at |-> ColumnHeight(world', SpawnChunk, SpawnColumn)]
      BY <2>1 DEF BeginLoad
    <3>2. /\ seed' = file.seed /\ generated' = TRUE
          /\ world' = Generate(file.seed) /\ lit' = Generate(file.seed)
          /\ ticks' = <<>> /\ checkpoint' = None
      BY <3>1 DEF ResetBlocks
    <3>3. IsWorld(world') /\ WorldExact(world') /\ Shown(world') = Terrain[file.seed]
      BY <1>2, <2>1, <3>2, GenerateExact
    <3>4. Terrain[file.seed] = [p \in Cell |-> Terrain[file.seed][p]]
      BY <1>2, <2>1, TerrainAssumption
    <3>5. Shown(world') = [p \in Cell |-> Base(file.generated, file.seed)[p]]
      BY <2>1, <3>3, <3>4 DEF Base
    <3>6. ColumnHeight(world', SpawnChunk, SpawnColumn) \in Int
      BY <3>3, SpawnAssumption DEF ColumnHeight, IsWorld, Chunk
    <3>7. camera' \in [mode : CameraModes, at : Int]
      BY <3>1, <3>6, ConstantsAssumption
    <3>8. hits' \in Seq(Cell) /\ chat' \in Seq(Messages)
      BY <3>1
    <3>9. generated' = file.generated
      BY <2>1, <1>2, <3>2
    <3> QED
      BY <3>2, <3>3, <3>5, <3>7, <3>8, <3>9
  <2>2. CASE ~ file.generated
    <3>1. /\ seed' = file.seed /\ generated' = FALSE
          /\ world' = NoChunks /\ ticks' = <<>> /\ checkpoint' = None
          /\ UNCHANGED <<lit, hits, chat, camera>>
      BY <2>2 DEF BeginLoad
    <3>2. IsWorld(world') /\ WorldExact(world')
      BY <3>1 DEF IsWorld, WorldExact, NoChunks
    <3>3. Shown(world') = [p \in Cell |-> Base(file.generated, file.seed)[p]]
      BY <3>1, <2>2 DEF Shown, Base, NoChunks, BlockAt, Visible, Air
    <3>4. generated' = file.generated
      BY <2>2, <1>2, <3>1
    <3> QED
      BY <3>1, <3>2, <3>3, <3>4 DEF IInv, TypeOK, BlocksTypeOK, PlayTypeOK
  <2> QED
    BY <2>1, <2>2
<1>4. ticks' \in Seq(Cell) /\ Len(ticks') = 0 /\ TicksOfThisWorld'
  BY <1>3 DEF TicksOfThisWorld
<1>5. BlocksTypeOK'
  <2>1. seed' \in Int /\ generated' \in BOOLEAN /\ (generated' => seed' \in Seeds)
    BY <1>2, <1>3
  <2> QED
    BY <2>1, <1>1, <1>2, <1>3, <1>4, ConstantsAssumption DEF BlocksTypeOK
<1>6. PlayTypeOK' /\ FileTypeOK' /\ OpTypeOK'
  <2>1. PlayTypeOK'
    BY <1>1, <1>2, <1>3 DEF IInv, TypeOK, PlayTypeOK
  <2>2. FileTypeOK'
    BY <1>1 DEF IInv, TypeOK, FileTypeOK
  <2>3. OpTypeOK'
    BY <1>1 DEF OpTypeOK
  <2> QED
    BY <2>1, <2>2, <2>3
<1>7. OverridesExplainWorld'
  <2>1. DOMAIN changes' \subseteq Cell /\ op'.kind = "replay" /\ op'.left = DOMAIN changes'
    BY <1>1, <1>2 DEF IsOverrides
  <2>2. [p \in Cell |-> IF p \in op'.left THEN Base(generated', seed')[p]
                        ELSE Overlay(generated', seed', changes')[p]]
          = [p \in Cell |-> Base(generated', seed')[p]]
    BY <2>1 DEF Overlay
  <2> QED
    BY <2>1, <2>2, <1>3 DEF OverridesExplainWorld
<1>8. op'.kind = "replay" /\ op' # Idle
  BY <1>1 DEF Idle
<1> QED
  BY <1>3, <1>4, <1>5, <1>6, <1>7, <1>8
  DEF IInv, TypeOK, FillLight, LightCurrent, Free, CheckpointOfThisWorld

LEMMA ReplayChangeIInv == IInv /\ ReplayChange => IInv'
<1> SUFFICES ASSUME IInv, ReplayChange PROVE IInv'
  OBVIOUS
<1>1. PICK p \in op.left : /\ world' = WorldWith(world, p, changes[p])
                           /\ op' = [kind |-> "replay", left |-> op.left \ {p}]
  BY DEF ReplayChange
<1>2. /\ op.kind = "replay"
      /\ UNCHANGED <<seed, generated, lit, ticks, changes, checkpoint, playVars, file>>
  BY DEF ReplayChange
<1>3. op.left \subseteq DOMAIN changes
  BY <1>2 DEF IInv, TypeOK, OpTypeOK, Idle
<1>4. p \in Cell /\ p \in DOMAIN changes /\ changes[p] \in Blocks
  BY <1>3 DEF IInv, TypeOK, BlocksTypeOK, IsOverrides
<1>5. IsWorld(world') /\ WorldExact(world')
  BY <1>1, <1>4, CellIsPosition, WorldWithExact DEF IInv, TypeOK, BlocksTypeOK
<1>6. \A q \in Cell : Visible(BlockAt(world', q)) =
         IF q = p THEN Visible(Stored(changes[p])) ELSE Visible(BlockAt(world, q))
  BY <1>1, <1>4, CellIsPosition, WorldWithReads DEF IInv, TypeOK, BlocksTypeOK
<1>7. op'.kind = "replay" /\ op'.left = op.left \ {p} /\ op' # Idle
  BY <1>1 DEF Idle
<1>8. OverridesExplainWorld'
  <2>1. \A q \in Cell : Shown(world)[q] =
           IF q \in op.left THEN Base(generated, seed)[q]
                            ELSE Overlay(generated, seed, changes)[q]
    BY <1>2 DEF IInv, OverridesExplainWorld
  <2>2. Overlay(generated, seed, changes)[p] = Visible(Stored(changes[p]))
    BY <1>4 DEF Overlay
  <2>3. Shown(world') = [q \in Cell |-> IF q \in op'.left THEN Base(generated, seed)[q]
                                        ELSE Overlay(generated, seed, changes)[q]]
    BY <1>6, <1>7, <2>1, <2>2 DEF Shown
  <2> QED
    BY <2>3, <1>2, <1>7 DEF OverridesExplainWorld
<1>9. OpTypeOK'
  BY <1>1, <1>2, <1>3, <1>7 DEF OpTypeOK
<1> QED
  BY <1>2, <1>5, <1>7, <1>8, <1>9
  DEF IInv, TypeOK, BlocksTypeOK, PlayTypeOK, FileTypeOK, playVars, FillLight, Free,
      CheckpointOfThisWorld, LightCurrent, TicksOfThisWorld

LEMMA EndLoadIInv == IInv /\ EndLoad => IInv'
<1> SUFFICES ASSUME IInv, EndLoad PROVE IInv'
  OBVIOUS
<1>1. /\ op.kind = "replay" /\ op.left = {} /\ lit' = world /\ ticks' = <<>>
      /\ camera' = [camera EXCEPT !.at = player] /\ op' = Idle
      /\ UNCHANGED <<seed, generated, world, changes, checkpoint, spawn, player, inventory,
                     hits, chat, immutable, file>>
  BY DEF EndLoad
<1>2. Shown(world) = Overlay(generated, seed, changes)
  BY <1>1 DEF IInv, OverridesExplainWorld, Overlay
<1>3. ticks' \in Seq(Cell) /\ Len(ticks') = 0 /\ TicksOfThisWorld'
  BY <1>1 DEF TicksOfThisWorld
<1>4. op'.kind = "idle"
  BY <1>1 DEF Idle
<1>5. BlocksTypeOK' /\ PlayTypeOK' /\ FileTypeOK' /\ OpTypeOK'
  <2>1. camera' \in [mode : CameraModes, at : Int]
    BY <1>1 DEF IInv, TypeOK, PlayTypeOK
  <2> QED
    BY <2>1, <1>1, <1>3, ConstantsAssumption
    DEF IInv, TypeOK, BlocksTypeOK, PlayTypeOK, FileTypeOK, OpTypeOK
<1> QED
  BY <1>1, <1>2, <1>3, <1>4, <1>5
  DEF IInv, TypeOK, FillLight, OverridesExplainWorld, CheckpointOfThisWorld, LightCurrent

-----------------------------------------------------------------------------
\* What only concerns the player leaves everything else as it is.
LEMMA PlayIInv ==
    IInv /\ PlayTypeOK' /\ UNCHANGED <<blockVars, file, op>> => IInv'
BY DEF IInv, TypeOK, BlocksTypeOK, FileTypeOK, OpTypeOK, blockVars, FillLight, Free,
       OverridesExplainWorld, CheckpointOfThisWorld, LightCurrent, TicksOfThisWorld

LEMMA PlayNextIInv == IInv /\ PlayNext => IInv'
<1> SUFFICES ASSUME IInv, PlayNext PROVE PlayTypeOK' /\ UNCHANGED <<blockVars, file, op>>
  BY PlayIInv
<1>1. PlayTypeOK
  BY DEF IInv, TypeOK
<1>2. CASE MovePlayer
  BY <1>1, <1>2, ConstantsAssumption DEF MovePlayer, PlayTypeOK
<1>3. CASE SelectHotbarSlot
  <2>1. PICK slot \in -1..HotbarSize :
           inventory' = [inventory EXCEPT !.selected =
              IF slot < 0 THEN 0 ELSE IF slot \in Slots THEN slot ELSE HotbarSize - 1]
    BY <1>3 DEF SelectHotbarSlot
  <2>2. (IF slot < 0 THEN 0 ELSE IF slot \in Slots THEN slot ELSE HotbarSize - 1) \in Slots
    BY ConstantsAssumption DEF Slots
  <2>3. inventory' \in Inventory
    BY <1>1, <2>1, <2>2 DEF PlayTypeOK, Inventory
  <2> QED
    BY <1>1, <1>3, <2>3 DEF SelectHotbarSlot, PlayTypeOK
<1>4. CASE SetHotbarBlock
  <2>1. PICK slot \in Slots, block \in Items :
           inventory' = [inventory EXCEPT !.slots[slot] = block]
    BY <1>4 DEF SetHotbarBlock
  <2>2. inventory' \in Inventory
    BY <1>1, <2>1, ConstantsAssumption DEF PlayTypeOK, Inventory
  <2> QED
    BY <1>1, <1>4, <2>2 DEF SetHotbarBlock, PlayTypeOK
<1>5. CASE SetCamera
  <2>1. camera' \in [mode : CameraModes, at : Int]
    BY <1>1, <1>5, ConstantsAssumption DEF SetCamera, PlayTypeOK
  <2> QED
    BY <1>1, <1>5, <2>1 DEF SetCamera, PlayTypeOK
<1>6. CASE SetWorldImmutable
  BY <1>1, <1>6 DEF SetWorldImmutable, PlayTypeOK
<1>7. CASE AddBlockHit
  <2>1. hits' \in Seq(Cell)
    BY <1>1, <1>7 DEF AddBlockHit, PlayTypeOK
  <2> QED
    BY <1>1, <1>7, <2>1 DEF AddBlockHit, PlayTypeOK
<1>8. CASE PollBlockHits
  <2>1. hits' \in Seq(Cell)
    BY <1>8 DEF PollBlockHits
  <2> QED
    BY <1>1, <1>8, <2>1 DEF PollBlockHits, PlayTypeOK
<1>9. CASE PostChat
  <2>1. chat' \in Seq(Messages)
    BY <1>1, <1>9 DEF PostChat, PlayTypeOK
  <2> QED
    BY <1>1, <1>9, <2>1 DEF PostChat, PlayTypeOK
<1> QED
  BY <1>2, <1>3, <1>4, <1>5, <1>6, <1>7, <1>8, <1>9 DEF PlayNext

LEMMA NextIInv == IInv /\ [Next]_vars => IInv'
<1> SUFFICES ASSUME IInv, [Next]_vars PROVE IInv'
  OBVIOUS
<1>1. CASE ApiSetBlock
  BY <1>1, SetBlockIInv DEF ApiSetBlock
<1>2. CASE BreakBlock
  BY <1>2, SetBlockIInv, BlocksAssumption DEF BreakBlock
<1>3. CASE PlaceSelectedBlock
  <2>1. inventory.slots[inventory.selected] \in Blocks
    BY DEF IInv, TypeOK, PlayTypeOK, Inventory
  <2> QED
    BY <1>3, <2>1, SetBlockIInv DEF PlaceSelectedBlock
<1>4. CASE BeginSetBlocks
  BY <1>4, BeginSetBlocksIInv
<1>5. CASE FillCell
  BY <1>5, FillCellIInv
<1>6. CASE EndSetBlocks
  BY <1>6, EndSetBlocksIInv
<1>7. CASE DeliverTick
  BY <1>7, DeliverTickIInv
<1>8. CASE LifecycleNext
  BY <1>8, NewWorldIInv, SaveCheckpointIInv, RestoreCheckpointIInv, SaveIInv,
     BeginLoadIInv, ReplayChangeIInv, EndLoadIInv DEF LifecycleNext
<1>9. CASE PlayNext
  BY <1>9, PlayNextIInv
<1>10. CASE UNCHANGED vars
  BY <1>10 DEF vars, blockVars, playVars, IInv, TypeOK, BlocksTypeOK, PlayTypeOK, FileTypeOK,
               OpTypeOK, FillLight, Free, OverridesExplainWorld, CheckpointOfThisWorld,
               LightCurrent, TicksOfThisWorld
<1> QED
  BY <1>1, <1>2, <1>3, <1>4, <1>5, <1>6, <1>7, <1>8, <1>9, <1>10 DEF Next, BlockNext

LEMMA SpecIInv == Spec => []IInv
BY InitIInv, NextIInv, PTL DEF Spec

\* Every variable keeps its type, for every terrain, size of the world, size
\* of the hotbar and bound.
THEOREM TypeCorrect == Spec => []TypeOK
<1>1. IInv => TypeOK
  BY DEF IInv
<1> QED
  BY <1>1, SpecIInv, PTL

\* The overrides that save writes always account for the whole world.
THEOREM OverridesAlwaysExplainWorld == Spec => []OverridesExplainWorld
<1>1. IInv => OverridesExplainWorld
  BY DEF IInv
<1> QED
  BY <1>1, SpecIInv, PTL

\* A checkpoint never outlives the world it was taken in.
THEOREM CheckpointIsOfThisWorld == Spec => []CheckpointOfThisWorld
<1>1. IInv => CheckpointOfThisWorld
  BY DEF IInv
<1> QED
  BY <1>1, SpecIInv, PTL

\* The light is never left behind by the blocks: in particular set_block and
\* set_blocks may skip the rebuild, since a raw block equal to the one stored
\* changes nothing, allocated chunks included.
THEOREM LightIsCurrent == Spec => []LightCurrent
<1>1. IInv => LightCurrent
  BY DEF IInv
<1> QED
  BY <1>1, SpecIInv, PTL

\* No tick is left behind by a world that was replaced.
THEOREM TicksAreOfThisWorld == Spec => []TicksOfThisWorld
<1>1. IInv => TicksOfThisWorld
  BY DEF IInv
<1> QED
  BY <1>1, SpecIInv, PTL

-----------------------------------------------------------------------------
(* The refinement.  What a game state shows are the blocks of its world,   *)
(* or, while load replays the overrides, what the overrides stand for.     *)

\* What the overrides stand for, and what a world shows, is a grid of blocks.
LEMMA ShownType ==
    /\ \A w : IsWorld(w) => Shown(w) \in [Cell -> Block]
    /\ \A gen \in BOOLEAN : \A over, s : IsOverrides(over) /\ (gen => s \in Seeds)
           => Overlay(gen, s, over) \in [Cell -> Block]
<1>1. Air \in Block /\ \A block \in Block : Visible(block) \in Block
  BY DEF Air, Block, Visible
<1>2. \A block \in Blocks : Stored(block) \in Block
  BY BlocksAssumption DEF Stored, RawBlock, Block
<1>3. ASSUME NEW w, IsWorld(w) PROVE Shown(w) \in [Cell -> Block]
  <2>1. ASSUME NEW p \in Cell PROVE BlockAt(w, p) \in Block
    <3>1. CASE p.chunk \in DOMAIN w
      <4>1. w[p.chunk] \in Chunk /\ <<p.column, p.y>> \in Local
        BY <1>3, <3>1 DEF IsWorld, Cell, Local
      <4>2. /\ w[p.chunk].ids[<<p.column, p.y>>] \in 0..255
            /\ w[p.chunk].data[<<p.column, p.y>>] \in 0..15
        BY <4>1, ZenonT(30) DEF Chunk
      <4> QED
        BY <4>2, <3>1, <1>1, ZenonT(30) DEF BlockAt, Block
    <3>2. CASE p.chunk \notin DOMAIN w
      BY <3>2, <1>1 DEF BlockAt
    <3> QED
      BY <3>1, <3>2
  <2> QED
    BY <1>1, <2>1 DEF Shown
<1>4. ASSUME NEW over, NEW gen \in BOOLEAN, NEW s, IsOverrides(over), gen => s \in Seeds
      PROVE  Overlay(gen, s, over) \in [Cell -> Block]
  <2>1. Base(gen, s) \in [Cell -> Block]
    BY <1>1, <1>4, TerrainAssumption DEF Base
  <2>2. \A p \in DOMAIN over : over[p] \in Blocks
    BY <1>4 DEF IsOverrides
  <2> QED
    BY <1>1, <1>2, <2>1, <2>2 DEF Overlay
<1> QED
  BY <1>3, <1>4

\* A file is not None, and neither is what it stands for.
LEMMA SomethingIsSaved ==
    ASSUME NEW gen \in BOOLEAN, NEW s \in Int, gen => s \in Seeds,
           NEW at \in Int, NEW p \in Int, NEW inv \in Inventory, NEW over, IsOverrides(over)
    PROVE  /\ [generated |-> gen, seed |-> s, spawn |-> at, player |-> p,
               inventory |-> inv, changes |-> over] # None
           /\ [blocks |-> Overlay(gen, s, over), self |-> Self(at, p, inv)] # None
<1>1. over \in UNION {[cells -> Blocks] : cells \in SUBSET Cell}
  BY DEF IsOverrides
<1>2. Overlay(gen, s, over) \in [Cell -> Block]
  BY ShownType
<1>3. Self(at, p, inv) \in [spawn : Int, player : Int, inventory : Inventory]
  BY DEF Self
<1> QED
  BY <1>1, <1>2, <1>3, NoneAssumption

\* The same for a checkpoint.
LEMMA SomethingIsMarked ==
    ASSUME NEW w, IsWorld(w), NEW p \in Int, NEW over, IsOverrides(over)
    PROVE  /\ [world |-> w, player |-> p, changes |-> over] # None
           /\ [blocks |-> Shown(w), player |-> p] # None
<1>1. over \in UNION {[cells -> Blocks] : cells \in SUBSET Cell}
  BY DEF IsOverrides
<1>2. w \in UNION {[c -> Chunk] : c \in SUBSET ChunkPos}
  BY DEF IsWorld
<1>3. Shown(w) \in [Cell -> Block]
  BY ShownType
<1> QED
  BY <1>1, <1>2, <1>3, NoneAssumption

LEMMA SeenIsVisible == \A block : Editable!Seen(block) = Visible(Stored(block))
BY DEF Editable!Seen, Editable!Stored, Editable!Air, Visible, Stored, Air

LEMMA InitRefines == Init => Editable!Init
<1> SUFFICES ASSUME Init PROVE Editable!Init
  OBVIOUS
<1>1. op.kind = "idle" /\ world = NoChunks /\ checkpoint = None /\ file = None
  BY DEF Init, Idle
<1>2. Shown(world) = [p \in Cell |-> Editable!Air]
  BY <1>1 DEF Shown, NoChunks, BlockAt, Visible, Air, Editable!Air
<1>3. Self(spawn, player, inventory).player = 0 /\ Self(spawn, player, inventory).spawn = 64
  BY DEF Init, Self
<1> QED
  BY <1>1, <1>2, <1>3 DEF Editable!Init

\* One block written outside of a load is one edit.
LEMMA WriteRefines ==
    ASSUME IInv, NEW p \in Cell, NEW block \in Blocks, WriteBlock(p, block),
           op.kind # "replay", op'.kind # "replay",
           UNCHANGED <<checkpoint, spawn, player, inventory, file>>
    PROVE  Editable!Edit(p, block)
<1>1. Shown(world') = [Shown(world) EXCEPT ![p] = Editable!Seen(block)]
  BY WriteBlockKeeps, SeenIsVisible DEF IInv
<1> QED
  BY <1>1 DEF Editable!Edit

\* What changes no block, no player, no checkpoint and no file is no step;
\* the replay of a load is no change of blocks.
LEMMA Stutters ==
    ASSUME UNCHANGED <<generated, seed, changes, checkpoint, spawn, player, inventory, file>>,
           op'.kind = "replay" <=> op.kind = "replay",
           world' = world \/ op.kind = "replay"
    PROVE  UNCHANGED Editable!vars
BY DEF Editable!vars

LEMMA NewWorldRefines == IInv /\ NewWorld => Editable!Next
<1> SUFFICES ASSUME IInv, NewWorld PROVE Editable!Next
  OBVIOUS
<1>1. PICK s \in Seeds : ResetBlocks(s)
  BY DEF NewWorld
<1>2. world' = Generate(s) /\ checkpoint' = None /\ file' = file /\ op'.kind = "idle"
      /\ player' = spawn'
  BY <1>1 DEF ResetBlocks, NewWorld, Free, Idle
<1>3. Shown(world') = Terrain[s]
  BY <1>2, GenerateExact
<1>4. Self(spawn', player', inventory').player = Self(spawn', player', inventory').spawn
  BY <1>2 DEF Self
<1>5. Editable!New(s)
  BY <1>2, <1>3, <1>4 DEF Editable!New
<1> QED
  BY <1>5 DEF Editable!Next

LEMMA SaveCheckpointRefines == IInv /\ SaveCheckpoint => Editable!Next
<1> SUFFICES ASSUME IInv, SaveCheckpoint PROVE Editable!Next
  OBVIOUS
<1>1. /\ op.kind = "idle" /\ op'.kind = "idle"
      /\ checkpoint' = [world |-> world, player |-> player, changes |-> changes]
      /\ UNCHANGED <<seed, generated, world, changes, spawn, player, inventory, file>>
  BY DEF SaveCheckpoint, Free, Idle, playVars
<1>2. checkpoint' # None
  BY <1>1, SomethingIsMarked DEF IInv, TypeOK, BlocksTypeOK, PlayTypeOK
<1>3. checkpoint'.world = world /\ checkpoint'.player = player
  BY <1>1
<1>4. Editable!Mark
  BY <1>1, <1>2, <1>3 DEF Editable!Mark, Self
<1> QED
  BY <1>4 DEF Editable!Next

LEMMA RestoreCheckpointRefines == IInv /\ RestoreCheckpoint => Editable!Next
<1> SUFFICES ASSUME IInv, RestoreCheckpoint PROVE Editable!Next
  OBVIOUS
<1>1. /\ op.kind = "idle" /\ op'.kind = "idle" /\ checkpoint # None
      /\ world' = checkpoint.world /\ player' = checkpoint.player
      /\ UNCHANGED <<checkpoint, spawn, inventory, file>>
  BY DEF RestoreCheckpoint, Free, Idle
<1> DEFINE mark == [blocks |-> Shown(checkpoint.world), player |-> checkpoint.player]
<1>2. mark # None
  BY <1>1, SomethingIsMarked DEF IInv, TypeOK, BlocksTypeOK
<1>3. Self(spawn', player', inventory') = [Self(spawn, player, inventory) EXCEPT !.player = mark.player]
  BY <1>1 DEF Self
<1>4. Shown(world') = mark.blocks
  BY <1>1
<1>5. Editable!Return
  BY <1>1, <1>2, <1>3, <1>4 DEF Editable!Return
<1> QED
  BY <1>5 DEF Editable!Next

LEMMA SaveRefines == IInv /\ Save => Editable!Next
<1> SUFFICES ASSUME IInv, Save PROVE Editable!Next
  OBVIOUS
<1>1. /\ op.kind = "idle" /\ op'.kind = "idle"
      /\ file' = [generated |-> generated, seed |-> seed, spawn |-> spawn,
                  player |-> player, inventory |-> inventory, changes |-> changes]
      /\ UNCHANGED <<seed, generated, world, changes, checkpoint, spawn, player, inventory>>
  BY DEF Save, Free, Idle, blockVars, playVars
<1>2. file' # None
  BY <1>1, SomethingIsSaved DEF IInv, TypeOK, BlocksTypeOK, PlayTypeOK
<1>3. /\ file'.generated = generated /\ file'.seed = seed /\ file'.spawn = spawn
      /\ file'.player = player /\ file'.inventory = inventory /\ file'.changes = changes
  BY <1>1
<1>4. Shown(world) = Overlay(generated, seed, changes)
  BY <1>1 DEF IInv, OverridesExplainWorld
<1>5. Editable!Save
  BY <1>1, <1>2, <1>3, <1>4 DEF Editable!Save
<1> QED
  BY <1>5 DEF Editable!Next

\* The whole of a load is its first step: the rest replays what it promised.
LEMMA BeginLoadRefines == IInv /\ BeginLoad => Editable!Next
<1> SUFFICES ASSUME IInv, BeginLoad PROVE Editable!Next
  OBVIOUS
<1>1. /\ op.kind = "idle" /\ op'.kind = "replay" /\ file # None
      /\ spawn' = file.spawn /\ player' = file.player /\ inventory' = file.inventory
      /\ changes' = file.changes /\ file' = file
  BY DEF BeginLoad, Free, Idle
<1>2. /\ file.generated \in BOOLEAN /\ file.seed \in Int
      /\ file.generated => file.seed \in Seeds
      /\ file.spawn \in Int /\ file.player \in Int /\ file.inventory \in Inventory
      /\ IsOverrides(file.changes)
  BY <1>1 DEF IInv, TypeOK, FileTypeOK
<1>3. seed' = file.seed /\ generated' = file.generated /\ checkpoint' = None
  <2>1. CASE file.generated
    BY <2>1, <1>2 DEF BeginLoad, ResetBlocks
  <2>2. CASE ~ file.generated
    BY <2>2, <1>2 DEF BeginLoad
  <2> QED
    BY <2>1, <2>2
<1> DEFINE image == [blocks |-> Overlay(file.generated, file.seed, file.changes),
                     self   |-> Self(file.spawn, file.player, file.inventory)]
<1>4. image # None
  BY <1>2, SomethingIsSaved
<1>5. /\ Overlay(generated', seed', changes') = image.blocks
      /\ Self(spawn', player', inventory') = image.self
  BY <1>1, <1>3
<1>6. Editable!Load
  BY <1>1, <1>3, <1>4, <1>5 DEF Editable!Load
<1> QED
  BY <1>6 DEF Editable!Next

LEMMA EndLoadRefines == IInv /\ EndLoad => UNCHANGED Editable!vars
<1> SUFFICES ASSUME IInv, EndLoad PROVE UNCHANGED Editable!vars
  OBVIOUS
<1>1. /\ op.kind = "replay" /\ op.left = {} /\ op'.kind = "idle"
      /\ UNCHANGED <<seed, generated, world, changes, checkpoint, spawn, player, inventory, file>>
  BY DEF EndLoad, Idle
<1>2. Shown(world) = Overlay(generated, seed, changes)
  BY <1>1 DEF IInv, OverridesExplainWorld, Overlay
<1> QED
  BY <1>1, <1>2 DEF Editable!vars

LEMMA PlayRefines == IInv /\ PlayNext => Editable!Next
<1> SUFFICES ASSUME IInv, PlayNext PROVE Editable!Next
  OBVIOUS
<1>1. /\ op.kind = "idle" /\ op'.kind = "idle"
      /\ UNCHANGED <<world, checkpoint, spawn, file>>
  BY DEF PlayNext, MovePlayer, SelectHotbarSlot, SetHotbarBlock, SetCamera, SetWorldImmutable,
         AddBlockHit, PollBlockHits, PostChat, blockVars, Free, Idle
<1>2. Self(spawn', player', inventory').spawn = Self(spawn, player, inventory).spawn
  BY <1>1 DEF Self
<1>3. Editable!Play
  BY <1>1, <1>2 DEF Editable!Play
<1> QED
  BY <1>3 DEF Editable!Next

LEMMA NextRefines == IInv /\ [Next]_vars => [Editable!Next]_(Editable!vars)
<1> SUFFICES ASSUME IInv, [Next]_vars PROVE Editable!Next \/ UNCHANGED Editable!vars
  OBVIOUS
<1>1. ASSUME NEW p \in Cell, NEW block \in Blocks, Free, SetBlock(p, block) PROVE Editable!Next
  <2>1. Editable!Edit(p, block)
    BY <1>1, WriteRefines DEF SetBlock, Free, Idle, playVars
  <2> QED
    BY <2>1 DEF Editable!Next
<1>2. CASE ApiSetBlock \/ BreakBlock
  BY <1>1, <1>2, BlocksAssumption DEF ApiSetBlock, BreakBlock
<1>3. CASE PlaceSelectedBlock
  <2>1. inventory.slots[inventory.selected] \in Blocks
    BY DEF IInv, TypeOK, PlayTypeOK, Inventory
  <2> QED
    BY <1>1, <1>3, <2>1 DEF PlaceSelectedBlock
<1>4. CASE FillCell
  <2>1. PICK p \in op.left :
           /\ WriteBlock(p, op.block)
           /\ op' = [kind |-> "fill", left |-> op.left \ {p}, block |-> op.block,
                     changed |-> op.changed \/ BlockAt(world, p) # op.block]
    BY <1>4 DEF FillCell
  <2>2. op.kind = "fill" /\ op'.kind = "fill"
        /\ UNCHANGED <<checkpoint, spawn, player, inventory, file>>
    BY <1>4, <2>1 DEF FillCell, playVars
  <2>3. p \in Cell /\ op.block \in Blocks
    BY <2>2 DEF IInv, TypeOK, OpTypeOK, Idle
  <2>4. Editable!Edit(p, op.block)
    BY <2>1, <2>2, <2>3, WriteRefines
  <2> QED
    BY <2>3, <2>4 DEF Editable!Next
<1>5. CASE BeginSetBlocks \/ EndSetBlocks \/ DeliverTick \/ ReplayChange
  <2>1. /\ op'.kind = "replay" <=> op.kind = "replay"
        /\ BeginSetBlocks \/ EndSetBlocks \/ DeliverTick => world' = world
    BY <1>5 DEF BeginSetBlocks, EndSetBlocks, DeliverTick, ReplayChange, Free, Idle, blockVars
  <2>2. UNCHANGED <<generated, seed, changes, checkpoint, spawn, player, inventory, file>>
    BY <1>5 DEF BeginSetBlocks, EndSetBlocks, DeliverTick, ReplayChange, blockVars, playVars
  <2>3. world' = world \/ op.kind = "replay"
    BY <1>5, <2>1 DEF ReplayChange
  <2> QED
    BY <2>1, <2>2, <2>3, Stutters
<1>6. CASE LifecycleNext /\ ~ReplayChange
  BY <1>6, NewWorldRefines, SaveCheckpointRefines, RestoreCheckpointRefines, SaveRefines,
     BeginLoadRefines, EndLoadRefines DEF LifecycleNext
<1>7. CASE PlayNext
  BY <1>7, PlayRefines
<1>8. CASE UNCHANGED vars
  BY <1>8, Stutters DEF vars, blockVars, playVars
<1> QED
  BY <1>2, <1>3, <1>4, <1>5, <1>6, <1>7, <1>8 DEF Next, BlockNext, LifecycleNext

\* A game state implements an editable world: ImplementsEditableWorld of the
\* runs.  save keeps all the blocks though it writes a seed and the overrides,
\* load brings exactly them back in whatever order it replays them, and
\* restore_checkpoint returns to the marked ones; for every terrain, size of
\* the world, set of blocks and bound.
THEOREM StateIsEditable == Spec => ImplementsEditableWorld
<1>1. Init => Editable!Init
  BY InitRefines
<1>2. IInv /\ [Next]_vars => [Editable!Next]_(Editable!vars)
  BY NextRefines
<1> QED
  BY <1>1, <1>2, SpecIInv, PTL DEF Spec, ImplementsEditableWorld, Editable!Spec
=============================================================================
