------------------------------- MODULE Chunks -------------------------------
(***************************************************************************)
(* The block storage of world/Chunk.cpp and world/World.cpp as operators   *)
(* on values: a world is a function from the positions of the chunks that  *)
(* are allocated to chunks, and a chunk holds, besides its block ids and   *)
(* metadata nibbles, two caches the code maintains incrementally: the      *)
(* height of every column and the number of blocks that are not air.       *)
(*                                                                         *)
(* A block position is [chunk, column, y].  That world coordinates map one *)
(* to one to a chunk and a column of it is the business of module          *)
(* Coordinates.                                                            *)
(***************************************************************************)
EXTENDS Integers, FiniteSets

CONSTANTS
    ChunkPos,   \* positions of chunks
    Column,     \* the columns of a chunk: 16 x 16 in the code
    Height      \* Chunk::height: 128 in the code

\* Heights are stored in a byte (Chunk.hpp, height_map_).
ASSUME HeightAssumption == Height \in 1..255
ASSUME ColumnAssumption == IsFiniteSet(Column)

Level == 0..(Height - 1)
Local == Column \X Level

\* Every position of the horizontal plane and, vertically, of Int.
Position == [chunk : ChunkPos, column : Column, y : Int]

\* The positions at which a block can be stored.
Cell == [chunk : ChunkPos, column : Column, y : Level]

\* What a caller hands over is an int for each field; what is stored is a
\* byte and a nibble.
RawBlock == [id : Int, data : Int]
Block == [id : 0..255, data : 0..15]
Air == [id |-> 0, data |-> 0]

\* Mutant of Stored: set_block keeps the caller's ints.
KeepInts(block) == block

Stored(block) == [id |-> block.id % 256, data |-> block.data % 16]

Chunk == [ids : [Local -> 0..255], data : [Local -> 0..15],
          height : [Column -> 0..Height], nonAir : Int]

NewChunk == [ids    |-> [l \in Local |-> 0],
             data   |-> [l \in Local |-> 0],
             height |-> [c \in Column |-> 0],
             nonAir |-> 0]

\* Mutant of ScanDown: the block below the removed one is taken for the top.
OneDown(ids, column, y) == y

\* recompute_height: the height of a column whose blocks from y upwards are
\* known to be air, found by scanning down from y - 1.
ScanDown(ids, column, y) ==
    CHOOSE h \in 0..y :
        /\ h # 0 => ids[<<column, h - 1>>] # 0
        /\ \A k \in h..(y - 1) : ids[<<column, k>>] = 0

\* The column's height after the block at y has become new: raised by a
\* block above the old top, recomputed when the top itself is removed.
HeightAfter(chunk, ids, column, y, old, new) ==
    LET h == chunk.height[column]
    IN  IF new # 0
        THEN IF y + 1 > h THEN y + 1 ELSE h
        ELSE IF old # 0 /\ h = y + 1 THEN ScanDown(ids, column, y) ELSE h

\* Mutant of NonAirAfter: a block replaced by another one is counted again.
CountWrites(chunk, old, new) ==
    CASE new # 0             -> chunk.nonAir + 1
      [] old # 0 /\ new = 0 -> chunk.nonAir - 1
      [] OTHER              -> chunk.nonAir

NonAirAfter(chunk, old, new) ==
    CASE old = 0 /\ new # 0 -> chunk.nonAir + 1
      [] old # 0 /\ new = 0 -> chunk.nonAir - 1
      [] OTHER              -> chunk.nonAir

\* Chunk::set_block.
ChunkWith(chunk, column, y, block) ==
    LET l   == <<column, y>>
        old == chunk.ids[l]
        new == Stored(block).id
        ids == [chunk.ids EXCEPT ![l] = new]
    IN  [ids    |-> ids,
         data   |-> [chunk.data EXCEPT ![l] = Stored(block).data],
         height |-> [chunk.height EXCEPT ![column] =
                        HeightAfter(chunk, ids, column, y, old, new)],
         nonAir |-> NonAirAfter(chunk, old, new)]

-----------------------------------------------------------------------------
\* chunks_: a function from allocated positions to chunks.
IsWorld(world) ==
    /\ DOMAIN world \subseteq ChunkPos
    /\ world \in [DOMAIN world -> Chunk]

NoChunks == [c \in {} |-> NewChunk]

\* World::block_at.
BlockAt(world, p) ==
    IF p.y \in Level /\ p.chunk \in DOMAIN world
    THEN [id   |-> world[p.chunk].ids[<<p.column, p.y>>],
          data |-> world[p.chunk].data[<<p.column, p.y>>]]
    ELSE Air

\* What a reader may rely on: a block that is air has no metadata.
Visible(block) == IF block.id = 0 THEN Air ELSE block

\* The chunk a write goes to: the allocated one, or a fresh one.
ChunkFor(world, c) == IF c \in DOMAIN world THEN world[c] ELSE NewChunk

\* Mutant of WorldWith: writing air drops the chunk it is written to.
DropOnAir(world, p, block) ==
    IF p.y \notin Level \/ (p.chunk \notin DOMAIN world /\ block.id = 0)
    THEN world
    ELSE [c \in (IF Stored(block).id = 0 THEN DOMAIN world \ {p.chunk}
                 ELSE DOMAIN world \cup {p.chunk}) |->
             IF c = p.chunk
             THEN ChunkWith(ChunkFor(world, c), p.column, p.y, block)
             ELSE world[c]]

\* World::set_block: air is not written to a chunk that is not there, and a
\* chunk that has become all air is dropped.
WorldWith(world, p, block) ==
    IF p.y \notin Level \/ (p.chunk \notin DOMAIN world /\ block.id = 0)
    THEN world
    ELSE LET chunk == ChunkWith(ChunkFor(world, p.chunk), p.column, p.y, block)
         IN  IF chunk.nonAir = 0
             THEN [c \in DOMAIN world \ {p.chunk} |-> world[c]]
             ELSE [c \in DOMAIN world \cup {p.chunk} |->
                      IF c = p.chunk THEN chunk ELSE world[c]]

\* World::height_at.
ColumnHeight(world, c, column) ==
    IF c \in DOMAIN world THEN world[c].height[column] ELSE 0

-----------------------------------------------------------------------------
\* What the caches stand for.

\* h is one more than the level of the highest block of the column that is not air.
IsTop(ids, column, h) ==
    /\ h # 0 => ids[<<column, h - 1>>] # 0
    /\ \A y \in Level : y >= h => ids[<<column, y>>] = 0

SolidIn(ids) == {l \in Local : ids[l] # 0}

ChunkExact(chunk) ==
    /\ \A column \in Column : IsTop(chunk.ids, column, chunk.height[column])
    /\ chunk.nonAir = Cardinality(SolidIn(chunk.ids))

WorldExact(world) ==
    \A c \in DOMAIN world : ChunkExact(world[c]) /\ world[c].nonAir # 0
=============================================================================
