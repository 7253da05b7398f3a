----------------------------- MODULE BlockWorld -----------------------------
(***************************************************************************)
(* World (world/World.cpp) as a state machine: a store of chunks that are  *)
(* allocated by the first block written to them and dropped with their     *)
(* last one.  It implements FlatWorld, and the caches of every chunk stay  *)
(* exact.                                                                  *)
(***************************************************************************)
EXTENDS Chunks

CONSTANTS
    WriteLevels,    \* the y coordinates callers write to, not all of them valid
    Written         \* the raw blocks callers write

ASSUME WriteLevelsAssumption == WriteLevels \subseteq Int
ASSUME WrittenAssumption == Written \subseteq RawBlock

VARIABLE chunks

WorldInit == chunks = NoChunks

\* World::set_block.
WorldSetBlock(p, block) == chunks' = WorldWith(chunks, p, block)

\* World::clear.
WorldClear == chunks' = NoChunks

WorldNext ==
    \/ WorldClear
    \/ \E c \in ChunkPos, column \in Column, y \in WriteLevels, block \in Written :
          WorldSetBlock([chunk |-> c, column |-> column, y |-> y], block)

WorldSpec == WorldInit /\ [][WorldNext]_chunks

-----------------------------------------------------------------------------
\* A chunk map holds well-formed chunks: ids are bytes, data are nibbles and
\* heights lie between 0 and the height of a chunk.
WorldTypeOK == IsWorld(chunks)

\* The height of every column is one more than its highest block that is not
\* air, however blocks were stacked, replaced and removed (Chunk::set_block
\* raises the height or scans down, and World::height_at, the spawn point and
\* the API read it without looking at the blocks).
HeightsExact ==
    \A c \in DOMAIN chunks : \A column \in Column :
        IsTop(chunks[c].ids, column, chunks[c].height[column])

\* A chunk counts its blocks that are not air correctly and an allocated
\* chunk has at least one: the count decides whether World::set_block throws
\* the whole chunk away.
CountsExact ==
    \A c \in DOMAIN chunks :
        /\ chunks[c].nonAir = Cardinality(SolidIn(chunks[c].ids))
        /\ chunks[c].nonAir # 0

\* The blocks a reader of the store sees.
WorldView == [p \in Cell |-> Visible(BlockAt(chunks, p))]

Flat == INSTANCE FlatWorld WITH blocks <- WorldView, Blocks <- Written

\* Seen through block_at, the chunked store is one flat array of blocks: a
\* write reaches its own cell and no other one, in the same chunk or another,
\* whether the write allocates a chunk, drops one or is ignored.
ImplementsFlatWorld == Flat!Spec
=============================================================================
