----------------------------- MODULE FlatWorld ------------------------------
(***************************************************************************)
(* What the block store promises to its callers: one block per cell, a     *)
(* write changes that cell and no other, and a block that is air carries   *)
(* no metadata anyone may rely on (it is shown as plain air here).  There  *)
(* are no chunks, and nothing is allocated or dropped.                     *)
(***************************************************************************)
EXTENDS Integers

CONSTANTS ChunkPos, Column, Height, WriteLevels, Blocks

VARIABLE blocks

Level == 0..(Height - 1)
Cell == [chunk : ChunkPos, column : Column, y : Level]
Air == [id |-> 0, data |-> 0]

\* What reading the cell back after the write shows.
Shown(id, data) == IF id = 0 THEN Air ELSE [id |-> id, data |-> data]

Init == blocks = [p \in Cell |-> Air]

Write(p, block) ==
    blocks' = [q \in Cell |-> IF q = p THEN Shown(block.id % 256, block.data % 16)
                                       ELSE blocks[q]]

Clear == blocks' = [p \in Cell |-> Air]

Next ==
    \/ Clear
    \/ \E p \in [chunk : ChunkPos, column : Column, y : WriteLevels], block \in Blocks :
          Write(p, block)

Spec == Init /\ [][Next]_blocks
=============================================================================
