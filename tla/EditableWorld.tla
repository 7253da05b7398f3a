--------------------------- MODULE EditableWorld ----------------------------
(***************************************************************************)
(* What a game state promises the API and the client: a world of blocks    *)
(* that is edited cell by cell, a player in it, a mark to return to, and a *)
(* file that brings back what was there when it was written.  There are no *)
(* chunks, no record of what was edited and no replay.                     *)
(***************************************************************************)
EXTENDS Integers

CONSTANTS Cell, Seeds, Terrain, Blocks, None

VARIABLES blocks, self, marked, saved

vars == <<blocks, self, marked, saved>>

Air == [id |-> 0, data |-> 0]
Stored(block) == [id |-> block.id % 256, data |-> block.data % 16]
Seen(block) == IF Stored(block).id = 0 THEN Air ELSE Stored(block)

Init ==
    /\ blocks = [p \in Cell |-> Air]
    /\ self.player = 0 /\ self.spawn = 64
    /\ marked = None /\ saved = None

Edit(p, block) ==
    /\ blocks' = [blocks EXCEPT ![p] = Seen(block)]
    /\ UNCHANGED <<self, marked, saved>>

\* A whole region at once, as those see it who wait for the lock meanwhile:
\* a sequence of edits, so no step of its own in Next.
Fill(region, block) ==
    /\ blocks' = [p \in Cell |-> IF p \in region THEN Seen(block) ELSE blocks[p]]
    /\ UNCHANGED <<self, marked, saved>>

\* The player moves or picks something: neither the blocks nor the spawn change.
Play ==
    /\ self'.spawn = self.spawn
    /\ UNCHANGED <<blocks, marked, saved>>

\* A fresh world, with the player at its spawn.  The mark is of no use in it.
New(s) ==
    /\ blocks' = Terrain[s]
    /\ self'.player = self'.spawn
    /\ marked' = None
    /\ UNCHANGED saved

Mark ==
    /\ marked' = [blocks |-> blocks, player |-> self.player]
    /\ UNCHANGED <<blocks, self, saved>>

Return ==
    /\ marked # None
    /\ blocks' = marked.blocks
    /\ self' = [self EXCEPT !.player = marked.player]
    /\ UNCHANGED <<marked, saved>>

Save ==
    /\ saved' = [blocks |-> blocks, self |-> self]
    /\ UNCHANGED <<blocks, self, marked>>

Load ==
    /\ saved # None
    /\ blocks' = saved.blocks
    /\ self' = saved.self
    /\ marked' = None
    /\ UNCHANGED saved

Next ==
    \/ \E p \in Cell, block \in Blocks : Edit(p, block)
    \/ \E s \in Seeds : New(s)
    \/ Play \/ Mark \/ Return \/ Save \/ Load

Spec == Init /\ [][Next]_vars
=============================================================================
