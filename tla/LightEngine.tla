---------------------------- MODULE LightEngine -----------------------------
(***************************************************************************)
(* LightEngine::rebuild (world/LightEngine.cpp): every chunk is swept      *)
(* once, in the order of an unordered_map, which clears its light, lets    *)
(* the sky in from above and sows the light of its sources; then light     *)
(* spreads from cell to cell until no cell can be made brighter.  A        *)
(* rebuild runs to its end before the next block changes.                  *)
(*                                                                         *)
(* The code's queue is a set here: cells are taken from it in any order,   *)
(* which includes first in, first out, and a cell that is in the queue     *)
(* twice is taken the second time with nothing left to brighten.           *)
(***************************************************************************)
EXTENDS Chunks, FiniteSetsExt

CONSTANTS
    Beside,     \* Beside[p]: the cells next to p, up to six
    MaxLight,   \* 15 in the code, both the brightest light and full opacity
    Opacity,    \* BlockBehavior::opacity and ::emission of every block id,
    Emission,   \* between 0 and MaxLight
    Blocks      \* the raw blocks callers write

Light == 0..MaxLight

ASSUME LightAssumption == MaxLight \in Nat
ASSUME BesideAssumption == Beside \in [Cell -> SUBSET Cell]
ASSUME BehaviorAssumption ==
    Opacity \in [0..255 -> Light] /\ Emission \in [0..255 -> Light]
ASSUME BlocksAssumption == Blocks \subseteq RawBlock

VARIABLES
    world,      \* the blocks
    light,      \* block light, 0 where there is no chunk
    sky,        \* sky light, likewise
    unswept,    \* the chunks the sweep has not come to
    queue       \* the cells light is to spread from

vars == <<world, light, sky, unswept, queue>>

Dark == [p \in Cell |-> 0]
Lit == unswept = {} /\ queue = {}

\* has_chunk_at.
HasChunk(p) == p.chunk \in DOMAIN world

OpacityAt(p) == Opacity[BlockAt(world, p).id]
EmissionAt(p) == Emission[BlockAt(world, p).id]

Init ==
    /\ world = NoChunks
    /\ light = Dark /\ sky = Dark
    /\ unswept = {} /\ queue = {}

\* A block is written, and rebuild begins.  The light of a chunk lives and
\* dies with the chunk.
ChangeBlock ==
    /\ Lit
    /\ \E p \in Cell, block \in Blocks : world' = WorldWith(world, p, block)
    /\ light' = [p \in Cell |-> IF p.chunk \in DOMAIN world' THEN light[p] ELSE 0]
    /\ sky' = [p \in Cell |-> IF p.chunk \in DOMAIN world' THEN sky[p] ELSE 0]
    /\ unswept' = DOMAIN world'
    /\ UNCHANGED queue

Dimmed(brightness, opacity) == IF brightness > opacity THEN brightness - opacity ELSE 0

\* Mutant of SkyLight: a column is dark below the first block that is opaque at all.
SkyOrNothing(c, column) ==
    LET shine[y \in 0..Height] ==
            IF y = Height THEN MaxLight
            ELSE IF OpacityAt([chunk |-> c, column |-> column, y |-> y]) = 0 THEN shine[y + 1]
            ELSE 0
    IN  shine

\* The sky light of a column at every level, from the top down: y = Height
\* stands for the sky itself.
SkyLight(c, column) ==
    LET shine[y \in 0..Height] ==
            IF y = Height THEN MaxLight
            ELSE Dimmed(shine[y + 1], OpacityAt([chunk |-> c, column |-> column, y |-> y]))
    IN  shine

\* Mutant of Sweep: the light that is there is not cleared.
SweepOver ==
    \E c \in unswept :
        /\ light' = [p \in Cell |-> IF p.chunk = c /\ EmissionAt(p) > 0
                                    THEN EmissionAt(p) ELSE light[p]]
        /\ sky' = [p \in Cell |-> IF p.chunk = c THEN SkyLight(c, p.column)[p.y] ELSE sky[p]]
        /\ queue' = queue \cup {p \in Cell : p.chunk = c /\ EmissionAt(p) > 0}
        /\ unswept' = unswept \ {c}
        /\ UNCHANGED world

Sweep ==
    \E c \in unswept :
        /\ light' = [p \in Cell |-> IF p.chunk = c THEN EmissionAt(p) ELSE light[p]]
        /\ sky' = [p \in Cell |-> IF p.chunk = c THEN SkyLight(c, p.column)[p.y] ELSE sky[p]]
        /\ queue' = queue \cup {p \in Cell : p.chunk = c /\ EmissionAt(p) > 0}
        /\ unswept' = unswept \ {c}
        /\ UNCHANGED world

\* Light loses at least one level with every cell it enters.
Attenuation(p) == IF OpacityAt(p) > 1 THEN OpacityAt(p) ELSE 1

\* Mutant of Enters: light enters where there is no chunk.
EntersAnywhere(brightness, p) ==
    OpacityAt(p) < MaxLight /\ brightness > Attenuation(p)

Enters(brightness, p) ==
    HasChunk(p) /\ OpacityAt(p) < MaxLight /\ brightness > Attenuation(p)

\* The neighbours of p that p makes brighter.
Brightened(p) ==
    {q \in Beside[p] : /\ light[p] > 1
                       /\ Enters(light[p], q)
                       /\ light[p] - Attenuation(q) > light[q]}

\* Mutant of Spread: every neighbour is queued, made brighter or not.
SpreadOn ==
    /\ unswept = {}
    /\ \E p \in queue :
          /\ light' = [q \in Cell |-> IF q \in Brightened(p) THEN light[p] - Attenuation(q)
                                      ELSE light[q]]
          /\ queue' = (queue \ {p}) \cup {q \in Beside[p] : Enters(light[p], q)}
    /\ UNCHANGED <<world, sky, unswept>>

Spread ==
    /\ unswept = {}
    /\ \E p \in queue :
          /\ light' = [q \in Cell |-> IF q \in Brightened(p) THEN light[p] - Attenuation(q)
                                      ELSE light[q]]
          /\ queue' = (queue \ {p}) \cup Brightened(p)
    /\ UNCHANGED <<world, sky, unswept>>

Next == ChangeBlock \/ Sweep \/ Spread

\* rebuild is a loop of one thread: it goes on until it is done.
Spec == Init /\ [][Next]_vars /\ WF_vars(Sweep) /\ WF_vars(Spread)

-----------------------------------------------------------------------------
\* Block lights are levels, and only cells of chunks that exist have any
\* light or are waiting to be swept or spread from.
TypeOK ==
    /\ IsWorld(world)
    /\ light \in [Cell -> Light] /\ DOMAIN sky = Cell
    /\ unswept \subseteq DOMAIN world
    /\ queue \subseteq {p \in Cell : HasChunk(p)}
    /\ \A p \in Cell : ~HasChunk(p) => light[p] = 0 /\ sky[p] = 0

\* A distribution of light that explains itself: every source has its light,
\* and no cell could be made brighter by a neighbour.
Sources(f) == \A p \in Cell : HasChunk(p) => f[p] >= EmissionAt(p)
Settled(f) ==
    \A p \in Cell : HasChunk(p) => \A q \in Beside[p] :
        Enters(f[p], q) => f[q] >= f[p] - Attenuation(q)

\* When rebuild is done, the light is the least distribution that has all
\* sources and is settled, whatever order chunks and cells were taken in and
\* whatever light was there before: no cell is too dark, and none keeps the
\* light of a source that is gone.
LightIsLeast ==
    Lit => /\ Sources(light) /\ Settled(light)
           /\ \A f \in [Cell -> Light] :
                 Sources(f) /\ Settled(f) => \A p \in Cell : light[p] <= f[p]

\* When rebuild is done, the sky light of a cell is what the blocks from it
\* upwards let through: full light less all their opacities, and never less
\* than nothing.
SkyIsWhatComesThrough ==
    Lit => \A p \in Cell : HasChunk(p) =>
        LET above == {q \in Cell : q.chunk = p.chunk /\ q.column = p.column /\ q.y >= p.y}
        IN  sky[p] = Dimmed(MaxLight, MapThenSumSet(OpacityAt, above))

\* rebuild comes to an end.
RebuildEnds == []<>Lit
=============================================================================
