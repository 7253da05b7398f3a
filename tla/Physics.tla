------------------------------ MODULE Physics -------------------------------
(***************************************************************************)
(* Physics::move and tick_player (game/Physics.cpp): a box, the player's,  *)
(* moves among solid blocks, one axis after the other: y, x, z.  The       *)
(* client moves the player by move in every frame, GameLoop by             *)
(* tick_player; the API puts the player anywhere, inside of blocks and     *)
(* outside of the world as well, and blocks are placed and broken between  *)
(* any two moves.                                                          *)
(*                                                                         *)
(* Coordinates are whole units, Unit of them to a block; the epsilon of    *)
(* the code is less than a unit.  A box is named by its lower corner.      *)
(* Nothing in the code gives the player a horizontal velocity, so velocity *)
(* is the one along y.                                                     *)
(***************************************************************************)
EXTENDS Integers, FiniteSetsExt

CONSTANTS
    Unit,           \* units in the edge of a block
    WorldSize,      \* the blocks of the world along each axis: 256, 128, 256
    BoxSize,        \* the units of the box along each axis
    Places,         \* where the API and load put the player
    Deltas,         \* the moves of the client
    Gravity,        \* gravity_per_tick and jump_velocity, in units
    JumpVelocity,
    MaxFall,        \* the speed of a fall the drag lets a player come to
    MaxSolid        \* a bound on the number of solid blocks

Axis == {"x", "y", "z"}
Place == [x : Int, y : Int, z : Int]
BlockPos == [x : 0 .. WorldSize.x - 1, y : 0 .. WorldSize.y - 1, z : 0 .. WorldSize.z - 1]

ASSUME UnitAssumption == Unit \in Nat \ {0}
Size == [x : Nat \ {0}, y : Nat \ {0}, z : Nat \ {0}]
ASSUME WorldAssumption == WorldSize \in Size
ASSUME BoxAssumption ==
    /\ BoxSize \in Size
    /\ \A a \in Axis : BoxSize[a] <= WorldSize[a] * Unit
ASSUME MovesAssumption == Places \subseteq Place /\ Deltas \subseteq Place
ASSUME NumbersAssumption ==
    /\ Gravity \in Nat \ {0} /\ JumpVelocity \in Nat
    /\ MaxFall \in Nat /\ MaxSolid \in Nat

VARIABLES
    solid,      \* the positions of the solid blocks
    at,         \* the lower corner of the player's bounds
    velocity,   \* the player's velocity along y
    onGround

vars == <<solid, at, velocity, onGround>>

-----------------------------------------------------------------------------
(* Boxes and blocks along one axis.                                        *)

WorldEnd(a) == WorldSize[a] * Unit
BoxEnd(p, a) == p[a] + BoxSize[a]
BlockStart(b, a) == b[a] * Unit
BlockEnd(b, a) == (b[a] + 1) * Unit

\* overlaps, and what first_block and last_block select.
Meets(b, a, start, end) == end > BlockStart(b, a) /\ start < BlockEnd(b, a)

Clamp(n, low, high) == IF n < low THEN low ELSE IF n > high THEN high ELSE n

\* intersects_solid, negated.
InWorld(p) == \A a \in Axis : p[a] >= 0 /\ BoxEnd(p, a) <= WorldEnd(a)
Clear(p) == \A b \in solid : \E a \in Axis : ~Meets(b, a, p[a], BoxEnd(p, a))
Free(p) == InWorld(p) /\ Clear(p)

\* The solid blocks a box at p meets on its way along a.
InTheWay(p, a, delta) ==
    {b \in solid :
        /\ \A c \in Axis \ {a} : Meets(b, c, p[c], BoxEnd(p, c))
        /\ IF delta > 0 THEN Meets(b, a, p[a], BoxEnd(p, a) + delta)
           ELSE Meets(b, a, p[a] + delta, BoxEnd(p, a))}

\* Mutant of Clip: the box may end where a block begins to be met.
ClipLate(p, a, delta) ==
    LET bounded == Clamp(delta, -p[a], WorldEnd(a) - BoxEnd(p, a))
        way == InTheWay(p, a, bounded)
        above == {b \in way : BoxEnd(p, a) < BlockStart(b, a)}
        below == {b \in way : p[a] > BlockEnd(b, a)}
    IN  IF delta = 0 THEN 0
        ELSE IF bounded > 0 THEN Min({bounded} \cup {BlockStart(b, a) - BoxEnd(p, a) : b \in above})
        ELSE Max({bounded} \cup {BlockEnd(b, a) - p[a] : b \in below})

\* clip_x, clip_y and clip_z.  A move is first bounded by the world, which
\* brings a box from outside back in whichever way it was to move; then by
\* the blocks ahead.  A block the box is in does not count.
Clip(p, a, delta) ==
    LET bounded == Clamp(delta, -p[a], WorldEnd(a) - BoxEnd(p, a))
        way == InTheWay(p, a, bounded)
        above == {b \in way : BoxEnd(p, a) <= BlockStart(b, a)}
        below == {b \in way : p[a] >= BlockEnd(b, a)}
    IN  IF delta = 0 THEN 0
        ELSE IF bounded > 0 THEN Min({bounded} \cup {BlockStart(b, a) - BoxEnd(p, a) : b \in above})
        ELSE Max({bounded} \cup {BlockEnd(b, a) - p[a] : b \in below})

\* One axis of move.
Along(p, a, delta) == [p EXCEPT ![a] = @ + Clip(p, a, delta)]

\* x and z are brought into the world even if there is nothing to move.
Inside(p, a) == [p EXCEPT ![a] = Clamp(@, 0, WorldEnd(a) - BoxSize[a])]

AfterY(p, delta) == Along(p, "y", delta.y)
AfterX(p, delta) == Inside(Along(AfterY(p, delta), "x", delta.x), "x")

\* Mutant of Moved: the clips along the sides use the box before the move up.
MovedAtOnce(p, delta) ==
    [AfterY(p, delta) EXCEPT
        !.x = Inside(Along(p, "x", delta.x), "x").x,
        !.z = Inside(Along(p, "z", delta.z), "z").z]

\* Where move takes the player: y, then x, then z, each from where the last
\* one ended.
Moved(p, delta) ==
    Inside(Along(AfterX(p, delta), "z", delta.z), "z")

HitVertical(p, delta) == Clip(p, "y", delta.y) # delta.y

\* Mutant of GroundAfter: a player who hits the ceiling is on the ground.
GroundCeiling(p, delta, before) ==
    IF delta.y = 0 THEN before ELSE HitVertical(p, delta)

\* Mutant of GroundAfter: only a player who has come down is on the ground.
GroundOnImpact(p, delta, before) ==
    IF delta.y < 0 THEN HitVertical(p, delta) /\ Clip(p, "y", delta.y) < 0
    ELSE IF delta.y > 0 THEN FALSE
    ELSE before

\* The player's on_ground after a move; a move to the side keeps it.
GroundAfter(p, delta, before) ==
    IF delta.y < 0 THEN HitVertical(p, delta)
    ELSE IF delta.y > 0 THEN FALSE
    ELSE before

\* Mutant of Dragged: a fall has no limit.
DraggedNever(v) == {v}

\* vertical_drag takes a part of the velocity; how much is not modelled.
\* A fall faster than MaxFall is not kept: that is what the drag and the
\* gravity of a tick balance at.
Dragged(v) == IF v > 0 THEN 0 .. v ELSE Max({v, -MaxFall}) .. 0

-----------------------------------------------------------------------------
Init ==
    /\ solid \in {s \in SUBSET BlockPos : Cardinality(s) <= MaxSolid}
    /\ at \in Places
    /\ velocity = 0 /\ onGround = FALSE

\* GameState::move_player, which the client calls in every frame.
MovePlayer ==
    \E delta \in Deltas :
        /\ at' = Moved(at, delta)
        /\ onGround' = GroundAfter(at, delta, onGround)
        /\ velocity' = IF HitVertical(at, delta) THEN 0 ELSE velocity
        /\ UNCHANGED solid

\* tick_player: gravity, move, and the drag, which stops a player on the
\* ground.
Tick ==
    LET delta == [x |-> 0, y |-> velocity - Gravity, z |-> 0]
    IN  /\ at' = Moved(at, delta)
        /\ onGround' = GroundAfter(at, delta, onGround)
        /\ velocity' \in IF onGround' \/ HitVertical(at, delta) THEN {0} ELSE Dragged(delta.y)
        /\ UNCHANGED solid

\* Player::jump.
Jump ==
    /\ onGround
    /\ velocity' = JumpVelocity
    /\ onGround' = FALSE
    /\ UNCHANGED <<solid, at>>

\* GameState::set_player_position, the API's: velocity and ground are kept.
SetPlayerPosition ==
    /\ at' \in Places
    /\ UNCHANGED <<solid, velocity, onGround>>

\* Any edit of the world, by the client or by the API.
PlaceBlock ==
    /\ Cardinality(solid) < MaxSolid
    /\ \E b \in BlockPos \ solid : solid' = solid \cup {b}
    /\ UNCHANGED <<at, velocity, onGround>>

BreakBlock ==
    /\ \E b \in solid : solid' = solid \ {b}
    /\ UNCHANGED <<at, velocity, onGround>>

Play == MovePlayer \/ Tick \/ Jump
Edit == SetPlayerPosition \/ PlaceBlock \/ BreakBlock
Next == Play \/ Edit

Spec == Init /\ [][Next]_vars

-----------------------------------------------------------------------------
TypeOK ==
    /\ solid \subseteq BlockPos
    /\ Cardinality(solid) <= MaxSolid
    /\ at \in Place
    /\ velocity \in -MaxFall .. JumpVelocity
    /\ onGround \in BOOLEAN

Toward(delta) == IF delta > 0 THEN 1 ELSE -1
Shifted(p, a, n) == [p EXCEPT ![a] = @ + n]

\* The units a box can go along an axis by steps of one unit with every place
\* on the way free.
Open(p, a, delta) ==
    {n \in 0 .. Max({delta, -delta}) :
        \A k \in 1 .. n : Free(Shifted(p, a, k * Toward(delta)))}

\* From a free place a clip lets the player go as far as asked or to the
\* first obstacle: never into a block, never through one however fast the
\* player is, and never less far than the way is open.  clip_x, clip_y and
\* clip_z look at the swept blocks in one pass over their positions.  Moves of
\* up to two blocks are compared.
ClipIsFarthest ==
    Free(at) =>
        \A a \in Axis, delta \in -2 * Unit .. 2 * Unit :
            Clip(at, a, delta) = Toward(delta) * Max(Open(at, a, delta))

\* No move, along three axes at once or by gravity, takes a player from a
\* free place into a block or out of the world: corners are not cut.
MovesStayFree ==
    [][MovePlayer \/ Tick => (Free(at) => Free(at'))]_vars

\* A player in a free place whom a tick leaves on the ground stands on it: on
\* a block or on the bottom of the world, whatever was placed or broken since
\* the tick before.  A jump into a ceiling is no landing.
GroundHolds ==
    [][Tick /\ Free(at) /\ onGround' => ~Free(Shifted(at', "y", -1))]_vars
=============================================================================
