--------------------------- MODULE GameLoopProofs ---------------------------
(***************************************************************************)
(* Physics: a clip goes exactly as far as the way is open; a move never    *)
(* takes the player from a free place into a block or out of the world; a  *)
(* tick that leaves the player on the ground leaves the player on          *)
(* something.  For every size of the world, the box and the moves, and for *)
(* blocks however many of them there are.                                  *)
(*                                                                         *)
(* GameLoop: the ticks a call of advance runs are those that its time is   *)
(* worth, for every length of a tick, every cap on catching up and every   *)
(* time.                                                                   *)
(***************************************************************************)
EXTENDS GameLoop, FiniteSetTheorems, WellFoundedInduction, TLAPS

-----------------------------------------------------------------------------
(* Physics.                                                                *)

\* A set of naturals that is not empty has a minimum.
LEMMA MinOfNaturals ==
    ASSUME NEW T, T \subseteq Nat, T # {}
    PROVE  Min(T) \in T /\ \A n \in T : Min(T) <= n
<1>1. PICK m \in T : \A n \in T : ~ (<<n, m>> \in OpToRel(<, Nat))
  BY NatLessThanWellFounded, WFMin
<1>2. ASSUME NEW n \in T PROVE m <= n
  <2>1. m \in Nat /\ n \in Nat
    OBVIOUS
  <2>2. ~ (n < m)
    BY <1>1, <2>1 DEF OpToRel
  <2>3. QED
    BY <2>1, <2>2
<1>3. QED
  BY <1>2 DEF Min

\* A set of integers without positive members that is not empty has a maximum.
LEMMA MaxOfNegatives ==
    ASSUME NEW T, T # {}, \A i \in T : i \in Int /\ i <= 0
    PROVE  Max(T) \in T /\ \A i \in T : Max(T) >= i
<1> DEFINE N == {n \in Nat : -n \in T}
<1>1. PICK i \in T : TRUE
  OBVIOUS
<1>2. -i \in N
  <2>1. i \in Int /\ i <= 0
    OBVIOUS
  <2>2. -i \in Nat /\ -(-i) = i
    BY <2>1
  <2>3. QED
    BY <2>2
<1>3. Min(N) \in N /\ \A n \in N : Min(N) <= n
  BY <1>2, MinOfNaturals
<1> HIDE DEF N
<1>4. -Min(N) \in T
  BY <1>3 DEF N
<1>5. ASSUME NEW j \in T PROVE -Min(N) >= j
  <2>1. j \in Int /\ j <= 0
    OBVIOUS
  <2>2. -j \in Nat /\ -(-j) = j
    BY <2>1
  <2>3. -j \in N
    BY <2>2 DEF N
  <2>4. Min(N) <= -j /\ Min(N) \in Nat
    BY <1>3, <2>3 DEF N
  <2>5. QED
    BY <2>1, <2>4
<1>6. QED
  BY <1>4, <1>5 DEF Max

-----------------------------------------------------------------------------
(* Places.                                                                 *)

LEMMA PlaceType ==
    ASSUME NEW p \in Place, NEW a \in Axis
    PROVE  p[a] \in Int
BY DEF Place, Axis

LEMMA PlaceMoved ==
    ASSUME NEW p \in Place, NEW a \in Axis, NEW n \in Int
    PROVE  /\ [p EXCEPT ![a] = n] \in Place
           /\ [p EXCEPT ![a] = n][a] = n
           /\ \A c \in Axis \ {a} : [p EXCEPT ![a] = n][c] = p[c]
BY DEF Place, Axis

\* The ends of the world, of boxes and of blocks are integers.
LEMMA EndsType ==
    ASSUME NEW a \in Axis
    PROVE  /\ WorldEnd(a) \in Nat
           /\ BoxSize[a] \in Nat \ {0}
           /\ BoxSize[a] <= WorldEnd(a)
           /\ \A p \in Place : BoxEnd(p, a) \in Int /\ BoxEnd(p, a) = p[a] + BoxSize[a]
           /\ \A b \in BlockPos :
                  /\ BlockStart(b, a) \in Int /\ BlockEnd(b, a) \in Int
                  /\ BlockStart(b, a) < BlockEnd(b, a)
<1>1. WorldSize[a] \in Nat \ {0} /\ BoxSize[a] \in Nat \ {0}
  BY WorldAssumption, BoxAssumption DEF Size, Axis
<1>2. WorldEnd(a) \in Nat
  BY <1>1, UnitAssumption DEF WorldEnd
<1>3. BoxSize[a] <= WorldEnd(a)
  BY BoxAssumption DEF WorldEnd
<1>4. \A p \in Place : BoxEnd(p, a) \in Int
  BY <1>1, PlaceType DEF BoxEnd
<1>5. ASSUME NEW b \in BlockPos
      PROVE  /\ BlockStart(b, a) \in Int /\ BlockEnd(b, a) \in Int
             /\ BlockStart(b, a) < BlockEnd(b, a)
  <2>1. b[a] \in Int
    BY WorldAssumption DEF BlockPos, Size, Axis
  <2>2. BlockStart(b, a) \in Int /\ BlockEnd(b, a) = BlockStart(b, a) + Unit
    BY <2>1, UnitAssumption DEF BlockStart, BlockEnd
  <2>3. QED
    BY <2>2, UnitAssumption
<1>6. QED
  BY <1>1, <1>2, <1>3, <1>4, <1>5 DEF BoxEnd

\* The clip of a box within the world: it goes no farther than the bounded
\* move, in the same direction, and stops before each block ahead.
LEMMA ClipWithin ==
    ASSUME NEW p \in Place, NEW a \in Axis, NEW delta \in Int,
           solid \subseteq BlockPos, InWorld(p)
    PROVE  LET bounded == Clamp(delta, -p[a], WorldEnd(a) - BoxEnd(p, a))
               way == InTheWay(p, a, bounded)
               k == Clip(p, a, delta)
           IN  /\ k \in Int
               /\ -p[a] <= k /\ k <= WorldEnd(a) - BoxEnd(p, a)
               /\ \/ 0 <= k /\ k <= bounded
                  \/ bounded <= k /\ k <= 0
               /\ \A b \in way : BoxEnd(p, a) <= BlockStart(b, a) /\ 0 < k
                      => k <= BlockStart(b, a) - BoxEnd(p, a)
               /\ \A b \in way : p[a] >= BlockEnd(b, a) /\ k < 0
                      => k >= BlockEnd(b, a) - p[a]
<1> DEFINE bounded == Clamp(delta, -p[a], WorldEnd(a) - BoxEnd(p, a))
           way == InTheWay(p, a, bounded)
           above == {b \in way : BoxEnd(p, a) <= BlockStart(b, a)}
           below == {b \in way : p[a] >= BlockEnd(b, a)}
           ups == {bounded} \cup {BlockStart(b, a) - BoxEnd(p, a) : b \in above}
           downs == {bounded} \cup {BlockEnd(b, a) - p[a] : b \in below}
           k == Clip(p, a, delta)
<1>1. /\ p[a] \in Int /\ BoxEnd(p, a) \in Int /\ WorldEnd(a) \in Int
      /\ 0 <= p[a] /\ BoxEnd(p, a) <= WorldEnd(a)
  BY PlaceType, EndsType DEF InWorld
<1>2. /\ bounded \in Int
      /\ -p[a] <= bounded /\ bounded <= WorldEnd(a) - BoxEnd(p, a)
  BY <1>1 DEF Clamp
<1>3. way \subseteq solid
  BY DEF InTheWay
<1>4. \A b \in way : BlockStart(b, a) \in Int /\ BlockEnd(b, a) \in Int
  BY <1>3, EndsType
<1>5. k = IF delta = 0 THEN 0 ELSE IF bounded > 0 THEN Min(ups) ELSE Max(downs)
  BY DEF Clip
<1> HIDE DEF bounded, way, k
<1>6. CASE delta = 0
  <2>1. k = 0
    BY <1>5, <1>6
  <2>2. QED
    BY <2>1, <1>1, <1>2, <1>4 DEF bounded, way, k
<1>7. CASE delta # 0 /\ bounded > 0
  <2>1. ASSUME NEW n \in ups PROVE n \in Nat
    <3>1. CASE n = bounded
      BY <3>1, <1>2, <1>7
    <3>2. CASE n # bounded
      <4>1. PICK b \in above : n = BlockStart(b, a) - BoxEnd(p, a)
        BY <3>2
      <4>2. QED
        BY <4>1, <1>1, <1>4
    <3>3. QED
      BY <3>1, <3>2
  <2>2. Min(ups) \in ups /\ \A n \in ups : Min(ups) <= n
    BY <2>1, MinOfNaturals
  <2>3. k = Min(ups)
    BY <1>5, <1>7
  <2>4. k \in Nat /\ k <= bounded
    BY <2>1, <2>2, <2>3
  <2>5. \A b \in above : k <= BlockStart(b, a) - BoxEnd(p, a)
    BY <2>2, <2>3
  <2>6. QED
    BY <2>4, <2>5, <1>1, <1>2 DEF bounded, way, k
<1>8. CASE delta # 0 /\ ~ (bounded > 0)
  <2>1. ASSUME NEW n \in downs PROVE n \in Int /\ n <= 0
    <3>1. CASE n = bounded
      BY <3>1, <1>2, <1>8
    <3>2. CASE n # bounded
      <4>1. PICK b \in below : n = BlockEnd(b, a) - p[a]
        BY <3>2
      <4>2. QED
        BY <4>1, <1>1, <1>4
    <3>3. QED
      BY <3>1, <3>2
  <2>2. Max(downs) \in downs /\ \A n \in downs : Max(downs) >= n
    BY <2>1, MaxOfNegatives
  <2>3. k = Max(downs)
    BY <1>5, <1>8
  <2>4. k \in Int /\ k <= 0 /\ bounded <= k
    BY <2>1, <2>2, <2>3, <1>2
  <2>5. \A b \in below : k >= BlockEnd(b, a) - p[a]
    BY <2>2, <2>3
  <2>6. QED
    BY <2>4, <2>5, <1>1, <1>2 DEF bounded, way, k
<1>9. QED
  BY <1>6, <1>7, <1>8

\* Along one axis every place up to the clip is free.
LEMMA WayStaysFree ==
    ASSUME NEW p \in Place, NEW a \in Axis, NEW delta \in Int,
           NEW n \in Int, solid \subseteq BlockPos, Free(p),
           \/ 0 <= n /\ n <= Clip(p, a, delta)
           \/ Clip(p, a, delta) <= n /\ n <= 0
    PROVE  Shifted(p, a, n) \in Place /\ Free(Shifted(p, a, n))
<1> DEFINE bounded == Clamp(delta, -p[a], WorldEnd(a) - BoxEnd(p, a))
           way == InTheWay(p, a, bounded)
           k == Clip(p, a, delta)
           q == Shifted(p, a, n)
<1>1. InWorld(p) /\ Clear(p)
  BY DEF Free
<1>2. /\ p[a] \in Int /\ BoxEnd(p, a) \in Int /\ WorldEnd(a) \in Int
      /\ bounded \in Int /\ BoxSize[a] \in Nat \ {0} /\ BoxEnd(p, a) = p[a] + BoxSize[a]
      /\ 0 <= p[a] /\ BoxEnd(p, a) <= WorldEnd(a)
  BY <1>1, PlaceType, EndsType DEF Clamp, InWorld
<1>3. /\ k \in Int
      /\ -p[a] <= k /\ k <= WorldEnd(a) - BoxEnd(p, a)
      /\ \/ 0 <= k /\ k <= bounded
         \/ bounded <= k /\ k <= 0
      /\ \A b \in way : BoxEnd(p, a) <= BlockStart(b, a) /\ 0 < k
             => k <= BlockStart(b, a) - BoxEnd(p, a)
      /\ \A b \in way : p[a] >= BlockEnd(b, a) /\ k < 0
             => k >= BlockEnd(b, a) - p[a]
  BY <1>1, ClipWithin
<1>4. \A b \in way : BlockStart(b, a) \in Int /\ BlockEnd(b, a) \in Int
  BY EndsType DEF InTheWay
<1> HIDE DEF bounded, way
<1>5. /\ -p[a] <= n /\ n <= WorldEnd(a) - BoxEnd(p, a)
      /\ \/ 0 <= n /\ n <= bounded
         \/ bounded <= n /\ n <= 0
      /\ \A b \in way : BoxEnd(p, a) <= BlockStart(b, a) /\ 0 < n
             => n <= BlockStart(b, a) - BoxEnd(p, a)
      /\ \A b \in way : p[a] >= BlockEnd(b, a) /\ n < 0
             => n >= BlockEnd(b, a) - p[a]
  <2>1. 0 < n => 0 < k /\ n <= k
    BY <1>3
  <2>2. n < 0 => k < 0 /\ k <= n
    BY <1>3
  <2>3. QED
    BY <2>1, <2>2, <1>2, <1>3, <1>4
<1>6. q = [p EXCEPT ![a] = p[a] + n]
  BY DEF Shifted
<1>7. /\ q \in Place
      /\ q[a] = p[a] + n
      /\ \A c \in Axis \ {a} : q[c] = p[c]
  <2>1. PICK m \in Int : m = p[a] + n
    BY <1>2, <1>5
  <2>2. q = [p EXCEPT ![a] = m]
    BY <2>1, <1>6
  <2>3. /\ [p EXCEPT ![a] = m] \in Place
        /\ [p EXCEPT ![a] = m][a] = m
        /\ \A c \in Axis \ {a} : [p EXCEPT ![a] = m][c] = p[c]
    BY <2>1, PlaceMoved
  <2> HIDE DEF q
  <2>4. QED
    BY <2>1, <2>2, <2>3
<1> HIDE DEF q
<1>8. /\ BoxEnd(q, a) = BoxEnd(p, a) + n
      /\ \A c \in Axis \ {a} : BoxEnd(q, c) = BoxEnd(p, c)
  BY <1>2, <1>5, <1>7 DEF BoxEnd
<1>9. InWorld(q)
  <2>1. q[a] >= 0 /\ BoxEnd(q, a) <= WorldEnd(a)
    BY <1>2, <1>5, <1>7, <1>8
  <2>2. QED
    BY <2>1, <1>1, <1>7, <1>8 DEF InWorld
<1>10. ASSUME NEW b \in solid
      PROVE  \E c \in Axis : ~Meets(b, c, q[c], BoxEnd(q, c))
  <2>1. CASE \E c \in Axis \ {a} : ~Meets(b, c, p[c], BoxEnd(p, c))
    BY <2>1, <1>7, <1>8
  <2>2. CASE \A c \in Axis \ {a} : Meets(b, c, p[c], BoxEnd(p, c))
    <3>1. ~Meets(b, a, p[a], BoxEnd(p, a))
      BY <2>2, <1>1 DEF Clear
    <3>2. /\ BlockStart(b, a) \in Int /\ BlockEnd(b, a) \in Int
          /\ BlockStart(b, a) < BlockEnd(b, a)
      BY EndsType
    <3>3. b \in way <=>
              IF bounded > 0 THEN Meets(b, a, p[a], BoxEnd(p, a) + bounded)
              ELSE Meets(b, a, p[a] + bounded, BoxEnd(p, a))
      BY <2>2 DEF InTheWay, way
    <3>4. CASE BoxEnd(p, a) <= BlockStart(b, a)
      <4>1. BoxEnd(p, a) + n <= BlockStart(b, a)
        <5>1. CASE n <= 0
          BY <5>1, <3>4, <3>2, <1>2, <1>5
        <5>2. CASE n > 0 /\ b \in way
          BY <5>2, <3>4, <3>2, <1>2, <1>5
        <5>3. CASE n > 0 /\ b \notin way
          <6>1. bounded > 0 /\ n <= bounded
            BY <5>3, <1>2, <1>5
          <6>2. ~ (BoxEnd(p, a) + bounded > BlockStart(b, a) /\ p[a] < BlockEnd(b, a))
            BY <6>1, <5>3, <3>3 DEF Meets
          <6>3. QED
            BY <6>1, <6>2, <3>4, <3>2, <1>2, <1>5
        <5>4. QED
          BY <5>1, <5>2, <5>3, <1>5
      <4>2. QED
        BY <4>1, <1>7, <1>8, <1>2, <1>5, <3>2 DEF Meets
    <3>5. CASE p[a] >= BlockEnd(b, a)
      <4>1. p[a] + n >= BlockEnd(b, a)
        <5>1. CASE n >= 0
          BY <5>1, <3>5, <3>2, <1>2, <1>5
        <5>2. CASE n < 0 /\ b \in way
          BY <5>2, <3>5, <3>2, <1>2, <1>5
        <5>3. CASE n < 0 /\ b \notin way
          <6>1. ~ (bounded > 0) /\ bounded <= n
            BY <5>3, <1>2, <1>5
          <6>2. ~ (BoxEnd(p, a) > BlockStart(b, a) /\ p[a] + bounded < BlockEnd(b, a))
            BY <6>1, <5>3, <3>3 DEF Meets
          <6>3. QED
            BY <6>1, <6>2, <3>5, <3>2, <1>2, <1>5
        <5>4. QED
          BY <5>1, <5>2, <5>3, <1>5
      <4>2. QED
        BY <4>1, <1>7, <1>8, <1>2, <1>5, <3>2 DEF Meets
    <3>6. QED
      BY <3>1, <3>2, <3>4, <3>5, <1>2 DEF Meets
  <2>3. QED
    BY <2>1, <2>2
<1>11. QED
  BY <1>7, <1>9, <1>10 DEF Free, Clear, q

\* Along one axis a free box stays free.
LEMMA AlongStaysFree ==
    ASSUME NEW p \in Place, NEW a \in Axis, NEW delta \in Int,
           solid \subseteq BlockPos, Free(p)
    PROVE  Along(p, a, delta) \in Place /\ Free(Along(p, a, delta))
<1>1. Clip(p, a, delta) \in Int
  BY ClipWithin DEF Free
<1>2. Along(p, a, delta) = Shifted(p, a, Clip(p, a, delta))
  BY DEF Along, Shifted
<1>3. Clip(p, a, delta) <= Clip(p, a, delta) /\ (0 <= Clip(p, a, delta) \/ Clip(p, a, delta) <= 0)
  BY <1>1
<1>4. \A n \in Int :
         (\/ 0 <= n /\ n <= Clip(p, a, delta)
          \/ Clip(p, a, delta) <= n /\ n <= 0)
         => Shifted(p, a, n) \in Place /\ Free(Shifted(p, a, n))
  BY WayStaysFree, Zenon
<1>5. Shifted(p, a, Clip(p, a, delta)) \in Place /\ Free(Shifted(p, a, Clip(p, a, delta)))
  BY <1>1, <1>3, <1>4
<1>6. QED
  BY <1>2, <1>5

\* A box within the world is where Inside would bring it.
LEMMA InsideWithin ==
    ASSUME NEW p \in Place, NEW a \in Axis, InWorld(p)
    PROVE  Inside(p, a) = p
<1>1. /\ p[a] \in Int /\ WorldEnd(a) \in Int /\ BoxSize[a] \in Int
      /\ 0 <= p[a] /\ p[a] + BoxSize[a] <= WorldEnd(a)
  BY PlaceType, EndsType DEF InWorld
<1>2. Clamp(p[a], 0, WorldEnd(a) - BoxSize[a]) = p[a]
  BY <1>1 DEF Clamp
<1>3. QED
  BY <1>2 DEF Inside, Place, Axis

\* A whole move, the three axes one after the other.
LEMMA MovedStaysFree ==
    ASSUME NEW p \in Place, NEW delta \in Place, solid \subseteq BlockPos, Free(p)
    PROVE  Free(Moved(p, delta))
<1>1. /\ "x" \in Axis /\ "y" \in Axis /\ "z" \in Axis
      /\ delta.x \in Int /\ delta.y \in Int /\ delta.z \in Int
  BY DEF Place, Axis
<1>2. AfterY(p, delta) \in Place /\ Free(AfterY(p, delta))
  BY <1>1, AlongStaysFree DEF AfterY
<1>3. AfterX(p, delta) \in Place /\ Free(AfterX(p, delta))
  <2>1. /\ Along(AfterY(p, delta), "x", delta.x) \in Place
        /\ Free(Along(AfterY(p, delta), "x", delta.x))
    BY <1>1, <1>2, AlongStaysFree
  <2>2. QED
    BY <1>1, <2>1, InsideWithin DEF AfterX, Free
<1>4. /\ Along(AfterX(p, delta), "z", delta.z) \in Place
      /\ Free(Along(AfterX(p, delta), "z", delta.z))
  BY <1>1, <1>3, AlongStaysFree
<1>5. QED
  BY <1>1, <1>4, InsideWithin DEF Moved, Free

-----------------------------------------------------------------------------
(* Types.  Off the free places a clip is an integer all the same.          *)

\* A clip may also start outside of the world, where the bounds themselves
\* move the box; the result is an integer.
LEMMA ClipType ==
    ASSUME NEW p \in Place, NEW a \in Axis, NEW delta \in Int, solid \subseteq BlockPos
    PROVE  Clip(p, a, delta) \in Int
<1> DEFINE bounded == Clamp(delta, -p[a], WorldEnd(a) - BoxEnd(p, a))
           way == InTheWay(p, a, bounded)
           above == {b \in way : BoxEnd(p, a) <= BlockStart(b, a)}
           below == {b \in way : p[a] >= BlockEnd(b, a)}
           ups == {bounded} \cup {BlockStart(b, a) - BoxEnd(p, a) : b \in above}
           downs == {bounded} \cup {BlockEnd(b, a) - p[a] : b \in below}
<1>1. p[a] \in Int /\ BoxEnd(p, a) \in Int /\ WorldEnd(a) \in Int
  BY PlaceType, EndsType
<1>2. bounded \in Int
  BY <1>1 DEF Clamp
<1>3. \A b \in way : BlockStart(b, a) \in Int /\ BlockEnd(b, a) \in Int
  BY EndsType DEF InTheWay
<1>4. Clip(p, a, delta) = IF delta = 0 THEN 0 ELSE IF bounded > 0 THEN Min(ups) ELSE Max(downs)
  BY DEF Clip
<1> HIDE DEF bounded, way
<1>5. CASE bounded > 0
  <2>1. ups \subseteq Nat
    BY <1>1, <1>2, <1>3, <1>5
  <2>2. Min(ups) \in Nat
    BY <2>1, MinOfNaturals
  <2>3. QED
    BY <2>2, <1>4, <1>5
<1>6. CASE ~ (bounded > 0)
  <2>1. \A n \in downs : n \in Int /\ n <= 0
    BY <1>1, <1>2, <1>3, <1>6
  <2>2. Max(downs) \in downs
    BY <2>1, MaxOfNegatives
  <2>3. QED
    BY <2>1, <2>2, <1>4, <1>6
<1>7. QED
  BY <1>5, <1>6

LEMMA InsideType ==
    ASSUME NEW p \in Place, NEW a \in Axis
    PROVE  Inside(p, a) \in Place
<1>1. p[a] \in Int /\ WorldEnd(a) \in Int /\ BoxSize[a] \in Int
  BY PlaceType, EndsType
<1>2. Clamp(p[a], 0, WorldEnd(a) - BoxSize[a]) \in Int
  BY <1>1 DEF Clamp
<1>3. QED
  BY <1>2, PlaceMoved DEF Inside

LEMMA MovedType ==
    ASSUME NEW p \in Place, NEW delta \in Place, solid \subseteq BlockPos
    PROVE  Moved(p, delta) \in Place
<1>1. /\ "x" \in Axis /\ "y" \in Axis /\ "z" \in Axis
      /\ delta.x \in Int /\ delta.y \in Int /\ delta.z \in Int
  BY DEF Place, Axis
<1>2. ASSUME NEW q \in Place, NEW a \in Axis, NEW n \in Int
      PROVE  Along(q, a, n) \in Place
  <2>1. q[a] + Clip(q, a, n) \in Int
    BY ClipType, PlaceType
  <2>2. QED
    BY <2>1, PlaceMoved DEF Along
<1>3. AfterX(p, delta) \in Place
  BY <1>1, <1>2, InsideType DEF AfterX, AfterY
<1>4. QED
  BY <1>1, <1>2, <1>3, InsideType DEF Moved

\* What the drag leaves of a velocity.
LEMMA DraggedType ==
    ASSUME NEW v \in Int, v <= JumpVelocity
    PROVE  Dragged(v) \subseteq -MaxFall .. JumpVelocity
<1>1. CASE v > 0
  BY <1>1, NumbersAssumption DEF Dragged
<1>2. CASE ~ (v > 0)
  <2>1. \A i \in {v, -MaxFall} : i \in Int /\ i <= 0
    BY <1>2, NumbersAssumption
  <2>2. /\ Max({v, -MaxFall}) \in {v, -MaxFall}
        /\ \A i \in {v, -MaxFall} : Max({v, -MaxFall}) >= i
    BY <2>1, MaxOfNegatives
  <2>3. Max({v, -MaxFall}) \in Int /\ Max({v, -MaxFall}) >= -MaxFall
    BY <2>1, <2>2
  <2>4. QED
    BY <2>3, <1>2, NumbersAssumption DEF Dragged
<1>3. QED
  BY <1>1, <1>2

\* A world has finitely many blocks.
LEMMA BlockPosFinite == IsFiniteSet(BlockPos)
<1> DEFINE X == 0 .. WorldSize.x - 1
           Y == 0 .. WorldSize.y - 1
           Z == 0 .. WorldSize.z - 1
           At == [t \in X \X (Y \X Z) |-> [x |-> t[1], y |-> t[2][1], z |-> t[2][2]]]
<1>1. IsFiniteSet(X) /\ IsFiniteSet(Y) /\ IsFiniteSet(Z)
  <2>1. WorldSize.x - 1 \in Int /\ WorldSize.y - 1 \in Int /\ WorldSize.z - 1 \in Int
    BY WorldAssumption DEF Size
  <2>2. QED
    BY <2>1, FS_Interval
<1>2. IsFiniteSet(X \X (Y \X Z))
  BY <1>1, FS_Product
<1>3. ASSUME NEW b \in BlockPos PROVE \E t \in X \X (Y \X Z) : At[t] = b
  <2>1. <<b.x, <<b.y, b.z>>>> \in X \X (Y \X Z)
    BY DEF BlockPos
  <2>2. At[<<b.x, <<b.y, b.z>>>>] = b
    BY <2>1 DEF BlockPos
  <2>3. QED
    BY <2>1, <2>2
<1>4. At \in Surjection(X \X (Y \X Z), BlockPos)
  <2>1. At \in [X \X (Y \X Z) -> BlockPos]
    BY DEF BlockPos
  <2>2. QED
    BY <2>1, <1>3 DEF Surjection
<1>5. QED
  BY <1>2, <1>4, FS_Surjection

\* TypeOK is an invariant: the player is at a place, and what the drag and
\* the jump leave of the velocity is between MaxFall and JumpVelocity.
THEOREM TypeCorrect == Spec => []TypeOK
<1>1. Init => TypeOK
  <2>1. 0 \in -MaxFall .. JumpVelocity
    BY NumbersAssumption
  <2>2. QED
    BY <2>1, MovesAssumption DEF Init, TypeOK
<1>2. TypeOK /\ [Next]_vars => TypeOK'
  <2> SUFFICES ASSUME TypeOK, [Next]_vars PROVE TypeOK'
    OBVIOUS
  <2>1. /\ solid \subseteq BlockPos /\ Cardinality(solid) <= MaxSolid
        /\ at \in Place /\ velocity \in -MaxFall .. JumpVelocity /\ onGround \in BOOLEAN
    BY DEF TypeOK
  <2>2. ASSUME NEW delta \in Place, NEW n \in BOOLEAN
        PROVE  GroundAfter(at, delta, n) \in BOOLEAN
    BY <2>2 DEF GroundAfter, HitVertical
  <2>3. CASE MovePlayer
    <3>1. PICK delta \in Deltas :
             /\ at' = Moved(at, delta)
             /\ onGround' = GroundAfter(at, delta, onGround)
             /\ velocity' = IF HitVertical(at, delta) THEN 0 ELSE velocity
             /\ UNCHANGED solid
      BY <2>3 DEF MovePlayer
    <3>2. delta \in Place
      BY MovesAssumption
    <3>3. at' \in Place
      BY <3>1, <3>2, <2>1, MovedType
    <3>4. onGround' \in BOOLEAN
      BY <3>1, <3>2, <2>1, <2>2
    <3>5. velocity' \in -MaxFall .. JumpVelocity
      BY <3>1, <2>1, NumbersAssumption
    <3>6. QED
      BY <3>1, <3>3, <3>4, <3>5, <2>1 DEF TypeOK
  <2>4. CASE Tick
    <3> DEFINE v == velocity - Gravity
               delta == [x |-> 0, y |-> v, z |-> 0]
    <3>1. /\ at' = Moved(at, delta)
          /\ onGround' = GroundAfter(at, delta, onGround)
          /\ velocity' \in IF onGround' \/ HitVertical(at, delta) THEN {0} ELSE Dragged(v)
          /\ UNCHANGED solid
      BY <2>4 DEF Tick
    <3>2. v \in Int /\ v <= JumpVelocity
      BY <2>1, NumbersAssumption
    <3>3. delta \in Place
      BY <3>2 DEF Place
    <3>4. Dragged(v) \subseteq -MaxFall .. JumpVelocity
      BY <3>2, DraggedType
    <3> HIDE DEF v, delta
    <3>5. at' \in Place
      BY <3>1, <3>3, <2>1, MovedType
    <3>6. onGround' \in BOOLEAN
      BY <3>1, <3>3, <2>1, <2>2
    <3>7. velocity' \in -MaxFall .. JumpVelocity
      BY <3>1, <3>4, NumbersAssumption
    <3>8. QED
      BY <3>1, <3>5, <3>6, <3>7, <2>1 DEF TypeOK
  <2>5. CASE Jump
    <3>1. JumpVelocity \in -MaxFall .. JumpVelocity
      BY NumbersAssumption
    <3>2. QED
      BY <3>1, <2>5, <2>1 DEF Jump, TypeOK
  <2>6. CASE SetPlayerPosition
    BY <2>6, <2>1, MovesAssumption DEF SetPlayerPosition, TypeOK
  <2>7. IsFiniteSet(solid)
    BY <2>1, BlockPosFinite, FS_Subset
  <2>8. CASE PlaceBlock
    <3>1. PICK b \in BlockPos \ solid : solid' = solid \cup {b}
      BY <2>8 DEF PlaceBlock
    <3>2. Cardinality(solid') = Cardinality(solid) + 1 /\ Cardinality(solid) \in Nat
      BY <3>1, <2>7, FS_AddElement, FS_CardinalityType
    <3>3. Cardinality(solid') <= MaxSolid
      BY <3>2, <2>8, NumbersAssumption DEF PlaceBlock
    <3>4. QED
      BY <3>1, <3>3, <2>8, <2>1 DEF PlaceBlock, TypeOK
  <2>9. CASE BreakBlock
    <3>1. PICK b \in solid : solid' = solid \ {b}
      BY <2>9 DEF BreakBlock
    <3>2. Cardinality(solid') = Cardinality(solid) - 1 /\ Cardinality(solid) \in Nat
      BY <3>1, <2>7, FS_RemoveElement, FS_CardinalityType
    <3>3. Cardinality(solid') <= MaxSolid
      BY <3>2, <2>1, NumbersAssumption
    <3>4. QED
      BY <3>1, <3>3, <2>9, <2>1 DEF BreakBlock, TypeOK
  <2>10. CASE UNCHANGED vars
    BY <2>10, <2>1 DEF vars, TypeOK
  <2>11. QED
    BY <2>3, <2>4, <2>5, <2>6, <2>8, <2>9, <2>10 DEF Next, Play, Edit
<1>3. QED
  BY <1>1, <1>2, PTL DEF Spec

\* No move takes the player from a free place into a block or out of the
\* world: MovesStayFree of the runs, for worlds, boxes and moves of any size.
THEOREM FreePlayerStaysFree == Spec => MovesStayFree
<1>1. TypeOK => (MovePlayer \/ Tick => (Free(at) => Free(at')))
  <2> SUFFICES ASSUME TypeOK, MovePlayer \/ Tick, Free(at) PROVE Free(at')
    OBVIOUS
  <2>1. /\ solid \subseteq BlockPos /\ at \in Place /\ solid' = solid
        /\ velocity \in -MaxFall .. JumpVelocity
    BY DEF TypeOK, MovePlayer, Tick
  <2>2. PICK delta \in Place : at' = Moved(at, delta)
    <3>1. CASE MovePlayer
      BY <3>1, MovesAssumption DEF MovePlayer
    <3>2. CASE Tick
      <4>1. velocity - Gravity \in Int
        BY <2>1, NumbersAssumption
      <4>2. [x |-> 0, y |-> velocity - Gravity, z |-> 0] \in Place
        BY <4>1 DEF Place
      <4>3. QED
        BY <4>2, <3>2 DEF Tick
    <3>3. QED
      BY <3>1, <3>2
  <2>3. Free(Moved(at, delta))
    BY <2>1, MovedStaysFree
  <2>4. QED
    BY <2>2, <2>3
<1>2. QED
  BY <1>1, TypeCorrect, PTL DEF MovesStayFree

-----------------------------------------------------------------------------
\* A clip against the axis that falls short has come to the end of the world
\* or to a block that is beside the box on both other axes.
LEMMA ClipDownStopsAt ==
    ASSUME NEW p \in Place, NEW a \in Axis, NEW delta \in Int, delta < 0,
           solid \subseteq BlockPos, InWorld(p), Clip(p, a, delta) # delta
    PROVE  \/ p[a] + Clip(p, a, delta) = 0
           \/ \E b \in solid : /\ \A c \in Axis \ {a} : Meets(b, c, p[c], BoxEnd(p, c))
                             /\ p[a] + Clip(p, a, delta) = BlockEnd(b, a)
<1> DEFINE bounded == Clamp(delta, -p[a], WorldEnd(a) - BoxEnd(p, a))
           way == InTheWay(p, a, bounded)
           below == {b \in way : p[a] >= BlockEnd(b, a)}
           downs == {bounded} \cup {BlockEnd(b, a) - p[a] : b \in below}
           k == Clip(p, a, delta)
<1>1. /\ p[a] \in Int /\ BoxEnd(p, a) \in Int /\ WorldEnd(a) \in Int
      /\ 0 <= p[a] /\ BoxEnd(p, a) <= WorldEnd(a)
  BY PlaceType, EndsType DEF InWorld
<1>2. bounded \in Int /\ bounded <= 0 /\ (bounded = delta \/ bounded = -p[a])
  BY <1>1 DEF Clamp
<1>3. way \subseteq solid /\ \A b \in way, c \in Axis \ {a} : Meets(b, c, p[c], BoxEnd(p, c))
  BY DEF InTheWay
<1>4. \A b \in way : BlockEnd(b, a) \in Int
  BY <1>3, EndsType
<1>5. k = IF delta = 0 THEN 0 ELSE IF bounded > 0
                                 THEN Min({bounded} \cup {BlockStart(b, a) - BoxEnd(p, a) :
                                              b \in {b \in way : BoxEnd(p, a) <= BlockStart(b, a)}})
                                 ELSE Max(downs)
  BY DEF Clip
<1> HIDE DEF bounded, way, k
<1>6. \A n \in downs : n \in Int /\ n <= 0
  BY <1>1, <1>2, <1>4
<1>7. Max(downs) \in downs
  BY <1>6, MaxOfNegatives
<1>8. k = Max(downs)
  BY <1>2, <1>5
<1>9. CASE k = bounded
  BY <1>1, <1>2, <1>9 DEF k
<1>10. CASE k # bounded
  <2>1. PICK b \in below : k = BlockEnd(b, a) - p[a]
    BY <1>7, <1>8, <1>10
  <2>2. p[a] + k = BlockEnd(b, a)
    BY <2>1, <1>1, <1>4
  <2>3. QED
    BY <2>2, <1>3 DEF k
<1>11. QED
  BY <1>9, <1>10

\* The same on the way up.
LEMMA ClipUpStopsAt ==
    ASSUME NEW p \in Place, NEW a \in Axis, NEW delta \in Int, delta > 0,
           solid \subseteq BlockPos, InWorld(p), Clip(p, a, delta) # delta
    PROVE  \/ BoxEnd(p, a) + Clip(p, a, delta) = WorldEnd(a)
           \/ \E b \in solid : /\ \A c \in Axis \ {a} : Meets(b, c, p[c], BoxEnd(p, c))
                             /\ BoxEnd(p, a) + Clip(p, a, delta) = BlockStart(b, a)
<1> DEFINE bounded == Clamp(delta, -p[a], WorldEnd(a) - BoxEnd(p, a))
           way == InTheWay(p, a, bounded)
           above == {b \in way : BoxEnd(p, a) <= BlockStart(b, a)}
           below == {b \in way : p[a] >= BlockEnd(b, a)}
           ups == {bounded} \cup {BlockStart(b, a) - BoxEnd(p, a) : b \in above}
           downs == {bounded} \cup {BlockEnd(b, a) - p[a] : b \in below}
           k == Clip(p, a, delta)
<1>1. /\ p[a] \in Int /\ BoxEnd(p, a) \in Int /\ WorldEnd(a) \in Int
      /\ 0 <= p[a] /\ BoxEnd(p, a) <= WorldEnd(a)
  BY PlaceType, EndsType DEF InWorld
<1>2. /\ bounded \in Int /\ bounded >= 0
      /\ bounded = delta \/ bounded = WorldEnd(a) - BoxEnd(p, a)
  BY <1>1 DEF Clamp
<1>3. way \subseteq solid /\ \A b \in way, c \in Axis \ {a} : Meets(b, c, p[c], BoxEnd(p, c))
  BY DEF InTheWay
<1>4. \A b \in way : BlockStart(b, a) \in Int /\ BlockEnd(b, a) \in Int
  BY <1>3, EndsType
<1>5. k = IF delta = 0 THEN 0 ELSE IF bounded > 0 THEN Min(ups) ELSE Max(downs)
  BY DEF Clip
<1> HIDE DEF bounded, way, k
<1>6. CASE bounded > 0
  <2>1. ups \subseteq Nat
    BY <1>1, <1>2, <1>4
  <2>2. Min(ups) \in ups
    BY <2>1, MinOfNaturals
  <2>3. k = Min(ups)
    BY <1>5, <1>6
  <2>4. CASE k = bounded
    BY <1>1, <1>2, <2>4 DEF k
  <2>5. CASE k # bounded
    <3>1. PICK b \in above : k = BlockStart(b, a) - BoxEnd(p, a)
      BY <2>2, <2>3, <2>5
    <3>2. BoxEnd(p, a) + k = BlockStart(b, a)
      BY <3>1, <1>1, <1>4
    <3>3. QED
      BY <3>2, <1>3 DEF k
  <2>6. QED
    BY <2>4, <2>5
<1>7. CASE bounded = 0
  <2>1. \A n \in downs : n \in Int /\ n <= 0
    BY <1>1, <1>2, <1>4, <1>7
  <2>2. Max(downs) \in downs /\ Max(downs) >= 0
    BY <2>1, <1>7, MaxOfNegatives
  <2>3. k = 0
    BY <2>1, <2>2, <1>5, <1>7
  <2>4. QED
    BY <2>3, <1>1, <1>2, <1>7 DEF k
<1>8. QED
  BY <1>2, <1>6, <1>7

\* Which way a clip goes, and that it goes no farther than asked.
LEMMA ClipSign ==
    ASSUME NEW p \in Place, NEW a \in Axis, NEW delta \in Int,
           solid \subseteq BlockPos, InWorld(p)
    PROVE  /\ Clip(p, a, delta) \in Int
           /\ delta > 0 => 0 <= Clip(p, a, delta) /\ Clip(p, a, delta) <= delta
           /\ delta <= 0 => delta <= Clip(p, a, delta) /\ Clip(p, a, delta) <= 0
<1> DEFINE bounded == Clamp(delta, -p[a], WorldEnd(a) - BoxEnd(p, a))
           k == Clip(p, a, delta)
<1>1. /\ p[a] \in Int /\ BoxEnd(p, a) \in Int /\ WorldEnd(a) \in Int
      /\ 0 <= p[a] /\ BoxEnd(p, a) <= WorldEnd(a)
  BY PlaceType, EndsType DEF InWorld
<1>2. /\ bounded \in Int
      /\ delta > 0 => 0 <= bounded /\ bounded <= delta
      /\ delta <= 0 => delta <= bounded /\ bounded <= 0
  BY <1>1 DEF Clamp
<1>3. /\ k \in Int
      /\ \/ 0 <= k /\ k <= bounded
         \/ bounded <= k /\ k <= 0
  BY ClipWithin, Zenon
<1> HIDE DEF bounded, k
<1>4. QED
  BY <1>2, <1>3 DEF k

\* A unit past the place where a clip stopped short is a block or the end of
\* the world.
LEMMA NextIsBlocked ==
    ASSUME NEW p \in Place, NEW a \in Axis, NEW delta \in Int,
           solid \subseteq BlockPos, InWorld(p), Clip(p, a, delta) # delta
    PROVE  ~Free(Shifted(p, a, Clip(p, a, delta) + Toward(delta)))
<1> DEFINE k == Clip(p, a, delta)
           t == Toward(delta)
           r == Shifted(p, a, k + t)
<1>1. k \in Int /\ p[a] \in Int /\ t \in Int
  BY ClipSign, PlaceType DEF Toward
<1>2. p[a] + (k + t) \in Int
  BY <1>1
<1>3. r \in Place /\ r[a] = p[a] + (k + t) /\ \A c \in Axis \ {a} : r[c] = p[c]
  BY <1>2, PlaceMoved DEF Shifted
<1>4. /\ BoxSize[a] \in Nat \ {0} /\ WorldEnd(a) \in Int
      /\ BoxEnd(r, a) = r[a] + BoxSize[a] /\ BoxEnd(p, a) = p[a] + BoxSize[a]
  BY <1>3, EndsType
<1>5. /\ delta # 0
      /\ delta > 0 => t = 1
      /\ delta < 0 => t = -1
  <2>1. delta = 0 => Clip(p, a, delta) = 0
    BY DEF Clip
  <2>2. QED
    BY <2>1 DEF Toward
<1>6. ASSUME NEW b \in solid,
             \A c \in Axis \ {a} : Meets(b, c, p[c], BoxEnd(p, c)),
             \/ delta > 0 /\ BoxEnd(p, a) + k = BlockStart(b, a)
             \/ delta < 0 /\ p[a] + k = BlockEnd(b, a)
      PROVE  ~Free(r)
  <2> HIDE DEF k, t, r
  <2>1. \A c \in Axis \ {a} : Meets(b, c, r[c], BoxEnd(r, c))
    BY <1>3, <1>6 DEF BoxEnd
  <2>2. /\ BlockStart(b, a) \in Int /\ BlockEnd(b, a) \in Int
        /\ BlockStart(b, a) < BlockEnd(b, a)
    BY EndsType
  <2>3. Meets(b, a, r[a], BoxEnd(r, a))
    BY <1>1, <1>3, <1>4, <1>5, <1>6, <2>2 DEF Meets
  <2>4. \A c \in Axis : Meets(b, c, r[c], BoxEnd(r, c))
    BY <2>1, <2>3
  <2>5. QED
    BY <2>4 DEF Free, Clear
<1>7. ASSUME \/ delta > 0 /\ BoxEnd(p, a) + k = WorldEnd(a)
             \/ delta < 0 /\ p[a] + k = 0
      PROVE  ~Free(r)
  <2> HIDE DEF k, t, r
  <2>1. r[a] < 0 \/ BoxEnd(r, a) > WorldEnd(a)
    BY <1>1, <1>3, <1>4, <1>5, <1>7
  <2>2. ~(r[a] >= 0 /\ BoxEnd(r, a) <= WorldEnd(a))
    BY <2>1, <1>1, <1>2, <1>3, <1>4
  <2>3. QED
    BY <2>2 DEF Free, InWorld
<1>8. CASE delta > 0
  BY <1>6, <1>7, <1>8, ClipUpStopsAt
<1>9. CASE delta < 0
  BY <1>6, <1>7, <1>9, ClipDownStopsAt
<1>10. QED
  BY <1>5, <1>8, <1>9

\* The places open to a box and the clip.
LEMMA ClipReaches ==
    ASSUME NEW p \in Place, NEW a \in Axis, NEW delta \in Int,
           solid \subseteq BlockPos, Free(p)
    PROVE  Clip(p, a, delta) = Toward(delta) * Max(Open(p, a, delta))
<1> DEFINE k == Clip(p, a, delta)
           t == Toward(delta)
           size == IF delta > 0 THEN delta ELSE -delta
           m == IF delta > 0 THEN k ELSE -k
<1>1. InWorld(p)
  BY DEF Free
<1>2. /\ k \in Int
      /\ delta > 0 => 0 <= k /\ k <= delta
      /\ delta <= 0 => delta <= k /\ k <= 0
  BY <1>1, ClipSign
<1>3. (delta > 0 => t = 1) /\ (delta <= 0 => t = -1)
  BY DEF Toward
<1>4. Max({delta, -delta}) = size
  <2>1. size \in {delta, -delta} /\ size >= delta /\ size >= -delta
    OBVIOUS
  <2>2. \A n \in {delta, -delta} : (\A i \in {delta, -delta} : n >= i) => n = size
    OBVIOUS
  <2>3. QED
    BY <2>1, <2>2 DEF Max
<1>5. Open(p, a, delta) = {n \in 0 .. size : \A i \in 1 .. n : Free(Shifted(p, a, i * t))}
  BY <1>4 DEF Open
<1>6. m \in Nat /\ m <= size /\ t * m = k
  BY <1>2, <1>3
<1>7. ASSUME NEW i \in 1 .. m PROVE Free(Shifted(p, a, i * t))
  <2>1. /\ i * t \in Int
        /\ \/ 0 <= i * t /\ i * t <= k
           \/ k <= i * t /\ i * t <= 0
    BY <1>2, <1>3
  <2> HIDE DEF t
  <2>2. QED
    BY <2>1, WayStaysFree, Zenon DEF k
<1>8. ASSUME NEW n \in 0 .. size, \A i \in 1 .. n : Free(Shifted(p, a, i * t))
      PROVE  n <= m
  <2> SUFFICES ASSUME n > m PROVE FALSE
    BY <1>6
  <2>1. k # delta
    BY <1>2, <1>6
  <2>2. m + 1 \in 1 .. n /\ (m + 1) * t = k + t
    BY <1>2, <1>3, <1>6
  <2>3. Free(Shifted(p, a, k + t))
    BY <2>2, <1>8
  <2>4. QED
    BY <1>1, <2>1, <2>3, NextIsBlocked
<1> HIDE DEF k, t, m, size
<1>9. m \in Open(p, a, delta)
  BY <1>5, <1>6, <1>7
<1>10. \A n \in Open(p, a, delta) : n \in Int /\ m >= n
  <2>1. size \in Int
    BY DEF size
  <2>2. QED
    BY <1>5, <1>6, <1>8, <2>1
<1>11. Max(Open(p, a, delta)) = m
  <2>1. \A n \in Open(p, a, delta) : (\A i \in Open(p, a, delta) : n >= i) => n = m
    BY <1>6, <1>9, <1>10
  <2>2. QED
    BY <1>9, <1>10, <2>1 DEF Max
<1>12. QED
  BY <1>6, <1>11 DEF k, t

\* A tick moves a player in a free place along y and nowhere else.
LEMMA TickFalls ==
    ASSUME NEW p \in Place, NEW v \in Int, solid \subseteq BlockPos, Free(p)
    PROVE  Moved(p, [x |-> 0, y |-> v, z |-> 0]) = Along(p, "y", v)
<1> DEFINE delta == [x |-> 0, y |-> v, z |-> 0]
<1>1. "x" \in Axis /\ "y" \in Axis /\ "z" \in Axis
  BY DEF Axis
<1>2. Along(p, "y", v) \in Place /\ Free(Along(p, "y", v))
  BY <1>1, AlongStaysFree
<1>3. ASSUME NEW q \in Place, NEW a \in Axis PROVE Along(q, a, 0) = q
  <2>1. Clip(q, a, 0) = 0 /\ q[a] + 0 = q[a]
    BY PlaceType DEF Clip
  <2>2. QED
    BY <2>1 DEF Along, Place, Axis
<1>4. AfterX(p, delta) = Along(p, "y", v)
  BY <1>1, <1>2, <1>3, InsideWithin DEF AfterX, AfterY, Free
<1>5. QED
  BY <1>1, <1>2, <1>3, <1>4, InsideWithin DEF Moved, Free

\* A unit below the place where a fall stopped there is the bottom of the
\* world or a block.
LEMMA FallEndsOnSomething ==
    ASSUME NEW p \in Place, NEW v \in Int, v < 0, solid \subseteq BlockPos, Free(p),
           Clip(p, "y", v) # v
    PROVE  ~Free(Shifted(Along(p, "y", v), "y", -1))
<1> DEFINE k == Clip(p, "y", v)
<1>1. "y" \in Axis /\ InWorld(p) /\ k \in Int /\ p["y"] \in Int /\ Toward(v) = -1
  BY ClipType, PlaceType DEF Axis, Free, Toward
<1>2. ~Free(Shifted(p, "y", k + (-1)))
  BY <1>1, NextIsBlocked
<1> HIDE DEF k
<1>3. Shifted([p EXCEPT !["y"] = @ + k], "y", -1) = Shifted(p, "y", k + (-1))
  <2>1. p["y"] + k + (-1) = p["y"] + (k + (-1))
    BY <1>1
  <2>2. QED
    BY <1>1, <2>1 DEF Shifted, Place, Axis
<1>4. QED
  BY <1>2, <1>3 DEF Along, k

\* A player on the ground is not on the way up; without that a tick whose
\* gravity just stops the way up would keep a ground that is gone.
GroundInv == TypeOK /\ (onGround => velocity <= 0)

LEMMA GroundNext == GroundInv /\ TypeOK' /\ [Next]_vars => GroundInv'
<1> SUFFICES ASSUME GroundInv, TypeOK', [Next]_vars PROVE onGround' => velocity' <= 0
  BY DEF GroundInv
<1>1. CASE MovePlayer
  <2>1. PICK delta \in Deltas :
            /\ onGround' = GroundAfter(at, delta, onGround)
            /\ velocity' = IF HitVertical(at, delta) THEN 0 ELSE velocity
    BY <1>1 DEF MovePlayer
  <2>2. delta.y \in Int
    BY MovesAssumption DEF Place
  <2>3. CASE delta.y < 0
    <3>1. onGround' = HitVertical(at, delta)
      BY <2>1, <2>3 DEF GroundAfter
    <3>2. onGround' => velocity' = 0
      BY <2>1, <3>1, Zenon
    <3>3. QED
      BY <3>2
  <2>4. CASE delta.y > 0
    <3>1. ~(delta.y < 0)
      BY <2>2, <2>4
    <3>2. ~onGround'
      BY <2>1, <2>4, <3>1, Zenon DEF GroundAfter
    <3>3. QED
      BY <3>2
  <2>5. CASE delta.y = 0
    <3>1. onGround' = onGround
      BY <2>1, <2>5 DEF GroundAfter
    <3>2. ~HitVertical(at, delta)
      BY <2>5 DEF HitVertical, Clip
    <3>3. QED
      BY <2>1, <3>1, <3>2 DEF GroundInv
  <2>6. QED
    BY <2>2, <2>3, <2>4, <2>5
<1>2. CASE Tick
  BY <1>2 DEF Tick
<1>3. CASE Jump
  BY <1>3 DEF Jump
<1>4. CASE Edit \/ UNCHANGED vars
  BY <1>4 DEF Edit, SetPlayerPosition, PlaceBlock, BreakBlock, vars, GroundInv
<1>5. QED
  BY <1>1, <1>2, <1>3, <1>4 DEF Next, Play

\* A tick that leaves the player on the ground leaves the player on a block or
\* on the bottom of the world: GroundHolds of the run, for worlds, boxes,
\* speeds and blocks of any size and number.
THEOREM GroundIsThere == Spec => GroundHolds
<1>1. Init => (onGround => velocity <= 0)
  BY DEF Init
<1>2. Spec => []GroundInv
  BY <1>1, TypeCorrect, GroundNext, PTL DEF Spec, GroundInv
<1>3. GroundInv => (Tick /\ Free(at) /\ onGround' => ~Free(Shifted(at', "y", -1)))
  <2> SUFFICES ASSUME GroundInv, Tick, Free(at), onGround' PROVE ~Free(Shifted(at', "y", -1))
    OBVIOUS
  <2> DEFINE v == velocity - Gravity
             delta == [x |-> 0, y |-> v, z |-> 0]
  <2>1. velocity \in Int /\ v \in Int /\ at \in Place /\ solid \subseteq BlockPos
    BY NumbersAssumption DEF GroundInv, TypeOK
  <2>2. at' = Moved(at, delta) /\ onGround' = GroundAfter(at, delta, onGround)
    BY DEF Tick
  <2>3. velocity <= 0 => v < 0
    BY <2>1, NumbersAssumption
  <2>4. v < 0
    <3>1. CASE v > 0
      BY <2>2, <3>1 DEF GroundAfter
    <3>2. CASE v = 0
      <4>1. delta.y = v /\ ~(delta.y < 0) /\ ~(delta.y > 0)
        BY <3>2
      <4>2. onGround
        BY <2>2, <4>1, Zenon DEF GroundAfter
      <4>3. QED
        BY <2>3, <4>2 DEF GroundInv
    <3>3. QED
      BY <2>1, <3>1, <3>2
  <2>5. Clip(at, "y", v) # v
    BY <2>2, <2>4 DEF GroundAfter, HitVertical
  <2>6. at' = Along(at, "y", v)
    BY <2>1, <2>2, TickFalls
  <2>7. QED
    BY <2>1, <2>4, <2>5, <2>6, FallEndsOnSomething
<1>4. QED
  BY <1>2, <1>3, PTL DEF GroundHolds

\* A clip of a player in a free place goes exactly as far as the way is open:
\* ClipIsFarthest of the run, for worlds, boxes and blocks of any size and
\* number.
THEOREM ClipGoesFarthest == Spec => []ClipIsFarthest
<1>1. TypeOK => ClipIsFarthest
  <2> SUFFICES ASSUME TypeOK, Free(at), NEW a \in Axis, NEW delta \in -2 * Unit .. 2 * Unit
               PROVE  Clip(at, a, delta) = Toward(delta) * Max(Open(at, a, delta))
    BY DEF ClipIsFarthest
  <2>1. delta \in Int
    BY UnitAssumption
  <2>2. QED
    BY <2>1, ClipReaches DEF TypeOK
<1>2. QED
  BY <1>1, TypeCorrect, PTL

-----------------------------------------------------------------------------
(* GameLoop.                                                               *)

LoopTypeOK ==
    /\ accumulator \in Nat /\ elapsed \in Nat /\ executed \in Nat
    /\ paused \in BOOLEAN /\ advancing \in BOOLEAN

\* What the ticks of a call have taken and what is left of its time.
Spent == executed * TickLength + accumulator

\* That sum is the time of the call and a rest of less than a tick from the
\* call before, from its first tick to its last.
TimeIsSpentOnTicks ==
    advancing => Spent >= Least(elapsed, Cap) /\ Spent < Least(elapsed, Cap) + TickLength

LoopInv == LoopTypeOK /\ TimeIsSpentOnTicks /\ (paused => ~advancing) /\ CatchUpIsBounded

LEMMA CapIsNat == Cap \in Nat
BY TickAssumption DEF Cap

LEMMA LeastOfNats ==
    ASSUME NEW a \in Nat, NEW b \in Nat
    PROVE  Least(a, b) \in Nat /\ Least(a, b) <= a /\ Least(a, b) <= b
BY DEF Least

\* What k ticks take, and one more.
LEMMA OneMoreTick ==
    ASSUME NEW k \in Nat
    PROVE  /\ k * TickLength \in Nat
           /\ (k + 1) * TickLength = k * TickLength + TickLength
BY TickAssumption

LEMMA TicksWithinCap ==
    ASSUME NEW k \in Nat, k <= MaxCatchUp
    PROVE  k * TickLength <= Cap
<1> DEFINE rest == MaxCatchUp - k
<1>1. rest \in Nat /\ MaxCatchUp = k + rest
  BY TickAssumption
<1>2. rest * TickLength \in Nat
  BY <1>1, OneMoreTick
<1>3. (k + rest) * TickLength = k * TickLength + rest * TickLength
  BY <1>1, TickAssumption
<1>4. k * TickLength \in Nat
  BY OneMoreTick
<1> HIDE DEF rest
<1>5. Cap = k * TickLength + rest * TickLength
  BY <1>1, <1>3 DEF Cap
<1>6. QED
  BY <1>2, <1>4, <1>5

-----------------------------------------------------------------------------
LEMMA InvInit == LoopInit => LoopInv
<1> SUFFICES ASSUME LoopInit PROVE LoopInv
  OBVIOUS
<1>1. Least(0, Cap) = 0
  BY CapIsNat DEF Least
<1>2. 0 * TickLength = 0 /\ (0 + 1) * TickLength = TickLength
  BY TickAssumption
<1>3. /\ accumulator = 0 /\ paused = FALSE /\ advancing = FALSE
      /\ elapsed = 0 /\ executed = 0
  BY DEF LoopInit
<1>4. LoopTypeOK /\ TimeIsSpentOnTicks
  BY <1>3 DEF LoopTypeOK, TimeIsSpentOnTicks
<1>5. /\ executed * TickLength < elapsed + TickLength
      /\ (executed + 1) * TickLength > Least(elapsed, Cap)
  BY <1>1, <1>2, <1>3, TickAssumption
<1>6. executed <= MaxCatchUp /\ accumulator \in 0 .. TickLength - 1
  BY <1>3, TickAssumption
<1>7. QED
  BY <1>3, <1>4, <1>5, <1>6 DEF LoopInv, CatchUpIsBounded

LEMMA InvAdvance == LoopInv /\ Advance => LoopInv'
<1> SUFFICES ASSUME LoopInv, Advance PROVE LoopInv'
  OBVIOUS
<1>1. PICK time \in Elapsed : elapsed' = time /\ accumulator' = accumulator + Least(time, Cap)
  BY DEF Advance, Added
<1>2. time \in Nat /\ Least(time, Cap) \in Nat
  BY ElapsedAssumption, CapIsNat, LeastOfNats
<1>3. accumulator \in Nat /\ accumulator < TickLength
  BY TickAssumption DEF LoopInv, LoopTypeOK, CatchUpIsBounded, Advance
<1>4. executed' = 0 /\ advancing' = TRUE /\ paused' = paused /\ paused = FALSE
  BY DEF Advance, LoopInv, LoopTypeOK
<1>5. LoopTypeOK'
  <2>1. accumulator' \in Nat
    BY <1>1, <1>2, <1>3
  <2>2. elapsed' \in Nat /\ executed' \in Nat
    BY <1>1, <1>2, <1>4
  <2>3. QED
    BY <1>4, <2>1, <2>2 DEF LoopTypeOK
<1>6. Cap' = Cap /\ Spent' = accumulator + Least(time, Cap)
  BY <1>1, <1>2, <1>3, <1>4, TickAssumption DEF Cap, Spent
<1>7. TimeIsSpentOnTicks'
  BY <1>1, <1>2, <1>3, <1>6, TickAssumption DEF TimeIsSpentOnTicks
<1>8. CatchUpIsBounded'
  BY <1>4, TickAssumption DEF CatchUpIsBounded
<1>9. QED
  BY <1>4, <1>5, <1>7, <1>8 DEF LoopInv

LEMMA InvLoopTick == LoopInv /\ LoopTick => LoopInv'
<1> SUFFICES ASSUME LoopInv, LoopTick PROVE LoopInv'
  OBVIOUS
<1>1. /\ accumulator' = accumulator - TickLength /\ executed' = executed + 1
      /\ advancing /\ advancing' = advancing /\ elapsed' = elapsed /\ paused' = paused
      /\ accumulator >= TickLength /\ executed < MaxCatchUp
  BY DEF LoopTick, Due
<1>2. LoopTypeOK /\ ~paused
  BY <1>1 DEF LoopInv, LoopTypeOK
<1>3. LoopTypeOK'
  BY <1>1, <1>2, TickAssumption DEF LoopTypeOK
<1>4. Spent' = Spent
  <2>1. (executed + 1) * TickLength = executed * TickLength + TickLength
        /\ executed * TickLength \in Nat
    BY <1>2, OneMoreTick DEF LoopTypeOK
  <2>2. Spent' = (executed + 1) * TickLength + (accumulator - TickLength)
    BY <1>1 DEF Spent
  <2>3. QED
    BY <1>2, <2>1, <2>2, TickAssumption DEF Spent, LoopTypeOK
<1>5. TimeIsSpentOnTicks'
  BY <1>1, <1>4 DEF LoopInv, TimeIsSpentOnTicks, Cap
<1>6. CatchUpIsBounded'
  BY <1>1, <1>2, TickAssumption DEF CatchUpIsBounded, LoopTypeOK
<1>7. QED
  BY <1>1, <1>2, <1>3, <1>5, <1>6 DEF LoopInv

LEMMA InvReturn == LoopInv /\ Return => LoopInv'
<1> SUFFICES ASSUME LoopInv, Return PROVE LoopInv'
  OBVIOUS
<1>1. /\ advancing /\ ~advancing' /\ advancing' = FALSE
      /\ accumulator' = accumulator /\ paused' = paused
      /\ elapsed' = elapsed /\ executed' = executed
      /\ ~(accumulator >= TickLength /\ executed < MaxCatchUp)
  BY DEF Return, Due
<1>2. LoopTypeOK /\ ~paused /\ executed <= MaxCatchUp
  BY <1>1 DEF LoopInv, LoopTypeOK, CatchUpIsBounded
<1> DEFINE time == Least(elapsed, Cap)
<1>3. time \in Nat /\ time <= elapsed /\ time <= Cap
  BY <1>2, CapIsNat, LeastOfNats DEF LoopTypeOK
<1>4. /\ executed * TickLength \in Nat
      /\ (executed + 1) * TickLength = executed * TickLength + TickLength
  BY <1>2, OneMoreTick DEF LoopTypeOK
<1>5. /\ executed * TickLength + accumulator >= time
      /\ executed * TickLength + accumulator < time + TickLength
  BY <1>1 DEF LoopInv, TimeIsSpentOnTicks, Spent
<1> HIDE DEF time
<1>6. accumulator < TickLength
  <2>1. CASE executed < MaxCatchUp
    BY <1>1, <1>2, <2>1, TickAssumption DEF LoopTypeOK
  <2>2. CASE executed = MaxCatchUp
    <3>1. executed * TickLength = Cap
      BY <2>2 DEF Cap
    <3>2. QED
      BY <1>2, <1>3, <1>5, <3>1, CapIsNat, TickAssumption DEF LoopTypeOK
  <2>3. QED
    BY <1>2, <2>1, <2>2, TickAssumption DEF LoopTypeOK
<1>7. accumulator \in 0 .. TickLength - 1
  BY <1>2, <1>6, TickAssumption DEF LoopTypeOK
<1>8. executed * TickLength < elapsed + TickLength
  BY <1>2, <1>3, <1>4, <1>5, TickAssumption DEF LoopTypeOK
<1>9. (executed + 1) * TickLength > Least(elapsed, Cap)
  BY <1>2, <1>3, <1>4, <1>5, <1>6, TickAssumption DEF LoopTypeOK, time
<1>10. CatchUpIsBounded'
  BY <1>1, <1>2, <1>7, <1>8, <1>9 DEF CatchUpIsBounded, Cap
<1>11. QED
  BY <1>1, <1>2, <1>10 DEF LoopInv, LoopTypeOK, TimeIsSpentOnTicks

LEMMA InvSetPaused == LoopInv /\ SetPaused => LoopInv'
<1> SUFFICES ASSUME LoopInv, SetPaused PROVE LoopInv'
  OBVIOUS
<1>1. /\ ~advancing /\ advancing' = advancing /\ elapsed' = elapsed /\ executed' = executed
      /\ paused' \in BOOLEAN
      /\ accumulator' = IF paused' THEN 0 ELSE accumulator
  BY DEF SetPaused
<1>2. accumulator' \in 0 .. TickLength - 1 /\ (paused' => accumulator' = 0)
  <2>1. accumulator \in 0 .. TickLength - 1 /\ 0 \in 0 .. TickLength - 1
    BY <1>1, TickAssumption DEF LoopInv, CatchUpIsBounded
  <2>2. CASE paused'
    BY <1>1, <2>1, <2>2
  <2>3. CASE ~paused'
    BY <1>1, <2>1, <2>3
  <2>4. QED
    BY <2>2, <2>3
<1>3. QED
  BY <1>1, <1>2 DEF LoopInv, LoopTypeOK, TimeIsSpentOnTicks, CatchUpIsBounded, Cap

LEMMA InvStutter ==
    LoopInv /\ (PlayerJumps \/ ScheduleTick \/ UNCHANGED allVars) => LoopInv'
<1> SUFFICES ASSUME LoopInv, PlayerJumps \/ ScheduleTick \/ UNCHANGED allVars PROVE LoopInv'
  OBVIOUS
<1>1. UNCHANGED loopVars
  BY DEF PlayerJumps, ScheduleTick, allVars
<1>2. QED
  BY <1>1 DEF loopVars, LoopInv, LoopTypeOK, TimeIsSpentOnTicks, Spent, CatchUpIsBounded, Cap

\* A call runs the ticks that have come due, never more than the cap, and
\* leaves less than a tick to the next.
THEOREM CatchUpIsAlwaysBounded == SafeSpec => []CatchUpIsBounded
<1>1. LoopInv /\ [LoopNext]_allVars => LoopInv'
  BY InvAdvance, InvLoopTick, InvReturn, InvSetPaused, InvStutter DEF LoopNext
<1>2. LoopInv => CatchUpIsBounded
  BY DEF LoopInv
<1>3. QED
  BY InvInit, <1>1, <1>2, PTL DEF SafeSpec
=============================================================================
