------------------------- MODULE LightEngineProofs --------------------------
(***************************************************************************)
(* The theorems about LightEngine.  LightIsLeast speaks of a rebuild that  *)
(* is done; the inductive invariant says what holds on the way there:      *)
(*   - a cell that was swept is at least as bright as its source (Sown),   *)
(*     and during the sweep it is no brighter, and queued if it shines     *)
(*     (Fresh);                                                            *)
(*   - a cell that is not queued has nothing left to brighten (Passed);    *)
(*   - no cell is brighter than in any distribution that has all sources   *)
(*     and is settled (Justified).                                         *)
(* And the sky light is full light less the opacities above: what sums     *)
(* over a column are, and the recursive function of the scan down it.      *)
(***************************************************************************)
EXTENDS LightEngine, BlockWorldProofs

Swept(p) == p.chunk \in DOMAIN world \ unswept

Sown == \A p \in Cell : Swept(p) => light[p] >= EmissionAt(p)

Fresh == unswept # {} => \A p \in Cell : Swept(p) =>
    /\ light[p] = EmissionAt(p)
    /\ EmissionAt(p) > 0 => p \in queue

Passed == \A p \in Cell : Swept(p) /\ p \notin queue => \A q \in Beside[p] :
    Enters(light[p], q) => light[q] >= light[p] - Attenuation(q)

Justified == \A f \in [Cell -> Light] : Sources(f) /\ Settled(f) =>
    \A p \in Cell : Swept(p) => light[p] <= f[p]

IInv == TypeOK /\ WorldExact(world) /\ Sown /\ Fresh /\ Passed /\ Justified

-----------------------------------------------------------------------------
LEMMA CellFields ==
    ASSUME NEW p \in Cell
    PROVE  p.chunk \in ChunkPos /\ p.column \in Column /\ p.y \in Level /\ p \in Position
BY HeightAssumption DEF Cell, Position, Level

\* What the behavior tables say of the blocks of a world.
LEMMA Behavior ==
    ASSUME IsWorld(world), NEW p \in Cell
    PROVE  /\ OpacityAt(p) \in Light /\ EmissionAt(p) \in Light
           /\ Attenuation(p) \in Nat /\ Attenuation(p) >= 1
           /\ OpacityAt(p) \in Nat
<1>1. BlockAt(world, p).id \in 0..255
  <2>1. CASE p.chunk \in DOMAIN world
    <3>1. world[p.chunk] \in Chunk
      BY <2>1 DEF IsWorld
    <3>2. <<p.column, p.y>> \in Local
      BY CellFields DEF Local
    <3>3. world[p.chunk].ids[<<p.column, p.y>>] \in 0..255
      BY <3>1, <3>2 DEF Chunk
    <3> QED
      BY <2>1, <3>3, SMTT(30) DEF BlockAt, Air
  <2>2. CASE p.chunk \notin DOMAIN world
    BY <2>2 DEF BlockAt, Air
  <2> QED
    BY <2>1, <2>2
<1>2. OpacityAt(p) \in Light /\ EmissionAt(p) \in Light
  BY <1>1, BehaviorAssumption DEF OpacityAt, EmissionAt
<1> QED
  BY <1>2, LightAssumption DEF Light, Attenuation

LEMMA InitIInv == Init => IInv
<1> SUFFICES ASSUME Init PROVE IInv
  OBVIOUS
<1>1. IsWorld(world) /\ WorldExact(world) /\ DOMAIN world = {}
  BY DEF Init, IsWorld, WorldExact, NoChunks
<1>2. light \in [Cell -> Light] /\ DOMAIN sky = Cell
  BY LightAssumption DEF Init, Dark, Light
<1>3. TypeOK
  BY <1>1, <1>2 DEF Init, TypeOK, HasChunk, Dark
<1>4. \A p \in Cell : ~Swept(p)
  BY <1>1 DEF Swept
<1> QED
  BY <1>1, <1>3, <1>4 DEF IInv, Sown, Fresh, Passed, Justified, Init

LEMMA ChangeBlockIInv == IInv /\ ChangeBlock => IInv'
<1> SUFFICES ASSUME IInv, ChangeBlock PROVE IInv'
  OBVIOUS
<1>1. PICK p \in Cell, block \in Blocks : world' = WorldWith(world, p, block)
  BY DEF ChangeBlock
<1>2. IsWorld(world') /\ WorldExact(world')
  BY <1>1, CellFields, WorldWithExact, BlocksAssumption DEF IInv, TypeOK
<1>3. light' \in [Cell -> Light] /\ DOMAIN sky' = Cell
  BY LightAssumption DEF ChangeBlock, IInv, TypeOK, Light
<1>4. queue' = {} /\ unswept' = DOMAIN world'
  BY DEF ChangeBlock, Lit
<1>5. \A q \in Cell : ~HasChunk(q)' => light'[q] = 0 /\ sky'[q] = 0
  BY DEF ChangeBlock, HasChunk
<1>6. TypeOK'
  BY <1>2, <1>3, <1>4, <1>5 DEF TypeOK
<1>7. \A q \in Cell : ~Swept(q)'
  BY <1>4 DEF Swept
<1> QED
  BY <1>2, <1>6, <1>7 DEF IInv, Sown, Fresh, Passed, Justified

LEMMA SweepIInv == IInv /\ Sweep => IInv'
<1> SUFFICES ASSUME IInv, Sweep PROVE IInv'
  OBVIOUS
<1>1. PICK c \in unswept :
         /\ light' = [p \in Cell |-> IF p.chunk = c THEN EmissionAt(p) ELSE light[p]]
         /\ sky' = [p \in Cell |-> IF p.chunk = c THEN SkyLight(c, p.column)[p.y] ELSE sky[p]]
         /\ queue' = queue \cup {p \in Cell : p.chunk = c /\ EmissionAt(p) > 0}
         /\ unswept' = unswept \ {c}
         /\ world' = world
  BY DEF Sweep
<1>2. c \in DOMAIN world /\ unswept # {} /\ IsWorld(world)
  BY DEF IInv, TypeOK
<1>3. \A p \in Cell : /\ EmissionAt(p)' = EmissionAt(p) /\ Attenuation(p)' = Attenuation(p)
                      /\ \A b : Enters(b, p)' = Enters(b, p)
                      /\ HasChunk(p)' = HasChunk(p)
  BY <1>1 DEF EmissionAt, Attenuation, OpacityAt, Enters, HasChunk
<1>4. \A p \in Cell : EmissionAt(p) \in Light
  BY <1>2, Behavior
<1>5. TypeOK'
  <2>1. light' \in [Cell -> Light]
    BY <1>1, <1>4 DEF IInv, TypeOK
  <2>2. \A p \in Cell : ~HasChunk(p) => light'[p] = 0 /\ sky'[p] = 0
    BY <1>1, <1>2 DEF IInv, TypeOK, HasChunk
  <2>3. queue' \subseteq {p \in Cell : HasChunk(p)}
    BY <1>1, <1>2 DEF IInv, TypeOK, HasChunk
  <2> QED
    BY <1>1, <1>3, <2>1, <2>2, <2>3 DEF IInv, TypeOK, HasChunk
<1>6. \A p \in Cell : Swept(p)' <=> Swept(p) \/ p.chunk = c
  BY <1>1, <1>2 DEF Swept
<1>7. \A p \in Cell : Swept(p)' =>
         light'[p] = EmissionAt(p) /\ (EmissionAt(p) > 0 => p \in queue')
  BY <1>1, <1>2, <1>6 DEF IInv, Fresh
<1>8. Sown' /\ Fresh'
  BY <1>3, <1>4, <1>7 DEF Sown, Fresh, Light
<1>9. Passed'
  <2> SUFFICES ASSUME NEW p \in Cell, Swept(p)', p \notin queue', NEW q \in Beside[p]
               PROVE  ~Enters(light[p], q)'
    BY DEF Passed
  <2>1. light'[p] = 0
    BY <1>4, <1>7, LightAssumption DEF Light
  <2>2. q \in Cell /\ Attenuation(q) \in Nat
    BY <1>2, Behavior, BesideAssumption
  <2> QED
    BY <1>3, <2>1, <2>2 DEF Enters
<1>10. Justified'
  <2> SUFFICES ASSUME NEW f \in [Cell -> Light], Sources(f)', NEW p \in Cell, Swept(p)'
               PROVE  light'[p] <= f[p]
    BY DEF Justified
  <2>1. HasChunk(p)
    BY <1>1 DEF Swept, HasChunk
  <2>2. f[p] >= EmissionAt(p)
    BY <1>3, <2>1 DEF Sources
  <2> QED
    BY <1>4, <1>7, <2>2, LightAssumption DEF Light
<1> QED
  BY <1>1, <1>5, <1>8, <1>9, <1>10 DEF IInv, WorldExact

LEMMA SpreadIInv == IInv /\ Spread => IInv'
<1> SUFFICES ASSUME IInv, Spread PROVE IInv'
  OBVIOUS
<1>1. PICK p \in queue :
         /\ light' = [q \in Cell |-> IF q \in Brightened(p) THEN light[p] - Attenuation(q)
                                     ELSE light[q]]
         /\ queue' = (queue \ {p}) \cup Brightened(p)
  BY DEF Spread
<1>2. /\ unswept = {} /\ unswept' = {} /\ world' = world /\ sky' = sky
      /\ IsWorld(world) /\ p \in Cell /\ HasChunk(p)
      /\ light \in [Cell -> Light]
  BY DEF IInv, TypeOK, Spread
<1>3. \A q \in Cell : /\ EmissionAt(q)' = EmissionAt(q) /\ Attenuation(q)' = Attenuation(q)
                      /\ \A b : Enters(b, q)' = Enters(b, q)
                      /\ HasChunk(q)' = HasChunk(q)
                      /\ Swept(q) = HasChunk(q) /\ Swept(q)' = HasChunk(q)
  BY <1>2 DEF EmissionAt, Attenuation, OpacityAt, Enters, HasChunk, Swept
<1>4. \A q \in Cell : /\ light[q] \in Nat /\ light[q] <= MaxLight
                      /\ Attenuation(q) \in Nat /\ Attenuation(q) >= 1
  BY <1>2, Behavior, LightAssumption DEF Light
<1>5. \A q \in Brightened(p) :
         /\ q \in Cell /\ q \in Beside[p] /\ HasChunk(q) /\ Enters(light[p], q)
         /\ light[p] > Attenuation(q)
         /\ light[p] - Attenuation(q) > light[q]
         /\ light'[q] = light[p] - Attenuation(q)
  BY <1>1, <1>2, BesideAssumption DEF Brightened, Enters
<1>6. \A q \in Cell : q \notin Brightened(p) => light'[q] = light[q]
  BY <1>1
<1>7. \A q \in Cell : light'[q] \in Light /\ light'[q] >= light[q]
  <2> SUFFICES ASSUME NEW q \in Cell PROVE light'[q] \in Light /\ light'[q] >= light[q]
    OBVIOUS
  <2>1. CASE q \in Brightened(p)
    BY <1>2, <1>4, <1>5, <2>1, LightAssumption DEF Light
  <2>2. CASE q \notin Brightened(p)
    BY <1>2, <1>4, <1>6, <2>2
  <2> QED
    BY <2>1, <2>2
<1>8. TypeOK'
  <2>1. light' \in [Cell -> Light]
    BY <1>1, <1>7
  <2>2. \A q \in Cell : ~HasChunk(q) => light'[q] = 0
    BY <1>5, <1>6 DEF IInv, TypeOK
  <2>3. queue' \subseteq {q \in Cell : HasChunk(q)}
    BY <1>1, <1>5 DEF IInv, TypeOK
  <2> QED
    BY <1>2, <2>1, <2>2, <2>3 DEF IInv, TypeOK, HasChunk
<1>9. Sown'
  <2> SUFFICES ASSUME NEW q \in Cell, HasChunk(q) PROVE light'[q] >= EmissionAt(q)
    BY <1>3 DEF Sown
  <2>1. light[q] >= EmissionAt(q)
    BY <1>3 DEF IInv, Sown
  <2>2. EmissionAt(q) \in Light
    BY <1>2, Behavior
  <2> QED
    BY <1>4, <1>7, <2>1, <2>2, LightAssumption DEF Light
<1>10. Fresh'
  BY <1>2 DEF Fresh
<1>11. Passed'
  <2> SUFFICES ASSUME NEW r \in Cell, HasChunk(r), r \notin queue', NEW q \in Beside[r],
                      Enters(light'[r], q)
               PROVE  light'[q] >= light'[r] - Attenuation(q)
    <3>1. \A r \in Cell : \A q \in Beside[r] : q \in Cell
      BY BesideAssumption
    <3> QED
      BY <1>3, <3>1 DEF Passed
  <2>1. q \in Cell
    BY BesideAssumption
  <2>2. r \notin Brightened(p) /\ light'[r] = light[r]
    BY <1>1, <1>6
  <2>3. CASE r = p
    <3>1. CASE q \in Brightened(p)
      BY <1>4, <1>5, <2>1, <2>2, <2>3, <3>1
    <3>2. CASE q \notin Brightened(p)
      <4>1. light[p] > 1
        BY <1>4, <2>1, <2>2, <2>3, LightAssumption DEF Enters
      <4>2. ~(light[p] - Attenuation(q) > light[q])
        BY <2>2, <2>3, <3>2, <4>1 DEF Brightened
      <4> QED
        BY <1>4, <1>6, <2>1, <2>2, <2>3, <3>2, <4>2
    <3> QED
      BY <3>1, <3>2
  <2>4. CASE r # p
    <3>1. r \notin queue
      BY <1>1, <2>4
    <3>2. light[q] >= light[r] - Attenuation(q)
      BY <1>3, <2>2, <3>1 DEF IInv, Passed
    <3>3. light'[q] \in Nat
      BY <1>7, <2>1, LightAssumption DEF Light
    <3> QED
      BY <1>4, <1>7, <2>1, <2>2, <3>2, <3>3
  <2> QED
    BY <2>3, <2>4
<1>12. Justified'
  <2> SUFFICES ASSUME NEW f \in [Cell -> Light], Sources(f), Settled(f),
                      NEW q \in Cell, HasChunk(q)
               PROVE  light'[q] <= f[q]
    <3>1. \A f \in [Cell -> Light] : Sources(f)' => Sources(f)
      BY <1>3 DEF Sources
    <3>2. \A f \in [Cell -> Light] : Settled(f)' => Settled(f)
      <4>1. \A r \in Cell : \A t \in Beside[r] : t \in Cell
        BY BesideAssumption
      <4> QED
        BY <1>3, <4>1 DEF Settled
    <3> QED
      BY <1>3, <3>1, <3>2 DEF Justified
  <2>1. \A r \in Cell : HasChunk(r) => light[r] <= f[r]
    BY <1>3 DEF IInv, Justified
  <2>2. \A r \in Cell : f[r] \in Nat
    BY LightAssumption DEF Light
  <2>3. CASE q \in Brightened(p)
    <3>1. light[p] <= f[p] /\ light[p] > Attenuation(q) /\ q \in Beside[p]
      BY <1>2, <1>5, <2>1, <2>3
    <3>2. f[p] > Attenuation(q)
      BY <1>2, <1>4, <2>2, <3>1
    <3>3. Enters(f[p], q)
      BY <1>5, <2>3, <3>2 DEF Enters
    <3>4. f[q] >= f[p] - Attenuation(q)
      BY <1>2, <3>1, <3>3 DEF Settled
    <3> QED
      BY <1>2, <1>4, <1>5, <2>2, <2>3, <3>1, <3>4
  <2>4. CASE q \notin Brightened(p)
    BY <1>6, <2>1, <2>4
  <2> QED
    BY <2>3, <2>4
<1> QED
  BY <1>2, <1>8, <1>9, <1>10, <1>11, <1>12 DEF IInv, WorldExact

LEMMA StutterIInv == IInv /\ UNCHANGED vars => IInv'
BY DEF IInv, TypeOK, WorldExact, Sown, Fresh, Passed, Justified, vars, Swept, HasChunk,
       EmissionAt, OpacityAt, Attenuation, Enters, Sources, Settled

LEMMA SpecIInv == Spec => []IInv
<1>1. IInv /\ [Next]_vars => IInv'
  BY ChangeBlockIInv, SweepIInv, SpreadIInv, StutterIInv DEF Next
<1> QED
  BY InitIInv, <1>1, PTL DEF Spec

\* Block light stays between 0 and the brightest level and inside the chunks
\* that exist.
THEOREM TypeCorrect == Spec => []TypeOK
<1>1. IInv => TypeOK
  BY DEF IInv
<1> QED
  BY <1>1, SpecIInv, PTL

\* What rebuild leaves behind is the least settled distribution of light, for
\* every world, every table of opacities and emissions and every order in
\* which chunks and cells are taken.
THEOREM LightIsAlwaysLeast == Spec => []LightIsLeast
<1>1. IInv => LightIsLeast
  <2> SUFFICES ASSUME IInv, Lit PROVE Sources(light) /\ Settled(light) /\
                 \A f \in [Cell -> Light] : Sources(f) /\ Settled(f) =>
                    \A p \in Cell : light[p] <= f[p]
    BY DEF LightIsLeast
  <2>1. \A p \in Cell : Swept(p) = HasChunk(p)
    BY DEF Lit, Swept, HasChunk
  <2>2. Sources(light)
    BY <2>1 DEF IInv, Sown, Sources
  <2>3. Settled(light)
    BY <2>1 DEF IInv, Passed, Settled, Lit
  <2>4. ASSUME NEW f \in [Cell -> Light], Sources(f), Settled(f), NEW p \in Cell
        PROVE  light[p] <= f[p]
    <3>1. CASE HasChunk(p)
      BY <2>1, <2>4, <3>1 DEF IInv, Justified
    <3>2. CASE ~HasChunk(p)
      <4>1. light[p] = 0 /\ f[p] \in Light
        BY <3>2 DEF IInv, TypeOK
      <4> QED
        BY <4>1, LightAssumption DEF Light
    <3> QED
      BY <3>1, <3>2
  <2> QED
    BY <2>2, <2>3, <2>4
<1> QED
  BY <1>1, SpecIInv, PTL
-----------------------------------------------------------------------------
(* Sums over finite sets.                                                  *)

\* Induction, for a property that is a set.
LEMMA AllNaturals ==
    ASSUME NEW T, T \subseteq Nat, 0 \in T, \A n \in T : n + 1 \in T
    PROVE  T = Nat
<1> SUFFICES ASSUME Nat \ T # {} PROVE FALSE
  OBVIOUS
<1>1. PICK m \in Nat \ T : \A n \in Nat \ T : m <= n
  BY LeastNatural
<1>2. m - 1 \in Nat /\ m - 1 + 1 = m /\ ~(m <= m - 1)
  BY <1>1
<1>3. m - 1 \in T
  BY <1>1, <1>2
<1> QED
  BY <1>1, <1>2, <1>3

\* The element a fold takes from a set, and the set without it.
First(s) == CHOOSE x \in s : TRUE
Others(s) == s \ {First(s)}

\* f adds up what w gives the elements of a set, one after the other.
AddsUp(f, w, S) == f = [s \in SUBSET S |-> IF s = {} THEN 0 ELSE w[First(s)] + f[Others(s)]]

LEMMA OneLess ==
    ASSUME NEW S, IsFiniteSet(S), NEW s \in SUBSET S, NEW x \in s
    PROVE  /\ IsFiniteSet(s) /\ s \ {x} \in SUBSET S /\ IsFiniteSet(s \ {x})
           /\ Cardinality(s) \in Nat /\ Cardinality(s \ {x}) \in Nat
           /\ Cardinality(s \ {x}) + 1 = Cardinality(s)
<1>1. IsFiniteSet(s)
  BY FS_Subset
<1>2. Cardinality(s) \in Nat /\ Cardinality(s \ {x}) \in Nat /\ IsFiniteSet(s \ {x})
  BY <1>1, FS_CardinalityType, FS_Subset
<1>3. Cardinality(s \ {x}) = Cardinality(s) - 1
  BY <1>1, FS_RemoveElement
<1> QED
  BY <1>1, <1>2, <1>3

LEMMA FirstIsIn == \A s : s # {} => First(s) \in s
BY DEF First

\* A sum exists: one of the sets of up to n elements extends to those of n + 1.
LEMMA SumExists ==
    ASSUME NEW S, IsFiniteSet(S), NEW w \in [S -> Nat]
    PROVE  \E f \in [SUBSET S -> Nat] : AddsUp(f, w, S)
<1> DEFINE Small(n) == {s \in SUBSET S : Cardinality(s) <= n}
           Sums(n, f) == /\ f \in [Small(n) -> Nat]
                         /\ \A s \in Small(n) :
                               f[s] = IF s = {} THEN 0 ELSE w[First(s)] + f[Others(s)]
           T == {n \in Nat : \E f : Sums(n, f)}
<1>1. 0 \in T
  <2>1. ASSUME NEW s \in Small(0) PROVE s = {}
    <3> SUFFICES ASSUME NEW x \in s PROVE FALSE
      OBVIOUS
    <3>1. Cardinality(s \ {x}) \in Nat /\ Cardinality(s \ {x}) + 1 = Cardinality(s)
      BY OneLess
    <3>2. Cardinality(s) <= 0
      OBVIOUS
    <3> QED
      BY <3>1, <3>2
  <2>2. Sums(0, [s \in Small(0) |-> 0])
    BY <2>1
  <2> QED
    BY <2>2
<1>2. ASSUME NEW n \in T PROVE n + 1 \in T
  <2>1. PICK f : Sums(n, f)
    OBVIOUS
  <2>2. ASSUME NEW s \in Small(n + 1), s # {}
        PROVE  Others(s) \in Small(n) /\ w[First(s)] \in Nat
    <3>1. First(s) \in s /\ s \in SUBSET S
      BY <2>2, FirstIsIn
    <3>2. Cardinality(Others(s)) + 1 = Cardinality(s) /\ Others(s) \in SUBSET S
          /\ Cardinality(Others(s)) \in Nat
      BY <3>1, OneLess DEF Others
    <3> QED
      BY <3>1, <3>2
  <2>3. Small(n) \subseteq Small(n + 1)
    <3>1. \A s \in SUBSET S : Cardinality(s) \in Nat
      BY FS_Subset, FS_CardinalityType
    <3> QED
      BY <3>1
  <2> DEFINE g == [s \in Small(n + 1) |-> IF s = {} THEN 0 ELSE w[First(s)] + f[Others(s)]]
  <2>4. g \in [Small(n + 1) -> Nat]
    <3>1. ASSUME NEW s \in Small(n + 1), s # {} PROVE w[First(s)] + f[Others(s)] \in Nat
      BY <2>1, <2>2, <3>1
    <3> QED
      BY <3>1
  <2>5. ASSUME NEW s \in Small(n) PROVE g[s] = f[s]
    BY <2>1, <2>3
  <2>6. ASSUME NEW s \in Small(n + 1)
        PROVE  g[s] = IF s = {} THEN 0 ELSE w[First(s)] + g[Others(s)]
    BY <2>2, <2>5
  <2>7. Sums(n + 1, g)
    BY <2>4, <2>6
  <2> HIDE DEF Sums
  <2>8. n + 1 \in Nat /\ \E h : Sums(n + 1, h)
    BY <2>7
  <2> QED
    BY <2>8
<1> HIDE DEF T
<1>3. T = Nat
  BY <1>1, <1>2, AllNaturals DEF T
<1>4. Cardinality(S) \in Nat /\ Small(Cardinality(S)) = SUBSET S
  BY FS_CardinalityType, FS_Subset
<1>5. PICK f : Sums(Cardinality(S), f)
  BY <1>3, <1>4 DEF T
<1>6. f \in [SUBSET S -> Nat] /\ AddsUp(f, w, S)
  BY <1>4, <1>5 DEF AddsUp
<1> QED
  BY <1>6

\* The sum of a part of S is that of the part as a part of S.
LEMMA SumOfPart ==
    ASSUME NEW S, IsFiniteSet(S), NEW w \in [S -> Nat],
           NEW f, AddsUp(f, w, S), NEW P \in SUBSET S, NEW g, AddsUp(g, w, P)
    PROVE  g[P] = f[P]
<1> DEFINE T == {n \in Nat : \A s \in SUBSET P : Cardinality(s) = n => g[s] = f[s]}
<1>1. \A s \in SUBSET P : /\ g[s] = IF s = {} THEN 0 ELSE w[First(s)] + g[Others(s)]
                          /\ f[s] = IF s = {} THEN 0 ELSE w[First(s)] + f[Others(s)]
  BY DEF AddsUp
<1>2. IsFiniteSet(P)
  BY FS_Subset
<1>3. ASSUME NEW s \in SUBSET P, s # {}
      PROVE  /\ Others(s) \in SUBSET P /\ Cardinality(Others(s)) \in Nat
             /\ Cardinality(Others(s)) + 1 = Cardinality(s)
  BY <1>2, <1>3, FirstIsIn, OneLess DEF Others
<1>4. 0 \in T
  <2>1. ASSUME NEW s \in SUBSET P, Cardinality(s) = 0 PROVE s = {}
    BY <1>3, <2>1
  <2> QED
    BY <1>1, <2>1
<1>5. ASSUME NEW n \in T PROVE n + 1 \in T
  <2>1. ASSUME NEW s \in SUBSET P, Cardinality(s) = n + 1 PROVE g[s] = f[s]
    <3>1. CASE s = {}
      BY <1>1, <3>1
    <3>2. CASE s # {}
      <4>1. Others(s) \in SUBSET P /\ Cardinality(Others(s)) = n
        BY <1>3, <2>1, <3>2
      <4>2. g[Others(s)] = f[Others(s)]
        BY <4>1
      <4> QED
        BY <1>1, <3>2, <4>2
    <3> QED
      BY <3>1, <3>2
  <2> QED
    BY <2>1
<1> HIDE DEF T
<1>6. T = Nat
  BY <1>4, <1>5, AllNaturals DEF T
<1>7. Cardinality(P) \in T
  BY <1>2, <1>6, FS_CardinalityType
<1> QED
  BY <1>7 DEF T

\* In whatever order: any element may be the first.
LEMMA SumOfOne ==
    ASSUME NEW S, IsFiniteSet(S), NEW w \in [S -> Nat],
           NEW f \in [SUBSET S -> Nat], AddsUp(f, w, S), NEW s \in SUBSET S, NEW x \in s
    PROVE  f[s] = w[x] + f[s \ {x}]
<1> DEFINE T == {n \in Nat : \A r \in SUBSET S : \A y \in r :
                    Cardinality(r) = n => f[r] = w[y] + f[r \ {y}]}
<1>1. \A r \in SUBSET S : r # {} => f[r] = w[First(r)] + f[Others(r)]
  BY DEF AddsUp
<1>2. 0 \in T
  <2>1. ASSUME NEW r \in SUBSET S, NEW y \in r PROVE Cardinality(r) # 0
    <3>1. Cardinality(r \ {y}) \in Nat /\ Cardinality(r \ {y}) + 1 = Cardinality(r)
      BY OneLess
    <3> QED
      BY <3>1
  <2> QED
    BY <2>1
<1>3. ASSUME NEW n \in T PROVE n + 1 \in T
  <2> SUFFICES ASSUME NEW r \in SUBSET S, NEW y \in r, Cardinality(r) = n + 1
               PROVE  f[r] = w[y] + f[r \ {y}]
    OBVIOUS
  <2> DEFINE first == First(r)
  <2>1. first \in r /\ f[r] = w[first] + f[r \ {first}]
    BY <1>1, FirstIsIn DEF Others
  <2> HIDE DEF first
  <2>2. CASE y = first
    BY <2>1, <2>2
  <2>3. CASE y # first
    <3> DEFINE u == r \ {first}
               v == r \ {y}
               both == u \ {y}
    <3>1. both = v \ {first} /\ y \in u /\ first \in v /\ u \in SUBSET S /\ v \in SUBSET S
          /\ both \in SUBSET S
      BY <2>1, <2>3
    <3>2. Cardinality(u) = n /\ Cardinality(v) = n
      <4>1. Cardinality(u) + 1 = Cardinality(r) /\ Cardinality(v) + 1 = Cardinality(r)
            /\ Cardinality(u) \in Nat /\ Cardinality(v) \in Nat
        BY <2>1, OneLess
      <4> QED
        BY <4>1
    <3> HIDE DEF u, v, both
    <3>3. f[u] = w[y] + f[u \ {y}] /\ f[v] = w[first] + f[v \ {first}]
      BY <3>1, <3>2
    <3>4. f[u] = w[y] + f[both] /\ f[v] = w[first] + f[both]
      BY <3>1, <3>3 DEF both
    <3>5. w[y] \in Nat /\ w[first] \in Nat /\ f[both] \in Nat
      BY <2>1, <3>1
    <3>6. f[r] = w[first] + f[u]
      BY <2>1 DEF u
    <3>7. f[r] = w[y] + f[v]
      BY <3>4, <3>5, <3>6
    <3> QED
      BY <3>7 DEF v
  <2> QED
    BY <2>2, <2>3
<1> HIDE DEF T
<1>4. T = Nat
  BY <1>2, <1>3, AllNaturals DEF T
<1>5. Cardinality(s) \in T
  BY <1>4, OneLess
<1> QED
  BY <1>5 DEF T
-----------------------------------------------------------------------------
(* Sky light.                                                              *)

Above(p) == {q \in Cell : q.chunk = p.chunk /\ q.column = p.column /\ q.y >= p.y}
Overhead(p) == MapThenSumSet(OpacityAt, Above(p))
Pillar(c, column) == {q \in Cell : q.chunk = c /\ q.column = column}

LEMMA PillarIsFinite ==
    ASSUME NEW c \in ChunkPos, NEW column \in Column
    PROVE  IsFiniteSet(Pillar(c, column))
<1> DEFINE f == [y \in Level |-> [chunk |-> c, column |-> column, y |-> y]]
<1>1. IsFiniteSet(Level)
  BY HeightAssumption, FS_Interval DEF Level
<1>2. ASSUME NEW q \in Pillar(c, column) PROVE \E y \in Level : f[y] = q
  <2>1. q = [chunk |-> c, column |-> column, y |-> q.y] /\ q.y \in Level
    BY DEF Pillar, Cell
  <2> QED
    BY <2>1
<1>3. f \in Surjection(Level, Pillar(c, column))
  <2>1. \A y \in Level : f[y] \in Pillar(c, column)
    BY DEF Pillar, Cell
  <2>2. f \in [Level -> Pillar(c, column)]
    BY <2>1
  <2> HIDE DEF f
  <2> QED
    BY <1>2, <2>2 DEF Surjection
<1> QED
  BY <1>1, <1>3, FS_Surjection

\* What is overhead of a cell, in one sum for the whole column.
LEMMA OverheadIsSum ==
    ASSUME IsWorld(world), NEW c \in ChunkPos, NEW column \in Column,
           NEW w, w = [q \in Pillar(c, column) |-> OpacityAt(q)],
           NEW f \in [SUBSET Pillar(c, column) -> Nat], AddsUp(f, w, Pillar(c, column)),
           NEW p \in Pillar(c, column)
    PROVE  Overhead(p) = f[Above(p)]
<1> DEFINE S == Pillar(c, column)
           A == Above(p)
           Step(g) == [s \in SUBSET A |-> IF s = {} THEN 0
                          ELSE OpacityAt(CHOOSE x \in s : TRUE) + g[s \ {CHOOSE x \in s : TRUE}]]
           sum == CHOOSE g : g = Step(g)
<1>1. A \subseteq S /\ IsFiniteSet(S)
  BY PillarIsFinite DEF Above, Pillar
<1>2. Overhead(p) = sum[A]
  BY DEF Overhead, MapThenSumSet, MapThenFoldSet
<1>3. w \in [S -> Nat]
  BY Behavior DEF Pillar
<1>4. ASSUME NEW s \in SUBSET A, s # {}
      PROVE  w[First(s)] = OpacityAt(CHOOSE x \in s : TRUE)
  BY <1>1, <1>4, FirstIsIn DEF First
<1>5. ASSUME NEW g PROVE g = Step(g) <=> AddsUp(g, w, A)
  <2>1. ASSUME NEW s \in SUBSET A
        PROVE  (IF s = {} THEN 0 ELSE OpacityAt(CHOOSE x \in s : TRUE) + g[s \ {CHOOSE x \in s : TRUE}])
                   = (IF s = {} THEN 0 ELSE w[First(s)] + g[Others(s)])
    BY <1>4 DEF First, Others
  <2>2. Step(g) = [s \in SUBSET A |-> IF s = {} THEN 0 ELSE w[First(s)] + g[Others(s)]]
    BY <2>1
  <2> QED
    BY <2>2 DEF AddsUp
<1>6. AddsUp([s \in SUBSET A |-> f[s]], w, A)
  <2> DEFINE h == [s \in SUBSET A |-> f[s]]
  <2>1. ASSUME NEW s \in SUBSET A
        PROVE  h[s] = IF s = {} THEN 0 ELSE w[First(s)] + h[Others(s)]
    BY <1>1 DEF AddsUp, Others
  <2> QED
    BY <2>1 DEF AddsUp
<1>7. AddsUp(sum, w, A)
  BY <1>5, <1>6
<1> HIDE DEF sum, A, S
<1>8. sum[A] = f[A]
  BY <1>1, <1>3, <1>7, SumOfPart DEF S
<1> QED
  BY <1>2, <1>8 DEF A

\* From the sky down, level by level, comes what the sum lets through.
LEMMA SkyLightIsDimmed ==
    ASSUME IsWorld(world), NEW p \in Cell
    PROVE  SkyLight(p.chunk, p.column)[p.y] = Dimmed(MaxLight, Overhead(p))
<1> DEFINE c == p.chunk
           column == p.column
           S == Pillar(c, column)
           w == [q \in S |-> OpacityAt(q)]
           cell(y) == [chunk |-> c, column |-> column, y |-> y]
           over(y) == {q \in S : q.y >= y}
<1>1. c \in ChunkPos /\ column \in Column /\ p.y \in Level /\ p = cell(p.y)
      /\ Height \in Nat \ {0} /\ Level = 0..(Height - 1)
  BY CellFields, HeightAssumption DEF Cell, Level
<1>2. IsFiniteSet(S)
  BY <1>1, PillarIsFinite
<1>3. w \in [S -> Nat]
  BY Behavior DEF Pillar
<1>4. PICK f \in [SUBSET S -> Nat] : AddsUp(f, w, S)
  BY <1>2, <1>3, SumExists
<1>5. ASSUME NEW y \in Level
      PROVE  /\ cell(y) \in over(y) /\ over(y) \ {cell(y)} = over(y + 1)
             /\ w[cell(y)] = OpacityAt(cell(y)) /\ w[cell(y)] \in Nat
  <2>1. cell(y) \in S /\ cell(y) \in Cell
    BY <1>1 DEF Pillar, Cell
  <2>2. ASSUME NEW q \in S PROVE q.y \in Level /\ (q.y = y => q = cell(y))
    BY DEF Pillar, Cell
  <2>3. y \in Nat /\ \A i \in Level : i \in Nat /\ (i >= y <=> i >= y + 1 \/ i = y)
    BY <1>1
  <2>4. over(y) \ {cell(y)} = over(y + 1)
    BY <1>1, <2>2, <2>3
  <2> QED
    BY <1>1, <1>3, <2>1, <2>3, <2>4
<1>6. ASSUME NEW y \in Level PROVE f[over(y)] = OpacityAt(cell(y)) + f[over(y + 1)]
  <2>1. over(y) \in SUBSET S
    OBVIOUS
  <2> HIDE DEF S, w, over, cell
  <2>2. f[over(y)] = w[cell(y)] + f[over(y) \ {cell(y)}]
    BY <1>2, <1>3, <1>4, <1>5, <2>1, SumOfOne
  <2> QED
    BY <1>5, <2>2
<1>7. f[over(Height)] = 0
  <2>1. over(Height) = {}
    BY <1>1 DEF Pillar, Cell
  <2> QED
    BY <1>4, <2>1 DEF AddsUp
<1>8. \A y \in 0..Height : f[over(y)] \in Nat
  BY <1>4
<1> DEFINE Shine(g) == [y \in 0..Height |-> IF y = Height THEN MaxLight
                                            ELSE Dimmed(g[y + 1], OpacityAt(cell(y)))]
           bright == [y \in 0..Height |-> Dimmed(MaxLight, f[over(y)])]
           shine == CHOOSE g : g = Shine(g)
<1>9. SkyLight(c, column) = shine
  BY DEF SkyLight
<1>10. bright = Shine(bright)
  <2>1. bright[Height] = MaxLight
    BY <1>1, <1>7, LightAssumption DEF Dimmed
  <2>2. ASSUME NEW y \in 0..Height, y # Height
        PROVE  bright[y] = Dimmed(bright[y + 1], OpacityAt(cell(y)))
    <3>1. y \in Level /\ y + 1 \in 0..Height
      BY <1>1, <2>2
    <3>2. /\ f[over(y)] = OpacityAt(cell(y)) + f[over(y + 1)]
          /\ f[over(y + 1)] \in Nat /\ OpacityAt(cell(y)) \in Nat
      BY <1>5, <1>6, <1>8, <3>1
    <3> DEFINE o == OpacityAt(cell(y))
               n == f[over(y + 1)]
               m == f[over(y)]
    <3>3. bright[y] = Dimmed(MaxLight, m) /\ bright[y + 1] = Dimmed(MaxLight, n)
      BY <3>1
    <3>4. m = o + n /\ o \in Nat /\ n \in Nat
      BY <3>2
    <3> HIDE DEF o, n, m
    <3>5. Dimmed(MaxLight, o + n) = Dimmed(Dimmed(MaxLight, n), o)
      BY <3>4, LightAssumption DEF Dimmed
    <3> QED
      BY <3>3, <3>4, <3>5 DEF o
  <2> QED
    BY <2>1, <2>2
<1>11. shine = Shine(shine)
  BY <1>10
<1> HIDE DEF bright, shine
<1>12. \A y \in 0..Height : /\ shine[y] = IF y = Height THEN MaxLight
                                          ELSE Dimmed(shine[y + 1], OpacityAt(cell(y)))
                            /\ bright[y] = IF y = Height THEN MaxLight
                                           ELSE Dimmed(bright[y + 1], OpacityAt(cell(y)))
  BY <1>10, <1>11
<1> DEFINE T == {n \in Nat : n <= Height => shine[Height - n] = bright[Height - n]}
<1>13. 0 \in T
  <2>1. Height - 0 = Height /\ Height \in 0..Height
    BY <1>1
  <2> QED
    BY <1>12, <2>1
<1>14. ASSUME NEW n \in T PROVE n + 1 \in T
  <2> SUFFICES ASSUME n + 1 <= Height
               PROVE  shine[Height - (n + 1)] = bright[Height - (n + 1)]
    OBVIOUS
  <2> DEFINE y == Height - (n + 1)
  <2>1. y \in 0..Height /\ y # Height /\ y + 1 = Height - n /\ n <= Height
    BY <1>1
  <2>2. shine[y + 1] = bright[y + 1]
    BY <2>1
  <2> HIDE DEF y
  <2>3. shine[y] = bright[y]
    BY <1>12, <2>1, <2>2
  <2> QED
    BY <2>3 DEF y
<1> HIDE DEF T
<1>15. T = Nat
  BY <1>13, <1>14, AllNaturals DEF T
<1>16. shine[p.y] = bright[p.y]
  <2> DEFINE n == Height - p.y
  <2>1. n \in Nat /\ n <= Height /\ Height - n = p.y
    BY <1>1
  <2> HIDE DEF n
  <2>2. n \in T
    BY <1>15, <2>1
  <2> QED
    BY <2>1, <2>2 DEF T
<1>17. bright[p.y] = Dimmed(MaxLight, f[over(p.y)])
  BY <1>1 DEF bright
<1>18. over(p.y) = Above(p)
  BY DEF Above, Pillar
<1>19. Overhead(p) = f[Above(p)]
  <2>1. p \in S
    BY DEF Pillar
  <2> QED
    BY <1>1, <1>4, <2>1, OverheadIsSum
<1> QED
  BY <1>9, <1>16, <1>17, <1>18, <1>19

\* The sky light of what was swept is of the blocks there are.
SkySwept == \A p \in Cell : Swept(p) => sky[p] = Dimmed(MaxLight, Overhead(p))

LEMMA SkyNext == IInv /\ SkySwept /\ [Next]_vars => SkySwept'
<1> SUFFICES ASSUME IInv, SkySwept, [Next]_vars PROVE SkySwept'
  OBVIOUS
<1>1. CASE ChangeBlock
  BY <1>1 DEF ChangeBlock, SkySwept, Swept
<1>2. ASSUME world' = world, NEW p \in Cell PROVE Overhead(p)' = Overhead(p)
  BY <1>2 DEF Overhead, MapThenSumSet, MapThenFoldSet, OpacityAt, Above
<1>3. CASE Sweep
  <2>1. PICK c \in unswept :
            /\ sky' = [p \in Cell |-> IF p.chunk = c THEN SkyLight(c, p.column)[p.y] ELSE sky[p]]
            /\ unswept' = unswept \ {c} /\ world' = world
    BY <1>3 DEF Sweep
  <2>2. ASSUME NEW p \in Cell, Swept(p)' PROVE sky'[p] = Dimmed(MaxLight, Overhead(p))
    <3>1. CASE p.chunk = c
      BY <2>1, <3>1, SkyLightIsDimmed DEF IInv, TypeOK
    <3>2. CASE p.chunk # c
      BY <2>1, <2>2, <3>2 DEF SkySwept, Swept
    <3> QED
      BY <3>1, <3>2
  <2> QED
    BY <1>2, <2>1, <2>2 DEF SkySwept
<1>4. CASE UNCHANGED <<world, sky, unswept>>
  BY <1>2, <1>4 DEF SkySwept, Swept
<1> QED
  BY <1>1, <1>3, <1>4 DEF Next, Spread, vars

\* The sky light is what the blocks let through, for worlds of any height
\* and any opacities.
THEOREM SkyComesThrough == Spec => []SkyIsWhatComesThrough
<1>1. Init => SkySwept
  BY DEF Init, SkySwept, Swept, NoChunks
<1>2. SkySwept => SkyIsWhatComesThrough
  BY DEF SkySwept, SkyIsWhatComesThrough, Swept, HasChunk, Lit, Overhead, Above
<1> QED
  BY <1>1, <1>2, SkyNext, SpecIInv, PTL DEF Spec
=============================================================================
