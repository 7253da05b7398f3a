-------------------------- MODULE BlockWorldProofs --------------------------
(***************************************************************************)
(* What a write does to a chunk and to a world, for every number of        *)
(* chunks, columns and levels and every raw block: types are kept, both    *)
(* caches stay exact, and exactly one cell changes what it shows.          *)
(*                                                                         *)
(* The theorems are about World.  The types and the caches depend on each  *)
(* other: that a height stays below the top of the chunk needs the height  *)
(* to be exact, and that dropping a chunk loses nothing needs the count to *)
(* be, so they are proved together as the inductive invariant WorldIInv.   *)
(***************************************************************************)
EXTENDS BlockWorld, FiniteSetTheorems, WellFoundedInduction, TLAPS

\* A set of naturals that is not empty has a least element.
LEMMA LeastNatural ==
    ASSUME NEW T, T \subseteq Nat, T # {}
    PROVE  \E m \in T : \A n \in T : m <= n
<1>1. PICK m \in T : \A n \in T : ~ (<<n, m>> \in OpToRel(<, Nat))
  BY NatLessThanWellFounded, WFMin
<1>2. ASSUME NEW n \in T PROVE m <= n
  <2>1. m \in Nat /\ n \in Nat
    OBVIOUS
  <2>2. ~ (n < m)
    BY <1>1, <2>1 DEF OpToRel
  <2> QED
    BY <2>1, <2>2
<1> QED
  BY <1>2

\* recompute_height finds the top of a column whose blocks from y up are air.
LEMMA ScanDownFindsTop ==
    ASSUME NEW ids \in [Local -> 0..255], NEW column \in Column, NEW y \in 0..Height,
           \A k \in Level : k >= y => ids[<<column, k>>] = 0
    PROVE  /\ ScanDown(ids, column, y) \in 0..y
           /\ IsTop(ids, column, ScanDown(ids, column, y))
<1> DEFINE Clear(h) == \A k \in h..(y - 1) : ids[<<column, k>>] = 0
           T == {h \in 0..y : Clear(h)}
<1>1. T \subseteq Nat /\ y \in T
  BY HeightAssumption
<1>2. PICK h \in T : \A n \in T : h <= n
  BY <1>1, LeastNatural, ZenonT(40)
<1>3. h # 0 => ids[<<column, h - 1>>] # 0
  <2>1. ASSUME h # 0, ids[<<column, h - 1>>] = 0 PROVE FALSE
    <3>1. h - 1 \in 0..y
      BY <2>1
    <3>2. Clear(h - 1)
      BY <2>1, <1>2, HeightAssumption
    <3>3. h <= h - 1
      BY <3>1, <3>2, <1>2
    <3> QED
      BY <3>3
  <2> QED
    BY <2>1
<1>4. \E g \in 0..y : /\ g # 0 => ids[<<column, g - 1>>] # 0
                      /\ \A k \in g..(y - 1) : ids[<<column, k>>] = 0
  BY <1>2, <1>3
<1> DEFINE s == ScanDown(ids, column, y)
<1>5. /\ s \in 0..y
      /\ s # 0 => ids[<<column, s - 1>>] # 0
      /\ \A k \in s..(y - 1) : ids[<<column, k>>] = 0
  BY <1>4 DEF ScanDown
<1>6. ASSUME NEW k \in Level, k >= s PROVE ids[<<column, k>>] = 0
  BY <1>5, <1>6, HeightAssumption DEF Level
<1> QED
  BY <1>5, <1>6 DEF IsTop

LEMMA LocalFinite == IsFiniteSet(Local)
<1>1. IsFiniteSet(Level)
  BY FS_Interval, HeightAssumption DEF Level
<1> QED
  BY <1>1, FS_Product, ColumnAssumption DEF Local

LEMMA StoredType ==
    ASSUME NEW block \in RawBlock
    PROVE  Stored(block) \in Block
BY DEF Stored, RawBlock, Block

\* Writing a block keeps a chunk well formed.
LEMMA ChunkWithType ==
    ASSUME NEW chunk \in Chunk, ChunkExact(chunk),
           NEW column \in Column, NEW y \in Level, NEW block \in RawBlock
    PROVE  ChunkWith(chunk, column, y, block) \in Chunk
<1> DEFINE l == <<column, y>>
           old == chunk.ids[l]
           new == Stored(block).id
           ids == [chunk.ids EXCEPT ![l] = new]
           h == HeightAfter(chunk, ids, column, y, old, new)
<1>1. Stored(block) \in Block /\ l \in Local
  BY StoredType DEF Local
<1>2. new \in 0..255 /\ Stored(block).data \in 0..15
  BY <1>1 DEF Block
<1>3. ids \in [Local -> 0..255]
  BY <1>1, <1>2 DEF Chunk
<1>4. h \in 0..Height
  <2>1. CASE new = 0 /\ old # 0 /\ chunk.height[column] = y + 1
    <3>1. \A k \in Level : k >= y => ids[<<column, k>>] = 0
      BY <2>1, <1>1 DEF ChunkExact, IsTop, Level, Chunk
    <3>2. ScanDown(ids, column, y) \in 0..y
      <4>1. y \in 0..Height
        BY HeightAssumption DEF Level
      <4> HIDE DEF ids
      <4> QED
        BY <3>1, <4>1, <1>3, ScanDownFindsTop
    <3> QED
      BY <2>1, <3>2, HeightAssumption DEF HeightAfter, Level
  <2>2. CASE ~ (new = 0 /\ old # 0 /\ chunk.height[column] = y + 1)
    BY <2>2, HeightAssumption DEF HeightAfter, Level, Chunk
  <2> QED
    BY <2>1, <2>2
<1>5. NonAirAfter(chunk, old, new) \in Int
  BY DEF NonAirAfter, Chunk
<1> HIDE DEF h, ids, new, old
<1>6. [chunk.data EXCEPT ![l] = Stored(block).data] \in [Local -> 0..15]
  BY <1>1, <1>2 DEF Chunk
<1>7. [chunk.height EXCEPT ![column] = h] \in [Column -> 0..Height]
  BY <1>4 DEF Chunk
<1> QED
  BY <1>3, <1>5, <1>6, <1>7 DEF ChunkWith, Chunk, h, ids, new, old

\* Both caches of a chunk stay exact when a block of it is written.
LEMMA ChunkWithExact ==
    ASSUME NEW chunk \in Chunk, ChunkExact(chunk),
           NEW column \in Column, NEW y \in Level, NEW block \in RawBlock
    PROVE  ChunkExact(ChunkWith(chunk, column, y, block))
<1> DEFINE l == <<column, y>>
           old == chunk.ids[l]
           new == Stored(block).id
           ids == [chunk.ids EXCEPT ![l] = new]
           h == HeightAfter(chunk, ids, column, y, old, new)
           n == NonAirAfter(chunk, old, new)
           result == ChunkWith(chunk, column, y, block)
<1>1. l \in Local /\ new \in 0..255 /\ old \in 0..255 /\ chunk.ids \in [Local -> 0..255]
  BY StoredType DEF Local, Block, Chunk
<1>2. ids \in [Local -> 0..255]
  BY <1>1
<1>3. /\ ids[l] = new
      /\ \A m \in Local : m # l => ids[m] = chunk.ids[m]
  BY <1>1
<1>4. \A c \in Column, k \in Level : <<c, k>> \in Local
  BY DEF Local
<1>5. /\ result.ids = ids /\ result.nonAir = n
      /\ result.height = [chunk.height EXCEPT ![column] = h]
  BY DEF ChunkWith
<1>6. IsTop(chunk.ids, column, chunk.height[column]) /\ chunk.height[column] \in 0..Height
  BY DEF ChunkExact, Chunk
<1> HIDE DEF ids, new, old, h, n, result, l
<1>7. IsTop(ids, column, h)
  <2>1. CASE new # 0 /\ y + 1 > chunk.height[column]
    <3>1. h = y + 1
      BY <2>1 DEF HeightAfter, h
    <3>2. ASSUME NEW k \in Level, k >= y + 1 PROVE ids[<<column, k>>] = 0
      BY <2>1, <3>2, <1>3, <1>4, <1>6 DEF IsTop, Level, l
    <3> QED
      BY <3>1, <3>2, <2>1, <1>3 DEF IsTop, Level, l
  <2>2. CASE new # 0 /\ ~ (y + 1 > chunk.height[column])
    <3>1. h = chunk.height[column]
      BY <2>2 DEF HeightAfter, h
    <3>2. ASSUME NEW k \in Level, k >= h PROVE ids[<<column, k>>] = 0
      <4>1. <<column, k>> # l
        BY <2>2, <3>1, <3>2, <1>6 DEF Level, l
      <4> QED
        BY <4>1, <3>1, <3>2, <1>3, <1>4, <1>6 DEF IsTop
    <3>3. h # 0 => ids[<<column, h - 1>>] # 0
      <4>1. CASE h - 1 = y
        BY <4>1, <2>2, <1>3 DEF l
      <4>2. CASE h # 0 /\ h - 1 # y
        <5>1. h - 1 \in Level /\ <<column, h - 1>> # l
          BY <4>2, <3>1, <1>6, HeightAssumption DEF Level, l
        <5> QED
          BY <4>2, <5>1, <3>1, <1>3, <1>4, <1>6 DEF IsTop
      <4> QED
        BY <4>1, <4>2
    <3> QED
      BY <3>2, <3>3 DEF IsTop
  <2>3. CASE new = 0 /\ old # 0 /\ chunk.height[column] = y + 1
    <3>1. h = ScanDown(ids, column, y)
      BY <2>3 DEF HeightAfter, h
    <3>2. ASSUME NEW k \in Level, k >= y PROVE ids[<<column, k>>] = 0
      <4>1. CASE k = y
        BY <4>1, <2>3, <1>3 DEF l
      <4>2. CASE k # y
        <5>1. k >= y + 1 /\ <<column, k>> # l
          BY <3>2, <4>2 DEF Level, l
        <5> QED
          BY <5>1, <2>3, <1>3, <1>4, <1>6 DEF IsTop
      <4> QED
        BY <4>1, <4>2
    <3>3. y \in 0..Height
      BY HeightAssumption DEF Level
    <3> QED
      BY <3>1, <3>2, <3>3, <1>2, ScanDownFindsTop
  <2>4. CASE new = 0 /\ ~ (old # 0 /\ chunk.height[column] = y + 1)
    <3>1. h = chunk.height[column]
      BY <2>4 DEF HeightAfter, h
    <3>2. ASSUME NEW k \in Level, k >= h PROVE ids[<<column, k>>] = 0
      BY <3>1, <3>2, <2>4, <1>3, <1>4, <1>6 DEF IsTop
    <3>3. h # 0 => ids[<<column, h - 1>>] # 0
      <4>1. ASSUME h # 0 PROVE <<column, h - 1>> \in Local /\ <<column, h - 1>> # l
        <5>1. h - 1 \in Level
          BY <4>1, <3>1, <1>6, HeightAssumption DEF Level
        <5>2. chunk.ids[<<column, h - 1>>] # 0
          BY <4>1, <3>1, <1>6 DEF IsTop
        <5>3. h - 1 # y
          BY <5>2, <3>1, <2>4, <1>6 DEF l, old, Level
        <5> QED
          BY <5>1, <5>3, <1>4 DEF l
      <4> QED
        BY <4>1, <3>1, <1>3, <1>6 DEF IsTop
    <3> QED
      BY <3>2, <3>3 DEF IsTop
  <2> QED
    BY <2>1, <2>2, <2>3, <2>4
<1>8. ASSUME NEW c \in Column PROVE IsTop(result.ids, c, result.height[c])
  <2>1. CASE c = column
    BY <2>1, <1>5, <1>7 DEF Chunk
  <2>2. CASE c # column
    <3>1. result.height[c] = chunk.height[c] /\ chunk.height[c] \in 0..Height
      BY <2>2, <1>5 DEF Chunk
    <3>2. \A k \in Level : ids[<<c, k>>] = chunk.ids[<<c, k>>]
      BY <2>2, <1>3, <1>4 DEF l
    <3>3. IsTop(chunk.ids, c, chunk.height[c])
      BY DEF ChunkExact
    <3>4. chunk.height[c] # 0 => chunk.height[c] - 1 \in Level
      BY <3>1, HeightAssumption DEF Level
    <3> QED
      BY <3>1, <3>2, <3>3, <3>4, <1>5 DEF IsTop
  <2> QED
    BY <2>1, <2>2
<1>9. n = Cardinality(SolidIn(ids))
  <2>1. SolidIn(chunk.ids) \in SUBSET Local /\ chunk.nonAir = Cardinality(SolidIn(chunk.ids))
    BY DEF SolidIn, ChunkExact
  <2>2. IsFiniteSet(SolidIn(chunk.ids))
    BY <2>1, LocalFinite, FS_Subset
  <2>3. CASE new # 0
    <3>1. SolidIn(ids) = SolidIn(chunk.ids) \cup {l}
      BY <2>3, <1>1, <1>3 DEF SolidIn
    <3>2. l \in SolidIn(chunk.ids) <=> old # 0
      BY <1>1 DEF SolidIn, old
    <3>3. Cardinality(SolidIn(ids)) = IF old # 0 THEN chunk.nonAir ELSE chunk.nonAir + 1
      <4> DEFINE S == SolidIn(chunk.ids)
      <4>1. Cardinality(S \cup {l}) = IF l \in S THEN Cardinality(S) ELSE Cardinality(S) + 1
        <5> HIDE DEF S
        <5>1. IsFiniteSet(S)
          BY <2>2 DEF S
        <5> QED
          BY <5>1, FS_AddElement
      <4> QED
        BY <4>1, <3>1, <3>2, <2>1
    <3> QED
      BY <3>3, <2>3 DEF NonAirAfter, n
  <2>4. CASE new = 0
    <3>1. SolidIn(ids) = SolidIn(chunk.ids) \ {l}
      BY <2>4, <1>1, <1>3 DEF SolidIn
    <3>2. l \in SolidIn(chunk.ids) <=> old # 0
      BY <1>1 DEF SolidIn, old
    <3>3. Cardinality(SolidIn(ids)) = IF old # 0 THEN chunk.nonAir - 1 ELSE chunk.nonAir
      <4> DEFINE S == SolidIn(chunk.ids)
      <4>1. Cardinality(S \ {l}) = IF l \in S THEN Cardinality(S) - 1 ELSE Cardinality(S)
        <5> HIDE DEF S
        <5>1. IsFiniteSet(S)
          BY <2>2 DEF S
        <5> QED
          BY <5>1, FS_RemoveElement
      <4> QED
        BY <4>1, <3>1, <3>2, <2>1
    <3> QED
      BY <3>3, <2>4 DEF NonAirAfter, n
  <2> QED
    BY <2>3, <2>4
<1> QED
  BY <1>5, <1>8, <1>9 DEF ChunkExact, result

LEMMA NewChunkExact == NewChunk \in Chunk /\ ChunkExact(NewChunk)
<1>1. NewChunk \in Chunk
  BY HeightAssumption DEF NewChunk, Chunk
<1>2. SolidIn(NewChunk.ids) = {}
  BY DEF NewChunk, SolidIn
<1>3. \A column \in Column : IsTop(NewChunk.ids, column, 0)
  BY DEF NewChunk, IsTop, Local
<1> QED
  BY <1>1, <1>2, <1>3, FS_EmptySet DEF NewChunk, ChunkExact

\* The chunk a write reaches is well formed and exact, before and after it.
LEMMA WrittenChunk ==
    ASSUME NEW world, IsWorld(world), WorldExact(world),
           NEW c \in ChunkPos, NEW column \in Column, NEW y \in Level, NEW block \in RawBlock
    PROVE  /\ ChunkFor(world, c) \in Chunk /\ ChunkExact(ChunkFor(world, c))
           /\ ChunkWith(ChunkFor(world, c), column, y, block) \in Chunk
           /\ ChunkExact(ChunkWith(ChunkFor(world, c), column, y, block))
<1>1. ChunkFor(world, c) \in Chunk /\ ChunkExact(ChunkFor(world, c))
  BY NewChunkExact DEF ChunkFor, IsWorld, WorldExact
<1> QED
  BY <1>1, ChunkWithType, ChunkWithExact

\* World::set_block keeps a world well formed and its caches exact, and no
\* chunk that is all air stays allocated.
LEMMA WorldWithExact ==
    ASSUME NEW world, IsWorld(world), WorldExact(world),
           NEW p \in Position, NEW block \in RawBlock
    PROVE  IsWorld(WorldWith(world, p, block)) /\ WorldExact(WorldWith(world, p, block))
<1> DEFINE chunk == ChunkWith(ChunkFor(world, p.chunk), p.column, p.y, block)
           result == WorldWith(world, p, block)
<1>1. p.chunk \in ChunkPos /\ p.column \in Column
  BY DEF Position
<1>2. CASE p.y \notin Level \/ (p.chunk \notin DOMAIN world /\ block.id = 0)
  BY <1>2 DEF WorldWith
<1>3. CASE p.y \in Level /\ ~ (p.chunk \notin DOMAIN world /\ block.id = 0)
  <2>1. chunk \in Chunk /\ ChunkExact(chunk)
    BY <1>1, <1>3, WrittenChunk
  <2> HIDE DEF chunk
  <2>2. CASE chunk.nonAir = 0
    <3>1. result = [c \in DOMAIN world \ {p.chunk} |-> world[c]]
      BY <1>3, <2>2 DEF WorldWith, chunk
    <3> QED
      BY <3>1 DEF IsWorld, WorldExact
  <2>3. CASE chunk.nonAir # 0
    <3>1. result = [c \in DOMAIN world \cup {p.chunk} |->
                        IF c = p.chunk THEN chunk ELSE world[c]]
      BY <1>3, <2>3 DEF WorldWith, chunk
    <3> HIDE DEF result
    <3>2. IsWorld(result)
      BY <3>1, <2>1, <1>1 DEF IsWorld
    <3>3. WorldExact(result)
      BY <3>1, <2>1, <2>3 DEF WorldExact
    <3> QED
      BY <3>2, <3>3 DEF result
  <2> QED
    BY <2>2, <2>3
<1> QED
  BY <1>2, <1>3

\* A chunk whose count is 0 shows air everywhere.
LEMMA EmptyChunkIsAir ==
    ASSUME NEW chunk \in Chunk, ChunkExact(chunk), chunk.nonAir = 0, NEW l \in Local
    PROVE  chunk.ids[l] = 0
<1>1. IsFiniteSet(SolidIn(chunk.ids))
  BY LocalFinite, FS_Subset DEF SolidIn
<1>2. SolidIn(chunk.ids) = {}
  BY <1>1, FS_EmptySet DEF ChunkExact
<1> QED
  BY <1>2 DEF SolidIn

\* Reading after World::set_block: the cell written shows the stored block,
\* every other cell shows what it showed before.
LEMMA WorldWithReads ==
    ASSUME NEW world, IsWorld(world), WorldExact(world),
           NEW p \in Position, NEW block \in RawBlock, NEW q \in Cell
    PROVE  Visible(BlockAt(WorldWith(world, p, block), q)) =
              IF q = p THEN Visible(Stored(block)) ELSE Visible(BlockAt(world, q))
<1> DEFINE old == ChunkFor(world, p.chunk)
           chunk == ChunkWith(old, p.column, p.y, block)
           result == WorldWith(world, p, block)
           lp == <<p.column, p.y>>
           lq == <<q.column, q.y>>
<1>1. /\ p.chunk \in ChunkPos /\ p.column \in Column
      /\ q.chunk \in ChunkPos /\ q.column \in Column /\ q.y \in Level
      /\ lq \in Local
  BY DEF Position, Cell, Local
<1>2. (q = p) <=> (q.chunk = p.chunk /\ lq = lp)
  BY DEF Position, Cell
<1>3. CASE p.y \notin Level
  BY <1>3, <1>1 DEF WorldWith
<1>4. CASE p.y \in Level /\ p.chunk \notin DOMAIN world /\ block.id = 0
  <2>1. Visible(Stored(block)) = Air
    BY <1>4 DEF Visible, Stored, RawBlock
  <2>2. result = world
    BY <1>4 DEF WorldWith
  <2>3. q = p => Visible(BlockAt(world, q)) = Air
    BY <1>4, <1>2 DEF Visible, BlockAt, Air
  <2> QED
    BY <2>1, <2>2, <2>3
<1>5. CASE p.y \in Level /\ ~ (p.chunk \notin DOMAIN world /\ block.id = 0)
  <2>1. /\ old \in Chunk /\ ChunkExact(old) /\ chunk \in Chunk /\ ChunkExact(chunk)
    BY <1>1, <1>5, WrittenChunk
  <2>2. lp \in Local
    BY <1>1, <1>5 DEF Local
  <2>3. /\ chunk.ids[lq] = IF lq = lp THEN Stored(block).id ELSE old.ids[lq]
        /\ chunk.data[lq] = IF lq = lp THEN Stored(block).data ELSE old.data[lq]
    BY <1>1, <2>1, <2>2 DEF ChunkWith, Chunk
  <2>4. q.chunk = p.chunk =>
           Visible(BlockAt(world, q)) = Visible([id |-> old.ids[lq], data |-> old.data[lq]])
    BY <1>1 DEF BlockAt, ChunkFor, NewChunk, Visible, Air
  <2>5. Stored(block) = [id |-> Stored(block).id, data |-> Stored(block).data]
    BY DEF Stored
  <2>6. q.chunk = p.chunk =>
           Visible([id |-> chunk.ids[lq], data |-> chunk.data[lq]]) =
              IF q = p THEN Visible(Stored(block)) ELSE Visible(BlockAt(world, q))
    BY <1>2, <2>3, <2>4, <2>5
  <2>7. ASSUME chunk.nonAir = 0 PROVE chunk.ids[lq] = 0
    BY <2>7, <2>1, <1>1, EmptyChunkIsAir
  <2> HIDE DEF chunk, old, lp, lq
  <2>8. CASE q.chunk # p.chunk
    <3>1. /\ q.chunk \in DOMAIN result <=> q.chunk \in DOMAIN world
          /\ q.chunk \in DOMAIN world => result[q.chunk] = world[q.chunk]
      BY <1>5, <2>8 DEF WorldWith
    <3> QED
      BY <3>1, <2>8, <1>2 DEF BlockAt
  <2>9. CASE q.chunk = p.chunk /\ chunk.nonAir = 0
    <3>1. q.chunk \notin DOMAIN result
      BY <1>5, <2>9 DEF WorldWith, chunk, old
    <3>2. Visible(BlockAt(result, q)) = Air
      BY <3>1 DEF BlockAt, Visible, Air
    <3>3. Visible([id |-> chunk.ids[lq], data |-> chunk.data[lq]]) = Air
      BY <2>7, <2>9 DEF Visible
    <3> QED
      BY <3>2, <3>3, <2>6, <2>9
  <2>10. CASE q.chunk = p.chunk /\ chunk.nonAir # 0
    <3>1. q.chunk \in DOMAIN result /\ result[q.chunk] = chunk
      BY <1>5, <2>10 DEF WorldWith, chunk, old
    <3>2. BlockAt(result, q) = [id |-> chunk.ids[lq], data |-> chunk.data[lq]]
      BY <3>1, <1>1 DEF BlockAt, lq
    <3> QED
      BY <3>2, <2>6, <2>10
  <2> QED
    BY <2>8, <2>9, <2>10
<1> QED
  BY <1>3, <1>4, <1>5

\* Writing the block a cell already holds leaves the world as it is, caches
\* and allocated chunks included.
LEMMA WriteSameBlock ==
    ASSUME NEW world, IsWorld(world), WorldExact(world), NEW p \in Cell
    PROVE  WorldWith(world, p, BlockAt(world, p)) = world
<1> DEFINE l == <<p.column, p.y>>
           block == BlockAt(world, p)
           old == world[p.chunk]
           chunk == ChunkWith(old, p.column, p.y, block)
<1>1. p.column \in Column /\ p.y \in Level /\ l \in Local
  BY DEF Cell, Local
<1>2. CASE p.chunk \notin DOMAIN world
  BY <1>1, <1>2 DEF WorldWith, BlockAt, Air
<1>3. CASE p.chunk \in DOMAIN world
  <2>1. old \in Chunk /\ ChunkExact(old) /\ old.nonAir # 0
    BY <1>3 DEF IsWorld, WorldExact
  <2>2. /\ block = [id |-> old.ids[l], data |-> old.data[l]]
        /\ old.ids[l] \in 0..255 /\ old.data[l] \in 0..15
    BY <1>1, <1>3, <2>1 DEF BlockAt, Chunk
  <2>3. Stored(block).id = old.ids[l] /\ Stored(block).data = old.data[l]
    <3>1. (\A x \in 0..255 : x % 256 = x) /\ \A x \in 0..15 : x % 16 = x
      OBVIOUS
    <3>2. block.id = old.ids[l] /\ block.data = old.data[l]
      BY <2>2
    <3>3. Stored(block).id = block.id % 256 /\ Stored(block).data = block.data % 16
      BY DEF Stored
    <3>4. old.ids[l] % 256 = old.ids[l] /\ old.data[l] % 16 = old.data[l]
      BY <2>2, <3>1
    <3> QED
      BY <3>2, <3>3, <3>4, Zenon
  <2>4. [old.ids EXCEPT ![l] = old.ids[l]] = old.ids /\ [old.data EXCEPT ![l] = old.data[l]] = old.data
    BY <2>1, <1>1 DEF Chunk
  <2>5. HeightAfter(old, old.ids, p.column, p.y, old.ids[l], old.ids[l]) = old.height[p.column]
    <3>1. old.ids[l] # 0 => ~ (p.y + 1 > old.height[p.column])
      <4> DEFINE h == old.height[p.column]
      <4>1. h \in 0..Height /\ p.y \in Int
        BY <2>1, <1>1, HeightAssumption DEF Chunk, Level
      <4>2. IsTop(old.ids, p.column, h)
        BY <2>1, <1>1 DEF ChunkExact
      <4>3. p.y >= h => old.ids[l] = 0
        BY <4>2, <1>1 DEF IsTop
      <4> HIDE DEF h, old, l
      <4> QED
        BY <4>1, <4>3 DEF h
    <3> QED
      BY <3>1 DEF HeightAfter
  <2>6. [old.height EXCEPT ![p.column] = old.height[p.column]] = old.height
    BY <2>1, <1>1 DEF Chunk
  <2>7. NonAirAfter(old, old.ids[l], old.ids[l]) = old.nonAir
    BY <2>2 DEF NonAirAfter
  <2>8. chunk = [ids |-> old.ids, data |-> old.data, height |-> old.height, nonAir |-> old.nonAir]
    <3> HIDE DEF block, old
    <3> QED
      BY <2>3, <2>4, <2>5, <2>6, <2>7 DEF ChunkWith
  <2>9. chunk = old
    BY <2>8, <2>1 DEF Chunk
  <2>10. ChunkFor(world, p.chunk) = old
    BY <1>3 DEF ChunkFor
  <2> HIDE DEF block, old, chunk
  <2>11. WorldWith(world, p, block) =
            [c \in DOMAIN world \cup {p.chunk} |-> IF c = p.chunk THEN old ELSE world[c]]
    BY <2>1, <2>9, <2>10, <1>1, <1>3 DEF WorldWith, chunk
  <2>12. world = [c \in DOMAIN world |-> world[c]]
    BY DEF IsWorld
  <2>13. WorldWith(world, p, block) = world
    BY <2>11, <2>12, <1>3 DEF old
  <2> QED
    BY <2>13 DEF block
<1> QED
  BY <1>2, <1>3

-----------------------------------------------------------------------------
WorldIInv == IsWorld(chunks) /\ WorldExact(chunks)

LEMMA WorldInitIInv == WorldInit => WorldIInv
BY DEF WorldInit, WorldIInv, IsWorld, WorldExact, NoChunks

LEMMA WorldNextIInv == WorldIInv /\ [WorldNext]_chunks => WorldIInv'
<1> SUFFICES ASSUME WorldIInv, [WorldNext]_chunks PROVE WorldIInv'
  OBVIOUS
<1>1. CASE WorldClear
  BY <1>1 DEF WorldClear, WorldIInv, IsWorld, WorldExact, NoChunks
<1>2. ASSUME NEW c \in ChunkPos, NEW column \in Column, NEW y \in WriteLevels,
             NEW block \in Written,
             WorldSetBlock([chunk |-> c, column |-> column, y |-> y], block)
      PROVE  WorldIInv'
  <2>1. [chunk |-> c, column |-> column, y |-> y] \in Position /\ block \in RawBlock
    BY WriteLevelsAssumption, WrittenAssumption DEF Position
  <2> QED
    BY <1>2, <2>1, WorldWithExact DEF WorldSetBlock, WorldIInv
<1>3. CASE UNCHANGED chunks
  BY <1>3 DEF WorldIInv
<1> QED
  BY <1>1, <1>2, <1>3 DEF WorldNext

LEMMA WorldSpecIInv == WorldSpec => []WorldIInv
BY WorldInitIInv, WorldNextIInv, PTL DEF WorldSpec

\* The store holds well-formed chunks in every reachable state.
THEOREM WorldTypeCorrect == WorldSpec => []WorldTypeOK
<1>1. WorldIInv => WorldTypeOK
  BY DEF WorldIInv, WorldTypeOK
<1> QED
  BY <1>1, WorldSpecIInv, PTL

\* The height map World::height_at reads is exact, for every size of the
\* world and every sequence of writes.
THEOREM HeightsAreExact == WorldSpec => []HeightsExact
<1>1. WorldIInv => HeightsExact
  BY DEF WorldIInv, HeightsExact, WorldExact, ChunkExact
<1> QED
  BY <1>1, WorldSpecIInv, PTL

\* The count that decides whether a chunk is dropped is exact, and no chunk
\* without a block stays allocated.
THEOREM CountsAreExact == WorldSpec => []CountsExact
<1>1. WorldIInv => CountsExact
  BY DEF WorldIInv, CountsExact, WorldExact, ChunkExact
<1> QED
  BY <1>1, WorldSpecIInv, PTL

-----------------------------------------------------------------------------
LEMMA WorldInitRefines == WorldInit => Flat!Init
<1>1. WorldInit => \A p \in Cell : Visible(BlockAt(chunks, p)) = Air
  BY DEF WorldInit, NoChunks, BlockAt, Visible, Air
<1>2. Flat!Cell = Cell /\ Flat!Air = Air
  BY DEF Flat!Cell, Cell, Flat!Level, Level, Flat!Air, Air
<1> QED
  BY <1>1, <1>2 DEF Flat!Init, WorldView

LEMMA WorldStepRefines == WorldIInv /\ [WorldNext]_chunks => [Flat!Next]_WorldView
<1> SUFFICES ASSUME WorldIInv, [WorldNext]_chunks PROVE [Flat!Next]_WorldView
  OBVIOUS
<1>1. Flat!Cell = Cell /\ Flat!Air = Air
  BY DEF Flat!Cell, Cell, Flat!Level, Level, Flat!Air, Air
<1>2. CASE WorldClear
  <2>1. \A p \in Cell : Visible(BlockAt(chunks', p)) = Air
    BY <1>2 DEF WorldClear, NoChunks, BlockAt, Visible, Air
  <2>2. Flat!Clear
    BY <2>1, <1>1 DEF Flat!Clear, WorldView
  <2> QED
    BY <2>2 DEF Flat!Next
<1>3. ASSUME NEW c \in ChunkPos, NEW column \in Column, NEW y \in WriteLevels,
             NEW block \in Written,
             WorldSetBlock([chunk |-> c, column |-> column, y |-> y], block)
      PROVE  Flat!Next
  <2> DEFINE p == [chunk |-> c, column |-> column, y |-> y]
  <2>1. p \in Position /\ block \in RawBlock
    BY WriteLevelsAssumption, WrittenAssumption DEF Position
  <2>2. p \in [chunk : ChunkPos, column : Column, y : WriteLevels]
    OBVIOUS
  <2>3. chunks' = WorldWith(chunks, p, block)
    BY <1>3 DEF WorldSetBlock
  <2> HIDE DEF p
  <2>4. \A q \in Cell : Visible(BlockAt(chunks', q)) =
           IF q = p THEN Visible(Stored(block)) ELSE Visible(BlockAt(chunks, q))
    BY <2>1, <2>3, WorldWithReads DEF WorldIInv
  <2>5. Visible(Stored(block)) = Flat!Shown(block.id % 256, block.data % 16)
    BY DEF Visible, Stored, Air, Flat!Shown, Flat!Air
  <2>6. Flat!Write(p, block)
    BY <2>4, <2>5, <1>1 DEF Flat!Write, WorldView
  <2> QED
    BY <2>2, <2>6 DEF Flat!Next
<1>4. CASE UNCHANGED chunks
  BY <1>4 DEF WorldView
<1> QED
  BY <1>2, <1>3, <1>4 DEF WorldNext

\* The chunked store implements the flat one.
THEOREM StoreIsFlat == WorldSpec => ImplementsFlatWorld
<1>1. WorldInit => Flat!Init
  BY WorldInitRefines
<1>2. WorldIInv /\ [WorldNext]_chunks => [Flat!Next]_WorldView
  BY WorldStepRefines
<1> QED
  BY <1>1, <1>2, WorldSpecIInv, PTL DEF WorldSpec, ImplementsFlatWorld, Flat!Spec
=============================================================================
