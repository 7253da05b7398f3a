SPECIFICATION WorldSpec
CONSTANTS
    ChunkPos = {c1, c2}
    Column = {k1, k2}
    Height = 3
    WriteLevels <- MCWriteLevels
    Written <- MCWritten
SYMMETRY Symmetry
INVARIANTS
    WorldTypeOK
    HeightsExact
    CountsExact
PROPERTY
    ImplementsFlatWorld
