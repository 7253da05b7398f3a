SPECIFICATION Spec
CONSTANTS
    ChunkPos = {c1, c2}
    Column = {k}
    Height = 2
    MaxLight = 4
    Beside <- MCBeside
    Opacity <- MCOpacity
    Emission <- MCEmission
    Blocks <- MCBlocks
INVARIANTS
    TypeOK
    LightIsLeast
    SkyIsWhatComesThrough
PROPERTY
    RebuildEnds
