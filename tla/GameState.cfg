SPECIFICATION Spec
CONSTANTS
    None = None
    ChunkPos = {c1, c2}
    Column = {k}
    Height = 1
    Seeds = {1}
    Terrain <- MCTerrain
    SpawnChunk = c1
    SpawnColumn = k
    Blocks <- MCBlocks
    Items = {}
    Boxes <- MCBoxes
    MaxScheduledTicks = 1
    ScheduledIds = {8}
    HotbarSize = 1
    CreativeDefaults <- MCDefaults
    CameraModes = {"Normal"}
    Places = {}
    Messages = {}
    MaxChat = 0
    MaxHits = 0
INVARIANTS
    TypeOK
    OverridesExplainWorld
    CheckpointOfThisWorld
    LightCurrent
    TicksOfThisWorld
PROPERTY
    ImplementsEditableWorld
