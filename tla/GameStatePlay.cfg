SPECIFICATION Spec
CONSTANTS
    None = None
    ChunkPos = {c1}
    Column = {k}
    Height = 1
    Seeds = {1}
    Terrain <- MCTerrain
    SpawnChunk = c1
    SpawnColumn = k
    Blocks <- MCPlayBlocks
    Items <- MCItems
    Boxes = {}
    MaxScheduledTicks = 1
    ScheduledIds = {8}
    HotbarSize = 2
    CreativeDefaults <- MCPlayDefaults
    CameraModes = {"Normal", "ThirdPerson"}
    Places = {5}
    Messages = {hello}
    MaxChat = 1
    MaxHits = 1
PROPERTY
    ImplementsEditableWorld
