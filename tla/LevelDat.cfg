SPECIFICATION Spec
CONSTANTS
    None = None
    Base = 16
    Width <- MCWidth
    TextWidth = 1
    MaxDepth = 3
    MaxElements = 12
    MaxArrayBytes = 16
    Seeds = {5, 200}
    SpawnOf <- MCSpawnOf
    Places <- MCPlaces
    Changes = {1}
    ForeignTags <- MCForeignTags
    FileVersion = 3
    MaxPayload = 120
    MaxFaults = 1
INVARIANTS
    CodecRoundTrips
PROPERTIES
    SavedLoadsBack
    LoadIsAllOrNothing
