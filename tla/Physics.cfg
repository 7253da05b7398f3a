SPECIFICATION Spec
CONSTANTS
    Unit = 3
    WorldSize <- MCWorldSize
    BoxSize <- MCBoxSize
    Places <- MCPlaces
    Deltas <- MCDeltas
    Gravity = 1
    JumpVelocity = 3
    MaxFall = 2
    MaxSolid = 2
INVARIANTS
    TypeOK
    ClipIsFarthest
PROPERTIES
    MovesStayFree
    GroundHolds
