SPECIFICATION LoopSpec
CONSTANTS
    Unit = 3
    WorldSize <- MCWorldSize
    BoxSize <- MCBoxSize
    Places <- MCPlaces
    Deltas <- MCDeltas
    Gravity = 1
    JumpVelocity = 3
    MaxFall = 2
    MaxSolid = 2
    TickLength = 2
    MaxCatchUp = 2
    Elapsed = {1, 3, 7}
    MaxScheduled = 1
INVARIANTS
    CatchUpIsBounded
PROPERTIES
    SimulationGoesOn
