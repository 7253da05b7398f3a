SPECIFICATION Spec
CONSTANTS
    None = None
    Fail = Fail
    Silent = Silent
    Tokens <- MCTokens
    MaxInt = 7
    IntOf <- MCIntOf
    HalvesOf <- MCHalvesOf
    Lines <- MCLines
    WorldMax <- MCWorldMax
    Worlds <- MCWorlds
    Places <- MCPlaces
    MaxTurns = 3
PROPERTIES
    AnswersItsKind
    OneBlockOnePosition
    FillsTheNamedRegion
    NoHitIsLost
    TextIsVerbatim
CHECK_DEADLOCK FALSE
