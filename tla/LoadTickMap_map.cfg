SPECIFICATION FairSpec
CONSTANTS
    WordBits = 256
    MinTick <- MCMinTick
    MaxTick <- MCMaxTick
    Loads <- MCLoads
INVARIANTS
    TypeOK
    MapIsRange
PROPERTIES
    EndsOrCircles
CHECK_DEADLOCK FALSE
