SPECIFICATION FairSpec
CONSTANTS
    WordBits = 256
    MinTick <- MCMinTick
    MaxTick <- MCMaxTick
    Queries <- LongQueries
PROPERTIES
    LeSearchEnds
CHECK_DEADLOCK FALSE
