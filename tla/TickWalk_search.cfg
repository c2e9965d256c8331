SPECIFICATION FairSpec
CONSTANTS
    WordBits = 256
    MinTick <- MCMinTick
    MaxTick <- MCMaxTick
    Queries <- AllQueries
INVARIANTS
    TypeOK
    FindsNearest
    PassesOverNone
    WordSearchesAgree
PROPERTIES
    SearchEnds
\* A search stops when it has its answer.
CHECK_DEADLOCK FALSE
