SPECIFICATION Spec
CONSTANTS
    Modulus = 4
    Pool = pool
    Token = token
    Manager = manager
    Hook = 7
    MaxBlocks = 3
    Initialized <- MCInitialized
    PoolTicks <- MCPoolTicks
    Genesis <- MCGenesis
    Field <- MCField
    PoolKeys <- MCPoolKeys
    Hooks <- MCHooks
    Fetchers <- MCFetchers
    Calls <- MCCalls
INVARIANTS
    FieldsAreTrue
    GrowthIsAccrued
    KeysComplete
\* One call, which ends.
CHECK_DEADLOCK FALSE
