\* Three ledgers, two created data sources, two restarts.
CONSTANTS
    None = None
    IllTyped = IllTyped
    Strings <- MCStrings
    Lower <- MCLower
    Data <- MCData
    Manifests <- MCManifests
    Registry <- MCRegistry
    Endpoints = {"d", "e"}
    Chain <- MCChain
    BaseHandlerKinds <- MCBaseHandlerKinds
    Creations <- MCCreations
    MaxCreated = 2
    MaxRestarts = 2
SPECIFICATION FairSpec
INVARIANTS
    TypeOK
    GoodOnesAreKept
    NoFilterThrows
    ExactlyTheDueCalls
PROPERTIES
    ReachesTheEnd
\* The node stops, or gets to the end of the chain.
CHECK_DEADLOCK FALSE
