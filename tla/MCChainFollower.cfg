CONSTANTS
    Endpoints   = {e1, e2}
    NoEndpoint  = none
    Slots       = {s1, s2}
    LastLedger  = 2
    ClosedAt    <- MCClosedAt
    Messages    <- MCMessages
    Unsteady    = {e1}
    MaxRestarts = 1
SPECIFICATION FairSpec
INVARIANTS
    TypeOK
    NoFork
    NeverFarAhead
    IndexedInOrder
    IInv
PROPERTIES
    CatchesUp
CHECK_DEADLOCK FALSE
