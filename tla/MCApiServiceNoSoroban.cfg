CONSTANTS
    Projects   <- MCProjects
    Endpoints  = {e1, e2}
    Callers    = {c1}
    MaxRetries = 2
    LastLedger = 2
    Events     = {1, 2}
    LedgerOf   <- MCLedgerOf
SPECIFICATION Spec
INVARIANTS
    SorobanEndpointIsOptional
CHECK_DEADLOCK FALSE
