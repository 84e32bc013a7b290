CONSTANTS
    Projects   <- MCProjects
    Endpoints  = {e1, e2}
    Callers    = {c1, c2}
    MaxRetries = 3
    LastLedger = 2
    Events     = {1, 2}
    LedgerOf   <- MCLedgerOf
SPECIFICATION FairSpec
INVARIANTS
    TypeOK
PROPERTIES
    AllAttemptsMade
    SafeCallsAreCalls
CHECK_DEADLOCK FALSE
