CONSTANTS
    Heights     <- MCDownward
    MaxAttempts = 2
    LastLedger  = 2
    Lists       <- MCLists
    Records     <- MCRecords
    Record      = {11, 12, 21, 31}
    Invokes     <- MCInvokes
    PageLimit   = 1
    Events      = {1, 2}
    LedgerOf    <- MCLedgerOf
SPECIFICATION FairSpec
INVARIANTS
    TypeOK
    BlocksExact
    AsksWhenNeeded
    IInv
PROPERTIES
    BatchSettles
    TasksSettle
    SourceSpec
CHECK_DEADLOCK FALSE
