CONSTANTS
    Sandboxes   = {}
    Fetchers    <- MCTasks
    LastLedger  = 2
    LastEvent   = 2
    LedgerOf    <- MCLedgerOf
    PageLimit   <- MCPageLimit
    ServerLimit = 3
    Ends        = {0}
    Filters     <- AllEvents
    Heights     <- MCHeights
    MaxAttempts = 2
    Lists       <- MCLists
    Record      = {11, 12}
    Records     <- MCRecords
    Invokes     <- MCInvokes
    ListLimit   = 2
SPECIFICATION FairSystem
PROPERTIES
    ImplementsFetch
    ImplementsBlockSource
CHECK_DEADLOCK FALSE
