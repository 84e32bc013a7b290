\* The server cuts pages shorter than the client asks for.
CONSTANTS
    f1 = f1
    f2 = f2
    Fetchers = {f1, f2}
    Sandboxes = {}
    LastLedger = 4
    LastEvent = 7
    LedgerOf <- MCLedgerOf
    PageLimit <- MCPageLimit
    ServerLimit = 2
    Ends = {0, 4}
    Filters <- AllEvents
SPECIFICATION Spec
INVARIANT CacheComplete
