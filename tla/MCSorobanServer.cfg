\* Two block fetches and a handler that asks for everything.
CONSTANTS
    f1 = f1
    f2 = f2
    s1 = s1
    Fetchers = {f1, f2}
    Sandboxes = {s1}
    LastLedger = 3
    LastEvent = 7
    LedgerOf <- MCLedgerOf
    PageLimit <- MCPageLimit
    ServerLimit = 4
    Ends = {0, 4}
    Filters <- AllEvents
SPECIFICATION FairSpec
INVARIANTS
    TypeOK
    CacheComplete
    AnswersExact
    IInv
PROPERTIES
    InOrder
    TakenByAsker
    EveryCallSettles
    SourceSpec
