\* A handler filters the events it asks for.
CONSTANTS
    f1 = f1
    s1 = s1
    Fetchers = {f1}
    Sandboxes = {s1}
    LastLedger = 4
    LastEvent = 7
    LedgerOf <- MCLedgerOf
    PageLimit <- MCPageLimit
    ServerLimit = 4
    Ends = {0, 4}
    Filters <- SomeEvents
SPECIFICATION Spec
INVARIANT AnswersExact
