\* Projects of one or two handlers with one on Soroban transactions.
CONSTANTS
    None = None
    Strings <- MCStrings
    Lower <- MCLower
    Data <- MCData
    Projects <- MCSorobanProjects
SPECIFICATION Spec
INVARIANTS
    NoFiltersNoDictionary
\* The function returns.
CHECK_DEADLOCK FALSE
