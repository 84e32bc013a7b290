\* Projects of one or two handlers of the kinds the dictionary knows.
CONSTANTS
    None = None
    Strings <- MCStrings
    Lower <- MCLower
    Data <- MCData
    Projects <- MCProjects
SPECIFICATION Spec
INVARIANTS
    TypeOK
    Coverage
    NoFiltersNoDictionary
    BuildsQueryEntries
\* The function returns.
CHECK_DEADLOCK FALSE
