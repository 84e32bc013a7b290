CONSTANTS
    Operations    <- MCOperations
    MaxOperations   = 2
    MaxTransactions = 2
    DataSources   <- MCDataSources
    Templates     <- MCTemplates
SPECIFICATION Spec
INVARIANTS
    TypeOK
    EveryDatumOnce
    CallsInLedgerOrder
    SorobanAfterTransaction
CHECK_DEADLOCK FALSE
