SPECIFICATION Spec
CONSTANTS
    LOOKAHEAD_MAJOR = 2
    LOOKAHEAD_MINOR = 2
    MAX_NEW_ACCOUNTS = 2
    UINT32_MAX = 7
    SpendKey <- MCSpendKey
    OtherKey = 0
    PubKeys = {1, 2}
    Txs <- AllTxs
    LaterTxs <- ChainTxs
    Searchers <- AllSearchers
    MaxScans = 4
    MaxPasses = 2
CHECK_DEADLOCK FALSE
INVARIANTS
    TypeOK
    RecordsAreTrue
    TotalsMatchRecords
    KnownNeverMissed
    OncePerPass
    RctDerivationMatches
    IndexGiven
PROPERTIES
    GapLimitReceiptsFound
    ScanIsAFunction
    OwnerSpec
