SPECIFICATION Spec
CONSTANTS
    LOOKAHEAD_MAJOR = 2
    LOOKAHEAD_MINOR = 2
    MAX_NEW_ACCOUNTS = 2
    UINT32_MAX = 7
    SpendKey <- MCSpendKey
    OtherKey = 0
    PubKeys = {1, 2}
    Txs <- ChainTxs
    LaterTxs <- ChainTxs
    Searchers <- OnlyAccount
    MaxScans = 2
    MaxPasses = 1
CHECK_DEADLOCK FALSE
INVARIANT
    UnpopulatedFindsPrimaryOnly
