SPECIFICATION Spec
CONSTANTS
    LOOKAHEAD_MAJOR = 2
    LOOKAHEAD_MINOR = 2
    MAX_NEW_ACCOUNTS = 2
    UINT32_MAX = 7
    SpendKey <- MCSpendKey
    OtherKey = 0
    PubKeys = {1, 2, 3, 4, 5, 6, 7, 8, 9}
    Chain <- MCChain
    Spends <- MCSpends
    Searchers <- AllSearchers
    Orders <- AllOrders
    Given <- MCGiven
    MaxPops = 1
CHECK_DEADLOCK FALSE
INVARIANTS
    TypeOK
    GuessesAreTrue
    RealInputsAreOurs
    KnownSpendsFound
    GuessCoversKnownReal
    GuessAgreesWithInput
    PossibleSpendingExact
    TotalsMatchInputs
PROPERTY
    CallAdvances
    CallEnds
