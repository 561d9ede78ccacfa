SPECIFICATION Spec
CONSTANTS
    LOOKAHEAD_MAJOR = 2
    LOOKAHEAD_MINOR = 2
    MAX_NEW_ACCOUNTS = 2
    UINT32_MAX = 15
    SpendKey <- MCSpendKey
    Manual <- MCManual
    MaxExpansion = 6
INVARIANTS
    TypeOK
    KeyMatchesIndex
    WindowCovered
    LookaheadCovered
PROPERTY
    ExpansionBounded
