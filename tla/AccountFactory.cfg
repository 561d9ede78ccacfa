SPECIFICATION Spec
CONSTANTS
    LOOKAHEAD_MAJOR = 1
    LOOKAHEAD_MINOR = 2
    MAX_NEW_ACCOUNTS = 1
    UINT32_MAX = 3
    DeviceKey <- MCDeviceKey
    Wallet = 1
    Prefix <- MCPrefix
    Texts <- MCTexts
    Infos <- MCInfos
    IndexTexts <- MCIndexTexts
    Indices <- MCIndices
CHECK_DEADLOCK FALSE
INVARIANTS
    TypeOK
    IndicesAreOfWallet
    WindowOfPrimaryAccounts
PROPERTY
    ConversionLosesNothing
