SPECIFICATION Spec
CONSTANTS
    h1 = h1
    h2 = h2
    TxHash <- MCTxHash
    Blocks <- MCBlocks
    MaxInits = 2
    MaxChanges = 3
    MaxCalls = 2
CHECK_DEADLOCK FALSE
INVARIANTS
    TypeOK
    InitSuccessIsTold
PROPERTIES
    AnswersWereSeen
    AtomicReads
