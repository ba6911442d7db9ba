SPECIFICATION Spec
CONSTANTS
    Transactions <- MCTransactions
    StartBlock = 1
    ReorgDepth = 2
    ChunkSize = 2
    MaxHead = 3
    MaxReorgs = 1
    MaxTroubles = 0
    BoardSize = 2
    Half = 1
    TicsPerFelt = 2
PROPERTIES
    NothingOrphanedSurvives
