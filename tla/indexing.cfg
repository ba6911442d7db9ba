SPECIFICATION FairSpec
CONSTANTS
    Transactions <- MCTransactions
    StartBlock = 1
    ReorgDepth = 2
    ChunkSize = 2
    MaxHead = 4
    MaxReorgs = 2
    MaxTroubles = 1
    BoardSize = 2
    Half = 1
    TicsPerFelt = 2
INVARIANTS
    PolledIsCanonical
    ReadersAgree
PROPERTIES
    BelowWindowIsKept
    CatchesUp
