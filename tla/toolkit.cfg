SPECIFICATION FairSpec
CONSTANTS
    add = add
    memory = memory
    Programs <- MCPrograms
    RowCeiling = 64
    StepsThreaded = 100
    StepsSingle = 160
    MaxBig = 6
    MinTics = 1
    MaxTics = 24
    InitialTics = 4
    MaxProbes = 2
    MaxGrowth = 3
    HistoryLength = 3
    Machine = 4
    Game = 20
    Bursts = {5, 20}
    NoProgram = NoProgram
    Handles <- MCHandles
    MaxCalls = 2
    Cores = 6
    Isolated = TRUE
    Nothing = Nothing
    Words <- MCWords
    SlotCount = 3
    MaxCatchup = 2
    MaxAttempts = 2
    Intervals = {2, 4}
    Unit = 4
    MaxClock = 7
    MaxTic = 5
    MaxToggles = 1
    NoFrame = NoFrame
    Map <- MCMap
    MobjInfo <- MCMobjInfo
    SkillBit = 2
    WalkSpeed = 11
    LookAhead = 20
    MaxSectors = 24
    MAX_MOBJS = 2
    MAX_DYNAMIC_SECTORS = 2
    RingSlots = 3
    Turn = 8
    Parts = 2
    Bob <- MCBob
    MaxStubTic = 300
    CoreFrames <- MCCoreFrames
    Quota = 8
    WarnHeadroom = 2
    WarnPercent = 85
    MaxRows = 6
    MaxStarts = 2
    MaxForeign = 3
    InvokeCap = 12
    HeadGas = 3
    ConsumerGas = 2
    Collapse = 2
    Window = 6
    MinSamples = 2
    MaxSamples = 8
    Walk = 6
    Plan = 1
    MaxTime = 2
    MaxOpens = 2
    MaxElsewhere = 1
    MaxTroubles = 1
    r1 = r1
    r2 = r2
    Games = {r1, r2}
    LeafMenu <- MCLeafMenu
    Pins <- MCPins
    MaxLeaves = 3
    MaxOthers = 1
    Unprepared = Unprepared
    LimbBits = 5
    Limbs = 3
    QM31 = 2
    HashFelts = 2
    ClaimFelts = 3
    ConfFelts = 2
    MerkleState = 4
    FriState = 6
    Caps = {32, 40}
    Proofs <- MCProofs
    Splits <- MCSplits
    Automatic = Automatic
    Unplanned = Unplanned
    None = None
    Procs = {p1, p2}
    Commands <- MCCommands
    Walks = {16, 40}
    MaxCut = 3
    MaxLaunches = 2
    MaxTraceless = 1
    MaxBlocks = 1
    Word = 3
    FracUnit = 2
    OFF = 16
    HK = 4
    BIGC = 128
    CoefBits = 4
    CBits = 8
    BoxBits = 5
    ChunkBits = 2
    PerFelt = 3
    CellUnit = 2
    Columns = 2
    Rows = 2
    MaxSubsectors = 3
    Origin <- MCOrigin
    Vertexes <- MCVertexes
    Linedefs <- MCLinedefs
    Sidedefs <- MCSidedefs
    Segs <- MCSegs
    Sectors <- MCSectors
    Things <- MCThings
    Reject <- MCReject
    Partitions <- MCPartitions
    Overrides <- MCOverrides
INVARIANTS
    PlansFit
    CallsAreAnswered
    FramesAndJournal
    SceneHolds
    PanelHolds
    SendsAsEstimated
    BatchesAreChecked
    PlansAreWhole
    LevelsAgree
PROPERTIES
    CallsAndPlansEnd
    NothingIsTakenBack
CHECK_DEADLOCK FALSE
