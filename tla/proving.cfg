SPECIFICATION FairSpec
CONSTANTS
    None = None
    MaxSegments = 4
    GameTics = 3
    Machines = {1, 4}
    Ceiling <- MCCeiling
    MaxLength = 2
    FlushTics = 2
    MaxStarts = 2
    MaxCrashes = 1
    MaxFaults = 2
INVARIANTS
    ProofsBehindProved
    StoreTellsTheGame
    ProvesAreSafe
PROPERTIES
    ProvedStays
    CompletesDespiteOneFailure
CHECK_DEADLOCK FALSE
