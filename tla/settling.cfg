SPECIFICATION FairSpec
CONSTANTS
    Nil = Nil
    r1 = r1
    r2 = r2
    r3 = r3
    k1 = k1
    k2 = k2
    Runs = {r1, r2}
    SoloRuns = {r2}
    MaxSegments = 1
    MaxRuns = 2
    Keys = {k1, k2}
    Batches = {b1, b2}
    Handlers = {h1}
    VerifySlots = {v1}
    CircuitSlots = {c1, c2}
    Posts <- None
    Uploads <- ShortGames
    Declared <- None
    Link <- Sequel
    MaxAttempts = 2
    MaxFaults = 2
    MaxCloses = 0
    MaxCrashes = 0
INVARIANTS
    RootsAreProven
    SharedBatches
PROPERTIES
    LeavesAreProvenOnce
    JobsAndRunsSettle
