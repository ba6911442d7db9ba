SPECIFICATION FairSpec
CONSTANTS
    Nil = Nil
    r1 = r1
    r2 = r2
    r3 = r3
    k1 = k1
    k2 = k2
    Runs = {r1}
    SoloRuns = {}
    MaxSegments = 1
    MaxRuns = 2
    Keys = {k1, k2}
    Batches = {b1}
    Handlers = {h1}
    VerifySlots = {v1}
    CircuitSlots = {c1}
    Posts <- None
    Uploads <- ShortGames
    Declared <- None
    Link <- Sequel
    MaxAttempts = 1
    MaxFaults = 0
    MaxCloses = 0
    MaxCrashes = 1
PROPERTIES
    EveryRunSettles
