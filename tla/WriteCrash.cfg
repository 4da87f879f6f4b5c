SPECIFICATION Spec
CONSTANTS
    k1 = k1
    k2 = k2
    Keys <- TwoKeys
    Batches <- MixedBatches
    Writers = {w1}
    Syncers = {}
    LazyWrite = FALSE
    MemTableBytes = 2
    MaxSequence = 4
    CrashKinds = {"process", "power"}
    MaxCrashes = 2
    MaxFaults = 1
    MaxCloses = 0
CHECK_DEADLOCK FALSE
INVARIANTS AckedSurvives
