SPECIFICATION Spec
CONSTANTS
    k1 = k1
    k2 = k2
    Keys <- TwoKeys
    Batches <- SplitBatches
    Writers = {w1, w2}
    Syncers = {}
    LazyWrite = FALSE
    MemTableBytes = 1
    MaxSequence = 2
    CrashKinds = {}
    MaxCrashes = 0
    MaxFaults = 0
    MaxCloses = 0
CHECK_DEADLOCK FALSE
INVARIANTS AckedSurvives
