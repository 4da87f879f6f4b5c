SPECIFICATION Spec
CONSTANTS
    k1 = k1
    k2 = k2
    Keys <- TwoKeys
    Batches <- SplitBatches
    Writers = {w1}
    Syncers = {s1}
    LazyWrite = TRUE
    MemTableBytes = 2
    MaxSequence = 3
    CrashKinds = {"power"}
    MaxCrashes = 1
    MaxFaults = 0
    MaxCloses = 0
CHECK_DEADLOCK FALSE
INVARIANTS SyncedSurvives
