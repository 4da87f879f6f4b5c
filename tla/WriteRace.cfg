SPECIFICATION Spec
CONSTANTS
    k1 = k1
    k2 = k2
    Keys <- TwoKeys
    Batches <- SplitBatches
    Writers = {w1, w2}
    Syncers = {}
    LazyWrite = FALSE
    MemTableBytes = 1
    MaxSequence = 3
    CrashKinds = {}
    MaxCrashes = 0
    MaxFaults = 0
    MaxCloses = 2
CHECK_DEADLOCK FALSE
INVARIANTS TypeOK LookupIsNewest AckedLogged CloseKeepsWrites
PROPERTIES DiskMonotone
