SPECIFICATION FairSpec
CONSTANTS
    k1 = k1
    k2 = k2
    Keys <- OneKey
    Batches <- PutBatches
    Writers = {w1, w2}
    Syncers = {}
    LazyWrite = FALSE
    MemTableBytes = 1
    MaxSequence = 3
    CrashKinds = {}
    MaxCrashes = 0
    MaxFaults = 1
    MaxCloses = 1
CHECK_DEADLOCK FALSE
PROPERTIES WriterReturns MemTablesFlushed CloseEnds
