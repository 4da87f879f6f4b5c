SPECIFICATION FairSpec
CONSTANTS
    Keys = {k1}
    Kinds = {"blob", "erase"}
    Writers = {w1}
    MemTableOps = 1
    L0Trigger = 2
    L1Trigger = 2
    MaxBackgroundJobs = 2
    MaxSequence = 4
    MaxCrashes = 1
    MaxFaults = 1
    MaxCloses = 0
CHECK_DEADLOCK FALSE
INVARIANTS TypeOK ManifestFilesExist
PROPERTIES RefinesKvStore CompactionCatchesUp
