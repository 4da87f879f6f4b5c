SPECIFICATION SnapSpec
CONSTANTS
    Keys = {k1}
    Kinds = {"put", "erase"}
    Writers = {w1}
    MemTableOps = 1
    L0Trigger = 2
    L1Trigger = 2
    MaxBackgroundJobs = 2
    MaxSequence = 2
    MaxCrashes = 0
    MaxFaults = 0
    MaxCloses = 0
    MaxSnapshots = 1
CHECK_DEADLOCK FALSE
INVARIANT GetErasedMisses
