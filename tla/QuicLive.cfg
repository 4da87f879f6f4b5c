SPECIFICATION FairSpec
CONSTANTS
    s1 = s1
    s2 = s2
    Streams = {s1, s2}
    Chunks = 1
    Writes = {1}
    StreamWindow = 1
    ConnWindow = 1
    MaxTracked = 3
    InitialWindow = 2
    Datagram = 2
    MaxLosses = 1
    MaxCopies = 1
    MaxSlow = 0
    MaxResets = 0
    MaxFaults = 2
PROPERTIES RefinesByteStream EverythingArrives
CHECK_DEADLOCK FALSE
