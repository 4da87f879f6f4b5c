SPECIFICATION Spec
CONSTANTS
    s1 = s1
    Streams = {s1}
    Chunks = 3
    Writes = {0, 3}
    StreamWindow = 2
    ConnWindow = 2
    MaxTracked = 3
    InitialWindow = 2
    Datagram = 2
    MaxLosses = 1
    MaxCopies = 1
    MaxSlow = 1
    MaxResets = 1
    MaxFaults = 2
INVARIANTS TypeOK AcksTruthful AckedIsDelivered NothingForgotten InFlightExact NoProtocolError CompleteMeansAll
CHECK_DEADLOCK FALSE
