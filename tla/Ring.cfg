SPECIFICATION Spec
CONSTANTS
    c1 = c1
    c2 = c2
    o1 = o1
    Consumers = {c1, c2}
    Observers = {o1}
    MaxConsumers = 1
    Capacity = 1
    MaxSeq = 2
    MaxIds = 3
    MaxExpiries = 1
    MaxCrashes = 1
INVARIANTS TypeOK LeaseStable RefCountExact NeededKept
SYMMETRY Symmetric
CHECK_DEADLOCK FALSE
