SPECIFICATION Spec
CONSTANTS
    Tasks = {t1, t2}
    Priorities = {0, 1}
    Clients = {c1, c2}
    ThreadCounts = {1, 2}
    QueueLimits <- NoneOrOne
    Deadlines = {TRUE}
    MaxWorkers = 2
    MaxWaits = 1
    MaxSettings = 2
SYMMETRY Symmetric
CHECK_DEADLOCK FALSE
INVARIANTS TypeOK NoStrandedTask EachTaskOnce RunningExact QueueOrder DoneMeansDone DestructorDrains SleeperIsWoken
