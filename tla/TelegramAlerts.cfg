\* One node; settings, membership, health and traffic, a crash, a fault, a lost answer.
CONSTANTS
    NodeCount = 1
    QueueCap = 1
    Workers = {w1}
    NoState = NoState
    MaxEvents = 4
    MaxCrashes = 1
    MaxFaults = 1
    MaxLost = 1
SPECIFICATION FairSpec
INVARIANTS
    NoRepeat
    FewWarnings
    NoStateOfDeleted
PROPERTIES
    DownIsTold
CHECK_DEADLOCK FALSE
