\* One node with a target and its metrics; days of two hours, a retention of
\* a day and a half, and a clock that crosses two midnights.
CONSTANTS
    n1 = n1
    t1 = t1
    v1 = v1
    v2 = v2
    Nodes = {n1}
    PingTargets = {t1}
    Resource = Resource
    Values = {v1, v2}
    Parts = 2
    DayHours = 2
    Retention = 3
    FirstHour = 5
    LastHour = 8
    Lag = 4
    MaxWrites = 2
SPECIFICATION Spec
SYMMETRY Symmetry
INVARIANTS
    TypeOK
    SummariesCurrent
    ResourceReadExact
    PingReadExact
    DeletedLeavesNothing
