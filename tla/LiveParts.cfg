\* The summaries: one node with a target and its metrics; days of two hours,
\* a retention of a day and a half, and a clock that crosses a midnight.  The
\* link: one list of targets, two faults, restarts, changes or timed lookups.
\* The pages: one page, one change of the state, no settings handler.
CONSTANTS
    n1 = n1
    t1 = t1
    v1 = v1
    Nodes = {n1}
    PingTargets = {t1}
    Resource = Resource
    Values = {v1}
    Parts = 2
    DayHours = 2
    Retention = 3
    FirstHour = 5
    LastHour = 7
    Lag = 4
    MaxWrites = 2
    targets1 = targets1
    TargetLists = {targets1}
    Nothing = Nothing
    Unknown = Unknown
    MaxEvents = 2
    c1 = c1
    a = a
    b = b
    Clients = {c1}
    Contents = {a, b}
    Handlers = {}
    None = None
    ClientQueueCap = 1
    MaxClients = 1
    MaxChanges = 1
SPECIFICATION LiveSpec
PROPERTIES
    IdentityDelivered
    TargetsMeasured
    EpochsLookedUp
    CaughtUp
    PagesConverge
    NothingOvertaken
CHECK_DEADLOCK FALSE
