\* One node, three reports, a queue of two: it fills, and what is accepted reaches the disk.
CONSTANTS
    n1 = n1
    m1 = m1
    c1 = c1
    Nodes = {n1}
    Metas = {m1}
    Cfgs = {c1}
    NoNode = NoNode
    Down = Down
    MaxWeight = 1
    MaxReports = 3
    MaxPending = 2
    FirstFlushMayFail = FALSE
SPECIFICATION FairSpec
INVARIANT TypeOK
PROPERTIES
    ReportsReachDisk
    SamplesReachDisk
