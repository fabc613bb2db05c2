\* The same store when the first full flush of a running server may fail.
CONSTANTS
    n1 = n1
    n2 = n2
    m1 = m1
    c1 = c1
    Nodes = {n1, n2}
    Metas = {m1}
    Cfgs = {c1}
    NoNode = NoNode
    Down = Down
    MaxWeight = 2
    MaxReports = 2
    MaxPending = 1
    FirstFlushMayFail = TRUE
SPECIFICATION Spec
SYMMETRY Symmetry
INVARIANT CleanStopSaves
