\* Two nodes, two values of each kind of data, crashes at every step.
CONSTANTS
    n1 = n1
    n2 = n2
    m1 = m1
    m2 = m2
    c1 = c1
    c2 = c2
    Nodes = {n1, n2}
    Metas = {m1, m2}
    Cfgs = {c1, c2}
    NoNode = NoNode
    Down = Down
    MaxWeight = 2
    MaxReports = 2
    MaxPending = 2
    FirstFlushMayFail = FALSE
SPECIFICATION Spec
SYMMETRY Symmetry
INVARIANTS
    MetadataDurable
    NoResurrection
    NoSampleLost
    CleanStopSaves
PROPERTIES
    NoRollback
    RegistrySpec
