\* Each part with an instance of its own: two browsers that compete for one
\* place, two logins and two settings requests, two addresses for a table of
\* one, three keys for a table of two, two machines that install, and three
\* nodes for two workers and a queue of one.
CONSTANTS
    c1 = c1
    c2 = c2
    va = va
    vb = vb
    handler1 = handler1
    Clients = {c1, c2}
    Contents = {va, vb}
    Handlers = {handler1}
    None = None
    ClientQueueCap = 1
    MaxClients = 1
    MaxChanges = 1
    l1 = l1
    l2 = l2
    r1 = r1
    r2 = r2
    pw1 = pw1
    pw2 = pw2
    Logins = {l1, l2}
    Requests = {r1, r2}
    Passwords = {pw1, pw2}
    NoOne = NoOne
    MaxPasswords = 2
    a1 = a1
    a2 = a2
    Addresses = {a1, a2}
    Attempts = 2
    Window = 2
    MaxAddresses = 1
    MaxClock = 5
    k1 = k1
    k2 = k2
    k3 = k3
    caller1 = caller1
    caller2 = caller2
    Keys = {k1, k2, k3}
    Callers = {caller1, caller2}
    Free = Free
    Spacings = {2}
    TTL = 3
    MaxWait = 1
    MaxKeys = 2
    MaxTime = 3
    MaxCalls = 4
    i1 = i1
    i2 = i2
    m1 = m1
    m2 = m2
    Installs = {i1, i2}
    Names = {m1, m2}
    Nobody = Nobody
    MaxWindows = 2
    NodeCount = 3
    QueueCap = 1
    w1 = w1
    w2 = w2
    Workers = {w1, w2}
    NoState = NoState
    MaxEvents = 1
    MaxCrashes = 0
    MaxFaults = 0
    MaxLost = 0
SPECIFICATION PartsSpec
SYMMETRY Symmetry
INVARIANTS
    HubTypeOK
    NoOrphan
    NoStaleSession
    AttemptsBounded
    PaceHeld
    NamesUnique
    TypeOK
    OneCheck
PROPERTIES
    OnlyCurrentReplaces
CHECK_DEADLOCK FALSE
