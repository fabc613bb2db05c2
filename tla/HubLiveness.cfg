\* One browser, two changes of the state, no settings handler.
CONSTANTS
    c1 = c1
    a = a
    b = b
    Clients = {c1}
    Contents = {a, b}
    Handlers = {}
    None = None
    ClientQueueCap = 1
    MaxClients = 1
    MaxChanges = 2
SPECIFICATION FairHubSpec
PROPERTIES
    AnnouncedChangesBroadcast
    CloseEnds
CHECK_DEADLOCK FALSE
