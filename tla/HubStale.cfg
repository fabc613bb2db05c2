\* The hub alone, with a ticker that never stops.
CONSTANTS
    c1 = c1
    a = a
    b = b
    Clients = {c1}
    Contents = {a, b}
    Handlers = {}
    None = None
    ClientQueueCap = 2
    MaxClients = 1
    MaxChanges = 1
SPECIFICATION TickingSpec
PROPERTY ClientsConverge
CHECK_DEADLOCK FALSE
