\* Four nodes, a queue of two and nothing that happens: only the rotation.
CONSTANTS
    NodeCount = 4
    QueueCap = 2
    Workers = {w1}
    NoState = NoState
    MaxEvents = 0
    MaxCrashes = 0
    MaxFaults = 0
    MaxLost = 0
SPECIFICATION FairSpec
PROPERTIES
    EveryNodeChecked
CHECK_DEADLOCK FALSE
