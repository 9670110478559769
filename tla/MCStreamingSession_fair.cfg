SPECIFICATION FairSpec
CONSTANTS
    Sessions = {s1}
    Pools = {p1}
    Workers = {w1}
    MaxInstances = 2
    Cap = 1
    MaxReceives = 3
    MaxFaults = 1
    NoSession = NoSession
    NoPool = NoPool
CHECK_DEADLOCK FALSE
PROPERTIES
    IntentsAreResolved
    DisconnectIsNoticed
