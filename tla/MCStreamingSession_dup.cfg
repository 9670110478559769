SPECIFICATION Spec
CONSTANTS
    Sessions = {s1}
    Pools = {p1, p2}
    Workers = {w1, w2}
    MaxInstances = 2
    Cap = 1
    MaxReceives = 2
    MaxFaults = 1
    NoSession = NoSession
    NoPool = NoPool
CHECK_DEADLOCK FALSE
SYMMETRY StreamSymmetry
INVARIANTS
    QueuesAreNotShared
