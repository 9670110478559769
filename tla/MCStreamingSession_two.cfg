SPECIFICATION Spec
CONSTANTS
    Sessions = {s1, s2}
    Pools = {p1, p2}
    Workers = {w1}
    MaxInstances = 2
    Cap = 1
    MaxReceives = 1
    MaxFaults = 1
    NoSession = NoSession
    NoPool = NoPool
CHECK_DEADLOCK FALSE
SYMMETRY StreamSymmetry
INVARIANTS
    HearsOwnSession
    CapHolds
