SPECIFICATION Spec
CONSTANTS
    Pools = {p1, p2}
    Sessions = {s1, s2}
    Claimers = {c1, c2}
    NoUrl = {p2}
    NoSession = NoSession
    NoPool = NoPool
INVARIANTS
    SlotsStayClaimed
PROPERTIES
    GrantsAreAtomic
