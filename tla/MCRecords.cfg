SPECIFICATION MCSpec
CONSTANTS
    Sessions = {s1, s2}
    Requests = {q1, q2}
    Positions = {1, 2, 3, 4}
    Limit = 2
    None = None
    BlockedSessions = {s1, s2}
    OwnerRequests = {q1}
    Operators = {a1, a2}
    AnOperator = a1
    ASession = s1
    RecordKinds = {"ingestion", "api_key", "tenant"}
    MaxFailures = 1
    Writers = {q1, q2}
    Readers = {g1, g2}
    Notices = {q1, q2}
    MaxAttempts = 3
    Visits = {q1, q2, q3}
    MaxPayments = 2
    MaxFaults = 1
    MaxCalls = 2
    MaxSessions = 2
    MaxSources = 2
    MaxFrames = 3
CHECK_DEADLOCK FALSE
INVARIANTS
    WalkIsComplete
    NoResurrection
    
    SummariesAreWhole
    RecordsAreTrue
    CustomersAreFound
    AudioIsKept
    PageIsInControl
PROPERTIES
    IllegalMovesAreRaces
