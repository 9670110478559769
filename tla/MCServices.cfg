SPECIFICATION MCSpec
CONSTANTS
    None = None
    Tools = {t1}
    MaxSteps = 3
    HardStop = 3
    Groups = {g1, g2}
    ServiceOf <- ServiceOfGroup
    Odd = {}
    Amounts = {24}
    LastDay = 2
    MaxReports = 2
    Runs = {r1, r2}
    ARun = r1
    CostRequests = {q1}
    Attempts = 2
    Signatures = {s1}
    Detectors = {d1, d2}
    Quiet = 1
    Least = 20
    Deviations = {19, 20}
    MaxFeedClock = 2
    Bearers = {b1, b2}
    ABearer = b1
    Gates = {"ws-authorizer", "cost-api", "health-aggregator", "admin-api", "session-manager"}
    AGate = "cost-api"
    Kids = {k1, k2}
    First = k1
    Ttl = 1
    MaxFetch = 1
    Life = 3
    MaxAge = 1
    MaxClock = 3
    Callers = {c1, c2}
    Budget = 2
    Window = 3
    Second = 1
    MaxDelay = 1
    MaxInstants = 5
    MaxHits = 4
    Probes = {p1}
    TargetGroups = {tg1}
    CheckLogs = TRUE
    MaxChanges = 1
    MaxLog = 2
    PageSize = 1
    PRs = {pr1}
    Checks = {"lint", "tests"}
    Fixable = {"lint"}
    StallMin = 1
    MaxPolls = 3
    MaxTime = 2
    MaxWords = 2
    MaxSegments = 3
CHECK_DEADLOCK FALSE
INVARIANTS
    UnlinkedIsRecorded
    
    
    NoDeadAlerts
    
    BudgetHolds
    VerdictHasCause
    
    EachWordOnce
