SPECIFICATION FairSpec
CONSTANTS
    Ingestions = {i1}
    Messages = {m1}
    Runs = {r1, r2}
    Jobs = {j1}
    Backends = {"batch", "inline"}
    MaxReceives = 2
    Faults = {"publish", "submit", "run", "job"}
    MaxFaults = 1
    NoIngestion = NoIngestion
    NoMessage = NoMessage
CHECK_DEADLOCK FALSE
PROPERTIES
    UploadGetsVerdict
INVARIANTS
    AnnouncedOnce
    PendingIsWorkedOn
PROPERTIES
    SucceededStaysUnlessRaced
