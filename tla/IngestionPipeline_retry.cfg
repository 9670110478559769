SPECIFICATION FairSpec
CONSTANTS
    Ingestions = {i1}
    Messages = {m1}
    Runs = {r1}
    Jobs = {j1}
    Backends = {"batch"}
    MaxReceives = 2
    Faults = {"submit"}
    MaxFaults = 1
    NoIngestion = NoIngestion
    NoMessage = NoMessage
CHECK_DEADLOCK FALSE
PROPERTIES
    RetrySubmits
