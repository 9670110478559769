SPECIFICATION FairSpec
CONSTANTS
    Handlers = {h1, h2}
    Kinds = {"checkout", "created", "updated", "deleted", "invoice"}
    UserIdOn = {"checkout", "created", "updated", "deleted", "invoice"}
    MaxEvents = 2
    MaxRepeats = 1
    MaxFaults = 1
CHECK_DEADLOCK FALSE
INVARIANTS
    NoImmediateReplay
    LoggedAtMostAsApplied
    

    
