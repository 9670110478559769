SPECIFICATION FairSpec
CONSTANTS
    Keys = {k1, k2}
    Tasks = {t1, t2}
    MaxRuns = 3
    MaxFaults = 1
CHECK_DEADLOCK FALSE

    
    
PROPERTIES
    IntentGetsOutcome
