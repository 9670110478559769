SPECIFICATION Spec
CONSTANTS
    Keys = {k1}
    Tasks = {t1, t2}
    MaxRuns = 2
    MaxFaults = 0
CHECK_DEADLOCK FALSE
INVARIANT AtMostOnce
