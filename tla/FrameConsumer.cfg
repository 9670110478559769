SPECIFICATION FairSpec
CONSTANTS
    MaxSeq = 3
    Unusable = {junk}
    Seqless = {legacy}
    Flaky = {0, 1}
CHECK_DEADLOCK FALSE
PROPERTIES
    StopEndsStream
    GapPassesUnlessBusySkip
INVARIANTS
    AscendingUnlessBusySkip
    
