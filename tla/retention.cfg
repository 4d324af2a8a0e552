SPECIFICATION MCSpec
CONSTANTS
    Hour = 2
    Day = 4
    RawWindow = 4
    HourlyWindow = 12
    Interval = 2
    RunTime = 1
    Late = 1
    Ranges <- MCRanges
    Horizon = 20
    MaxSamples = 2
INVARIANTS
    RetentionTypeOK
    NothingLost
    HistoryBounded
    NeverTwice
    HistoryComplete
CHECK_DEADLOCK FALSE
