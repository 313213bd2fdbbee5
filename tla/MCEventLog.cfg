\* Two writers, two runs, three events; one switch, one refresh, two faults.
CONSTANTS
    w1 = w1
    w2 = w2
    ra = ra
    rb = rb
    k1 = k1
    Writers <- MCWriters
    Runs <- MCRuns
    Keys <- MCKeys
    MaxEvents = 3
    MaxBatch = 2
    HistoryPage = 1
    HistoryCap = 2
    StreamPage = 2
    MaxWire = 1
    TrimAt = 2
    TrimBy = 1
    MaxSwitches = 1
    MaxRefreshes = 1
    MaxFailures = 1
SPECIFICATION LogFairSpec
CHECK_DEADLOCK FALSE
INVARIANTS
    LogIsSound
    PageSafety
PROPERTIES
    ChatCatchesUp
