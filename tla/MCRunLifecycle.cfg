\* Two requests, one crash and one stall, anywhere.
CONSTANTS
    w1 = w1
    w2 = w2
    start1 = start1
    resume1 = resume1
    resume2 = resume2
    none = none
    departed = departed
    Workers <- MCWorkers
    Executions <- MCExecutions
    Starts <- MCStarts
    Host <- MCHost
    Nobody = none
    Departed = departed
    MaxRequests = 2
    MaxCrashes = 1
    MaxStalls = 1
SPECIFICATION FairSpec
CHECK_DEADLOCK FALSE
INVARIANTS
    Safety
    NoGhostRun
PROPERTIES
    RunsSettle
    ClosedRunsStayClosed
