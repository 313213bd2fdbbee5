\* One task and its repair, two agents, two contents, three artifacts, one retry,
\* and one of: a failing write, a crash, a stop, a cancellation, a replan request.
CONSTANTS
    t1 = t1
    t2 = t2
    r1 = r1
    a1 = a1
    a2 = a2
    x = x
    y = y
    base = base
    none = none
    Tasks <- MCTasks
    Plan <- MCPlan
    MaxTries = 4
    Agents <- MCAgents
    Contents <- MCContents
    Base = base
    NoTask = none
    NoAgent = none
    MaxArtifacts = 3
    MaxAttempts = 2
    MaxTroubles = 1
SPECIFICATION Spec
SYMMETRY MCSymmetry
INVARIANTS Safety SucceededIsBacked SuccessIsEarned
CHECK_DEADLOCK FALSE
