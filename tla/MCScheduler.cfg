CONSTANTS
    t1 = t1
    t2 = t2
    t3 = t3
    a1 = a1
    a2 = a2
    NoAgent = NoAgent
    NoTask = NoTask
    NoCopy = NoCopy
    Tasks <- MCTasks
    Agents <- MCAgents
    Deps <- MCDeps
    CanServe <- MCCanServe
    Exclusive <- MCExclusive
    Demanding = {}
    EmptyHanded <- FirstTask
    RateLimitGrace = 0
    MaxAttempts = 2
    AttemptCap = 8
    MaxConcurrency = 2
    MaxRounds = 3
    Hooks = TRUE
    MaxInterventions = 1
    MaxResumes = 0
SPECIFICATION Spec
SYMMETRY AgentSymmetry
CHECK_DEADLOCK FALSE
INVARIANTS
    Safety
    UndisturbedRunsResolve
