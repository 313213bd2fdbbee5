CONSTANTS
    t1 = t1
    t2 = t2
    t3 = t3
    a1 = a1
    a2 = a2
    NoAgent = NoAgent
    NoTask = NoTask
    NoCopy = NoCopy
    Tasks <- TwoTasks
    Agents <- MCAgents
    Deps <- TwoDeps
    CanServe <- TwoCanServe
    Exclusive <- TwoExclusive
    Demanding <- FirstTask
    EmptyHanded <- FirstTask
    RateLimitGrace = 1
    MaxAttempts = 1
    AttemptCap = 8
    MaxConcurrency = 2
    MaxRounds = 2
    Hooks = FALSE
    MaxInterventions = 2
    MaxResumes = 1
SPECIFICATION Spec
CHECK_DEADLOCK FALSE
INVARIANTS
    SucceededHasEvidence
PROPERTIES
    LoopEnds
    AgentsComeBack
