\* Two tasks, the second on the output of the first, two agents, one write that is lost,
\* one copy to be added back.
CONSTANTS
    t1 = t1
    t2 = t2
    a1 = a1
    a2 = a2
    NoAgent = NoAgent
    Tasks <- MCTasks
    Agents <- MCAgents
    Deps <- MCDeps
    MaxAttempts = 1
    RateLimitGrace = 1
    AttemptCap = 2
    LostWriteCap = 1
    CopyCap = 1
SPECIFICATION Spec
SYMMETRY AgentSymmetry
INVARIANTS
    Safety
    CacheIsDurable
    RetryBudget
PROPERTIES
    NoStolenClaim
    ImplementsLedger
CONSTRAINT OneIsFollowed
