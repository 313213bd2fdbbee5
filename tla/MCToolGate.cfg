\* Two attempts, two calls at a time, one lost event, one restart anywhere.
CONSTANTS
    t1 = t1
    t2 = t2
    g1 = g1
    deploy = deploy
    write = write
    spawn = spawn
    Calls <- MCCalls
    Agents <- MCAgents
    Commands <- MCCommands
    Kind <- MCKindOf
    Worktree = TRUE
    MaxCalls = 1
    RepromptCalls = 1
    MaxAttempts = 2
    MaxRequests = 1
    MaxFaults = 1
    MaxRestarts = 1
SPECIFICATION Spec
SYMMETRY MCSymmetry
CHECK_DEADLOCK FALSE
INVARIANTS
    Safety
    EffectsStayInAttempt
    StartedRowsAreAttended
