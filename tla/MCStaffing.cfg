CONSTANTS
    r1 = r1
    r2 = r2
    Runs <- MCRuns
    TeamOf <- MCTeamOf
    Answers <- MCAnswers
    Proposals <- MCProposals
    Requests <- MCRequests
    MaxTeamSize = 3
    MaxSpawnDepth = 2
    MaxParallel = 2
    MaxEvents = 2
    MaxRestarts = 2
SPECIFICATION StaffSpec
CONSTRAINT TwoThings
CHECK_DEADLOCK FALSE
INVARIANTS
    StaffSafety
    RolesAreStaffed
    TeamsServe
    ChildrenAreRestricted
    NoLookalikes
