\* Two tools at once, two calls, one repair or new plan, one crash; one copy of a
\* record at a time in the scheduler's hands.
CONSTANTS
    a = a
    b = b
    n1 = n1
    n2 = n2
    c1 = c1
    c2 = c2
    Ids <- MCIds
    Plans <- MCPlans
    Callers <- MCCallers
    Requests <- MCRequests
    MaxCalls = 2
    MaxTaken = 1
    MaxRevisions = 1
    MaxCrashes = 1
SPECIFICATION Spec
SYMMETRY CallerSymmetry
CONSTRAINT FirstDispatchCopies
CHECK_DEADLOCK FALSE
INVARIANTS
    Safety
    PlanIsSound
    RowsMirrorPlan
    BoardFollowsPlan

