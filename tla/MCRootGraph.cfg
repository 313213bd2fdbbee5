\* Two tasks, one repair round for each, and one crash, late replan request or
\* human answer anywhere.
CONSTANTS
    t1 = t1
    t2 = t2
    Tasks <- MCTasks
    Depends <- MCDepends
    MaxRepairRounds = 1
    RecursionLimit = 16
    MaxDisturbances = 1
SPECIFICATION Spec
CHECK_DEADLOCK FALSE
INVARIANTS
    Safety
    SucceededRunsAreDone
