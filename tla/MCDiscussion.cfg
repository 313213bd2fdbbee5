\* Four agents, up to three rounds, one review cycle and one request on the
\* room, under both drivers, with and without a required review.
SPECIFICATION RoomSpec
CONSTANTS
    r1 = r1
    Team <- MCTeam
    Watched <- MCWatched
    Hears <- MCHears
    Alias <- MCAlias
    Synonym <- MCSynonym
    Turns <- MCTurns
    Requests <- MCRequests
    Kinds <- MCKinds
    MaxRounds = 3
    MaxCycles = 1
    MaxStale = 2
INVARIANTS
    RoomSafety
PROPERTIES
    DoneByItsRole
    OnlyShownIsRead
    RunEnds
CHECK_DEADLOCK FALSE
