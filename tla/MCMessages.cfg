\* Two messages, a reader, two safety points, a crash and a restore.
CONSTANTS
    r1 = r1
    p1 = p1
    p2 = p2
    Readers <- MCReaders
    Points <- MCPoints
    MaxMessages = 2
    Capacity = 1
    MaxCount = 2
    MaxRestores = 1
    MaxFaults = 1
    MaxCrashes = 1
SPECIFICATION Spec
SYMMETRY MCSymmetry
CHECK_DEADLOCK FALSE
INVARIANTS
    Safety
    ConversationKeepsAcked
