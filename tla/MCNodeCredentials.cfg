SPECIFICATION FairSpec
CONSTANTS
    q1 = q1
    q2 = q2
    s1 = s1
    s2 = s2
    Sockets = {s1, s2}
    Requests = {q1, q2}
    MaxOperations = 3
    NoSocket = NoSocket
INVARIANTS
    TypeOK
    OldKeyOnlyByRace
    NoLockCycle
PROPERTIES
    AdminEnds
CHECK_DEADLOCK FALSE
