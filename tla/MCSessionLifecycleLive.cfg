SPECIFICATION FairSpec
CONSTANTS
    Cli = Cli
    s1 = s1
    s2 = s2
    q1 = q1
    q2 = q2
    q3 = q3
    q4 = q4
    Shells = {s1}
    Requests = {q1, q2}
    MaxConnections = 1
    MaxSessions = 3
    NoSession = NoSession
    Nobody = Nobody
PROPERTIES
    EveryTransactionEnds
CHECK_DEADLOCK FALSE
