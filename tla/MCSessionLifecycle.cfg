SPECIFICATION Spec
CONSTANTS
    Cli = Cli
    s1 = s1
    s2 = s2
    q1 = q1
    q2 = q2
    q3 = q3
    q4 = q4
    Shells = {s1, s2}
    Requests = {q1, q2}
    MaxConnections = 1
    MaxSessions = 3
    NoSession = NoSession
    Nobody = Nobody
SYMMETRY MCSymmetry
INVARIANTS
    TypeOK
    OneLiveShell
    NoLockCycle
    OnlyLateShellsOutlive
PROPERTIES
    EndedStaysEnded
CHECK_DEADLOCK FALSE
