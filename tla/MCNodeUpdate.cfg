SPECIFICATION Spec
CONSTANTS
    q1 = q1
    q2 = q2
    s1 = s1
    s2 = s2
    old = old
    new = new
    Sockets = {s1, s2}
    Requests = {q1, q2}
    Releases = {old, new}
    FirstRelease = old
    MaxQueue = 1
    MaxDials = 2
    MaxAsks = 2
    MaxChanges = 2
    NoSocket = NoSocket
    NoRelease = NoRelease
INVARIANTS
    TypeOK
    RegisteredVersionIsShown
CHECK_DEADLOCK FALSE
