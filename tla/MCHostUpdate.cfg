SPECIFICATION Spec
CONSTANTS
    u1 = u1
    u2 = u2
    v1 = v1
    v2 = v2
    v3 = v3
    Updaters = {u1, u2}
    Releases = {v1, v2, v3}
    FirstRelease = v1
    MaxUpdates = 3
    Partial = Partial
    NoRelease = NoRelease
INVARIANTS
    TypeOK
PROPERTIES
    OutcomesAreTrue
CHECK_DEADLOCK FALSE
