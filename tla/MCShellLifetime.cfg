SPECIFICATION FairSpec
CONSTANTS
    b1 = b1
    b2 = b2
    b3 = b3
    Browsers = {b1, b2, b3}
    Idle = 2
    Retry = 1
    MaxAttempts = 3
    MaxRestarts = 2
INVARIANTS
    TypeOK
    DesertedIsTimed
PROPERTIES
    WatchedIsKept
    TasksEnd
CHECK_DEADLOCK FALSE
