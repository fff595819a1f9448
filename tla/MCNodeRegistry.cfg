SPECIFICATION FairSpec
CONSTANTS
    n1 = n1
    s1 = s1
    s2 = s2
    r1 = r1
    r2 = r2
    Nodes = {n1}
    Sockets = {s1, s2}
    Requests = {r1, r2}
    NodeOf <- MCNodeOf
    PendingMax = 1
    NoSocket = NoSocket
    NoRequest = NoRequest
INVARIANTS
    TypeOK
    NoStrandedRequest
    PendingHasCaller
    PendingBounded
    ServingIsRegistered
    OwnCallNeverAnswered
PROPERTIES
    ImplementsOneShotRpc
    EveryCallEnds
    DeadSocketLeaves
CHECK_DEADLOCK FALSE
