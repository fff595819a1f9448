SPECIFICATION FairSpec
CONSTANTS
    t1 = t1
    t2 = t2
    ann = ann
    q1 = q1
    q2 = q2
    Tunnels = {t1, t2}
    PortOf <- MCPortOf
    OwnerOf <- MCOwnerOf
    Requests = {q1, q2}
    Policies <- MCPolicies
    FleetBudget = 1
    UserMax = 2
    DefaultTtl = 1
    MaxTtl = 2
    MaxQueue = 1
    NoTunnel = NoTunnel
    Unlimited = Unlimited
    Garbage = Garbage
    PortFloor = 4
    PortCeiling = 8
    NodeCap = 3
INVARIANTS
    TypeOK
    OnlyEmptyListWidens
    OneOpenRowPerPort
PROPERTIES
    ClosedForGood
    ProcessesEnd
    TransactionsEnd
CONSTRAINT InOrder
CHECK_DEADLOCK FALSE
