CONSTANTS
    x = x
    w = w
    w1 = w1
    None = None
    IPs = {x, w}
    Whitelisted = {w}
    SubnetOf <- MCSubnetOf
    IPCap = 2
    IPRefill = 1
    SubnetCap = 2
    SubnetRefill = 3
    Points = 35
    BanThreshold = 36
    HalvingsPerTick = 3
    BanDuration = 0
    AlertWindow = 1
    StaleAfter = 0
    Workers = {w1}
    QueueCapacity = 1
    MaxConns = 3
    MaxTime = 2
SPECIFICATION FairSpec
INVARIANTS
    TypeOK
    RateIsBounded
    VerdictsFollowProbes
    CrossingsArePunished
    OneAlertPerWindow
PROPERTY StopReturns
CHECK_DEADLOCK FALSE
