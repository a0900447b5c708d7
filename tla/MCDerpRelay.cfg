CONSTANTS
    alice = alice
    bob = bob
    a1 = a1
    b1 = b1
    b2 = b2
    NoConn = NoConn
    Keys = {alice, bob}
    Conns = {a1, b1, b2}
    KeyOf <- MCKeyOf
    Fragile = {b1}
    MaxPackets = 2
    Buffer = 2
SPECIFICATION FairSpec
INVARIANTS
    NoGhostSessions
    RelayKeepsOrder
PROPERTIES
    ImplementsService
    ConnectReturns
    RelayDrains
CHECK_DEADLOCK FALSE
