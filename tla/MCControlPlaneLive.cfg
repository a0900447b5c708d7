CONSTANTS
    bridge = bridge
    hybrid = hybrid
    relay = relay
    disk = disk
    h1 = h1
    h2 = h2
    None = None
    Nodes = {bridge, hybrid}
    Handlers = {h1, h2}
    Exits = {bridge, hybrid}
    Relays = {hybrid}
    Checks = {disk}
    Fails <- MCFails2
    BaseIPv4 = 10
    MaxIPv4 = 11
    MaxRegistrations = 3
    MaxPolicyChanges = 2
SPECIFICATION FairSpec
PROPERTY
    DiscoverySettles
CHECK_DEADLOCK FALSE
