CONSTANTS
    bridge = bridge
    hybrid = hybrid
    relay = relay
    disk = disk
    h1 = h1
    h2 = h2
    None = None
    Nodes = {bridge, hybrid, relay}
    Handlers = {h1, h2}
    Exits = {bridge, hybrid}
    Relays = {hybrid, relay}
    Checks = {disk}
    Fails <- MCFails
    BaseIPv4 = 10
    MaxIPv4 = 12
    MaxRegistrations = 3
    MaxPolicyChanges = 1
SPECIFICATION Spec
INVARIANTS
    AddressesAreIdentities
    RecordsCarryTheirAddress
    OffersAreFit
SYMMETRY Symmetry
CHECK_DEADLOCK FALSE
