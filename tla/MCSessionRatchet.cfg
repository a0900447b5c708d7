CONSTANTS
    a = a
    b = b
    t1 = t1
    t2 = t2
    None = None
    Initiator = a
    Responder = b
    Senders = {a}
    Threads = {t1, t2}
    Owner <- MCOwner
    MaxGen = 3
    MaxSeq = 3
    MaxFrames = 3
    MaxTime = 1
    DualKeyGracePeriod = 0
    WindowSizeBits = 2
    WordBits = 1
SPECIFICATION Spec
INVARIANTS
    WindowMatchesDeliveries
    NoFalseReplay
    KeysInUseIntact
PROPERTY
    ImplementsChannel
SYMMETRY Symmetry
CHECK_DEADLOCK FALSE
