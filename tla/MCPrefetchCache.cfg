CONSTANTS
    h1 = h1
    h2 = h2
    p1 = p1
    k1 = k1
    k2 = k2
    k3 = k3
    k4 = k4
    NoKey = NoKey
    NoThread = NoThread
    Threads <- MCThreads
    Hosts = {h1, h2}
    Pool = {p1}
    Keys = {k1, k2, k3, k4}
    MaxEntries = 3
    MaxPending = 2
    Threshold = 2
    MaxFetches = 3
    MaxCalls = 4
    MaxWrites = 2
SPECIFICATION Spec
SYMMETRY HermesSymmetry
INVARIANTS
    PendingIsServed
    RoomForPending
    OnlyForegroundIsStale
    ProbeIsUsed
PROPERTIES
    OnlyProbeDecides
CHECK_DEADLOCK FALSE
