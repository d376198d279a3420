SPECIFICATION ServerSpec
CHECK_DEADLOCK FALSE
CONSTANTS
    None = None
    Clients = {c1, c2}
    Nonces = {n1, n2}
    MaxRequests = 3
    MaxPerWindow = 1
    Window = 1
    MaxBuckets = 1
    CacheSize = 1
    Ttl = 2
    SweepInterval = 1
    MaxTime = 2
SYMMETRY ServerSymmetry
INVARIANTS
    LimiterSound
    ReplaysExplained
