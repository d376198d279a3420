SPECIFICATION FairSpec
CHECK_DEADLOCK FALSE
CONSTANTS
    None = None
    Sockets = {c1}
    TxIds = {t1, t2}
    Watched = {t1}
    MaxRequests = 2
    MaxConnections = 2
    MaxSubscriptions = 1
    Capacity = 2
    IdleTicks = 2
    MaxLoad = 3
    MaxRepeats = 0
PROPERTIES
    EveryEventArrives
    PendingResolved
