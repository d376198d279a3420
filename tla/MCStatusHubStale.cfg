SPECIFICATION Spec
CHECK_DEADLOCK FALSE
CONSTANTS
    None = None
    Sockets = {c1, c2}
    TxIds = {t1, t2}
    Watched = {t1}
    MaxRequests = 2
    MaxConnections = 2
    MaxSubscriptions = 2
    Capacity = 2
    IdleTicks = 1
    MaxLoad = 3
    MaxRepeats = 1
PROPERTIES
    NoStaleEvents
