SPECIFICATION FairSpec
CONSTANTS
    Addresses = {admin1}
    NoAdmin = NoAdmin
    Descriptions = {d1}
    Targets = {t1}
    MaxDependencyDepth = 0
    MaxGracePeriod = 1
    MaxTimestamp = 5
    Delays = {1, 2}
    Graces = {0, 1}
    PendingCaps = {2}
    Limits = {1}
    MaxDeps = 2
    LastEta = 3
PROPERTIES
    Reclaimed
