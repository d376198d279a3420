SPECIFICATION Spec
CONSTANTS
    Addresses = {admin1}
    NoAdmin = NoAdmin
    Descriptions = {d1}
    Targets = {t1}
    MaxDependencyDepth = 1
    MaxGracePeriod = 1
    MaxTimestamp = 3
    Delays = {0, 1, 2, 3}
    Graces = {0, 1}
    PendingCaps = {0}
    Limits = {1, 2}
    MaxDeps = 2
    LastEta = 3
INVARIANT BlockedMeansUnfulfillable
