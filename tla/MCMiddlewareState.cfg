SPECIFICATION FairSpec
CONSTANTS
    None = None
    Callers = {c1}
    MaxU32 = 9
    MaxU64 = 9
    MaxLogRetention = 2
    StaleWindows = 2
    PruneInterval = 2
    Configs <- StateConfigs
    Overrides <- NoInputs
    Strategies <- NoInputs
    Toggles = {TRUE, FALSE}
    MaxTime = 4
    MaxCalls = 2
    MaxReports = 4
    MaxFailures = 3
    ReportsUntil = 3
INVARIANTS
    LogIsTail
PROPERTIES
    TripsAtThreshold
    OpenBlocks
    CircuitRecovers
