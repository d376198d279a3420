SPECIFICATION HistorySpec
CONSTANTS
    None = None
    Callers = {c1, c2}
    MaxU32 = 9
    MaxU64 = 9
    MaxLogRetention = 2
    StaleWindows = 2
    PruneInterval = 2
    Configs <- RateConfigs
    Overrides <- RateOverrides
    Strategies = {"reject", "throttle"}
    Toggles <- NoInputs
    MaxTime = 5
    MaxCalls = 5
    MaxReports = 0
    MaxFailures = 1
    ReportsUntil = 0
INVARIANTS
    ViewPredictsPreCall
    LimitHolds
