SPECIFICATION StandaloneSpec
CONSTANTS
    None = None
    Addresses = {admin1}
    Contracts = {c1, c2}
    Names = {n1, n2}
    Reasons = {r1, r2}
    MaxVersion = 2
    MaxBulk = 2
    MaxBatch = 2
    Targets = {target}
    MaxArgsPerCall = 1
    MaxRetriesCap = 2
    Scale = 2
    MaxMultiplier = 6
    MaxBackoff = 4
    DefaultHistory = 2
    MaxHistoryCap = 3
    BaseFee = 1
    FeeDivisor = 2
    MinResourceFee = 1
    HighLoad = 1
    MaxU64 = 2
    Requests <- SomeRequests
    Backoffs <- SomeBackoffs
    Sizes = {0, 1, 2, 3}
    Loads = {0, 1}
    MaxEffects = 3
    Routes = {p1, p2, p3}
    BpsDenominator = 3
    MaxTrackedRoutes = 2
    MaxFeeTiers = 2
    MaxI128 = 8
    Fees = {0, 2, 4}
    Thresholds <- SomeThresholds
    Amounts <- SomeAmounts
    MaxTiers = 2
    MaxRequests = 2
    Configured = {"core", "quote", "registry"}
    RouteNames = {r1}
    MaxLedgers = 2
    MaxCycles = 2
    Addressees = {a1}
    Calls = 3
    CallLimit = 2
    LimitWindow = 4
    Second = 2
    LastMoment = 5
SYMMETRY StandaloneSymmetry
INVARIANTS
    IndexesExact
    LookupsMeanWhatTheySay
    ReceiptHonest
    ChargesAsPromised
    BestLeadsSorted
    GaugesHonest
    AddressLimitSound
PROPERTIES
    KeepsCatalog
    KeepsAccount
