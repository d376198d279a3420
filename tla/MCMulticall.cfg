SPECIFICATION Spec
CONSTANTS
    None = None
    Addresses = {admin1}
    MaxArgsPerCall = 1
    MaxStoredBatches = 2
    MaxU64 = 2
    Calls <- SomeCalls
    Sizes = {0, 1, 2}
    GasLimits = {1}
    MaxCalls = 2
    MaxTotal = 3
    MaxEffects = 3
INVARIANTS
    ResultsWindow
PROPERTIES
    BatchesAreAtomic
