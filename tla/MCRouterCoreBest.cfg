SPECIFICATION Spec
CONSTANTS
    None = None
    Addresses = {admin1}
    ZeroAddress = zero
    Contracts = {c1, zero}
    Names = {n1, n2}
    WellFormed = {n1, n2}
    Tags = {}
    Metadata <- NoMetadata
    DefaultMaxRoutes = 3
    MaxRecursionDepth = 1
    MaxMetadataTags = 1
    MaxScoreValue = 2
    MaxScoringWeight = 1
    MaxLedger = 3
    Caps = {3}
    Ttls = {1}
    Scores <- TwoScores
    Weights <- AllWeights
    DefaultWeights <- ByLiquidity
    MaxBatch = 1
    MaxRouted = 1
INVARIANTS
    ResolvePicksBestLive
