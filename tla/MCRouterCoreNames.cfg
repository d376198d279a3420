SPECIFICATION NamesSpec
CONSTANTS
    None = None
    Addresses = {admin1}
    ZeroAddress = zero
    Contracts = {c1, zero}
    Names = {n1, n2, n3, n4}
    WellFormed = {n1, n2, n3, n4}
    Odd = n4
    Tags = {t1}
    Metadata <- AnyMetadata
    DefaultMaxRoutes = 4
    MaxRecursionDepth = 2
    MaxMetadataTags = 1
    MaxScoreValue = 2
    MaxScoringWeight = 1
    MaxLedger = 0
    Caps = {0, 2, 3}
    Ttls = {}
    Scores <- NoScores
    Weights <- NoScores
    DefaultWeights <- ByLiquidity
    MaxBatch = 2
    MaxRouted = 0
SYMMETRY NameSymmetry
INVARIANTS
    IndexesExact
    NamesUnambiguous
    GraphSound
    ResolvesInOrder
PROPERTIES
    KeepsDirectory
