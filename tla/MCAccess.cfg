SPECIFICATION Spec
CONSTANTS
    None = None
    Accounts = {a1, a2}
    Roles = {r1, r2}
    Forever = 9
    MaxHierarchy = 3
    DefaultLimits <- OneOfEach
    Durations = {0}
    SomeLimits <- LowerLimits
    Parents = {r1, r2}
    MaxBatch = 2
    MaxTime = 1
SYMMETRY AccessSymmetry
INVARIANTS
    RecordsAgree
    MembersAccountedFor
    HierarchyAcyclic
    NeverUndercounts
PROPERTIES
    RolesWithinCap
