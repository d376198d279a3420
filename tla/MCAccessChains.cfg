SPECIFICATION Spec
CONSTANTS
    None = None
    Accounts = {a1, a2}
    Roles = {r1, r2, r3}
    Forever = 9
    MaxHierarchy = 2
    DefaultLimits <- ThreeRoles
    Durations = {}
    SomeLimits = {}
    Parents = {r1, r2, r3}
    MaxBatch = 2
    MaxTime = 1
INVARIANTS
    ChainsWalkable
