SPECIFICATION Spec
CONSTANTS
    r1 = r1
    r2 = r2
    Requests <- MCRequests
    Kinds <- MCKinds
    Configs <- MCConfigs
    Tokens <- MCTokens
    NoKid = "none"
    NoJti = "none"
    KeySets <- MCKeySets
    CookieRoles <- MCRoles
    RolePermissions <- MCRolePermissions
    Allowlist <- MCAllowlist
    DefaultAllow = FALSE
    MaxBody = 1
    Burst = 1
    Capacity = 1
SYMMETRY Symmetry
CHECK_DEADLOCK FALSE
INVARIANTS
    TypeOK
    ServedWasEntitled
    
    LogsAccounted
    UnknownKidNeedsOverlap
