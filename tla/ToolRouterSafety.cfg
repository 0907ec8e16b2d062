SPECIFICATION Spec
CONSTANTS
    c1 = c1
    c2 = c2
    c3 = c3
    Calls <- MCCalls
    Tools <- MCTools
    Inputs <- MCInputs
    Supported <- MCSupported
    Allowlist <- MCAllowlist
    DefaultAllow = FALSE
    max_concurrent <- MCMaxConcurrent
    max_concurrent_global = 2
    max_queue = 2
    NeedsBearer <- MCNeedsBearer
    EnvBearer <- MCEnvBlank
SYMMETRY Symmetry
INVARIANTS
    TypeOK
    PermitsConserved
    ConcurrencyCaps
    OnlyVettedToolsRun
    AuditMatchesAnswer
PROPERTIES
    QueueFullIsTrue
    ImplementsService
