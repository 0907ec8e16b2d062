SPECIFICATION Spec
CONSTANTS
    c1 = c1
    c2 = c2
    c3 = c3
    Calls <- MCCalls
    Tools <- MCTools
    Inputs <- MCRunnable
    Supported <- MCSupported
    Allowlist <- MCAllowlist
    DefaultAllow = FALSE
    max_concurrent <- MCMaxConcurrent
    max_concurrent_global = 2
    max_queue = 3
    NeedsBearer <- MCNeedsBearer
    EnvBearer <- MCEnvBlank
SYMMETRY Symmetry
INVARIANTS
    NoToolStarvesOthers
