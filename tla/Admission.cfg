SPECIFICATION AdmissionSpec
CONSTANTS
    r1 = r1
    r2 = r2
    Validations <- MCRequests
    Keys = {"cookie", "bearer"}
    Principals = {"user"}
    NoSession = "null"
    Fresh = 1
    Stale = 2
    Timeout = 1
    MaxCache = 0
    MaxTime = 4
    Clients = {"u"}
    Methods = {"GET", "HEAD", "POST"}
    Routes = {"tasks"}
    Burst <- MCBurst
    Rate <- MCRate
    Unit = 3
    MaxInstant = 8
    MaxAllowed = 6
    Edits <- MCRequests
    Users = {"u1", "u2"}
    Emails = {"a@x", "b@x"}
    MODULE_KEYS = {"tools", "soc2"}
    Requested <- MCRequested
    Roles = {"admin", "root"}
    NoRole = "none"
    InitialEmail <- MCInitialEmail
    NoEmail = "absent"
    NoUser = "nobody"
    Replies = {"ok", "rejected", "unsent", "lost"}
SYMMETRY Symmetry
INVARIANTS
    AcceptedWasVouched
    CacheBounded
    TokensExact
    WindowBound
    NoSpuriousDenial
    DeniedOnlyIfWithheld
    LoneEditInForce
