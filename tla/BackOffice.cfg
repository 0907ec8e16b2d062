SPECIFICATION BackOfficeSpec
CONSTANTS
    r1 = r1
    r2 = r2
    r3 = r3
    Requests <- MCRequests
    WorkInputs <- MCWorkInputs
    WorkTables <- MCWorkTables
    Changes <- MCChanges
    Admins = {"root"}
    TaskIds = {"t1", "t2"}
    SprintIds = {"s1", "s2", "s3"}
    ProjectIds = {"p1", "p2"}
    TeamIds = {"m1", "m2"}
    CommentIds = {"c1", "c2"}
    LabelIds = {"l1"}
    ViewIds = {"v1", "v2"}
    OrgId = "home"
    CrmInputs <- MCCrmInputs
    CrmTables <- MCCrmTables
    Payloads <- MCPayloads
    RecordIds = {"k1", "k2"}
    MaxFailed = 2
    Handlers <- MCHandlers
    Amounts = {0, 1, 2, 3}
    Total = 2
    Patches <- MCPatches
    Endings = {"ok", "rejected", "unsent", "lost"}
    Runs = {1, 2}
    Origin = 0
    AccountMap <- MCAccountMap
    Customers <- MCCustomers
    Suppliers <- MCSuppliers
    BankAccounts <- MCBankAccounts
    Journal <- MCJournal
    Preexisting = {"1000"}
    HasTrialBalance = TRUE
    MaxConcurrent = 1
    LookupReplies = {"ok", "rejected", "unsent"}
    WriteReplies = {"ok", "rejected", "unsent", "lost", "garbled"}
SYMMETRY PairSymmetry
CHECK_DEADLOCK FALSE
INVARIANTS
    TypeOK
    SprintNumbersApart
    RoleWasHeld
    CountsAddUp
    ReplacementInForce
    OrphansNeedFault
    BooksAgree
    NeverOverstated
    PaidMeansCovered
    ImportTypeOK
    CleanReportIsComplete
    PurgeClears
    NoDuplicateNames
PROPERTIES
    DryRunWritesNothing
