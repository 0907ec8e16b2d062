SPECIFICATION Spec
CONSTANTS
    r1 = r1
    r2 = r2
    Requests <- MCRequests
    Users = {"ann", "bob"}
    Notes = {"n1"}
    Targets = {"bob", "b@x"}
    Permissions = {"viewer", "editor"}
    EmailOf <- MCEmailOf
    Forwarded = {"b@x"}
    Lower <- MCLower
    NoteRows <- MCNoteRows
    NoEmail = "none"
    NoUser = "nobody"
    NoTarget = "nobody in particular"
    NoNote = NoNote
    InitialNotes <- MCInitialNotes
    InitialShares <- MCInitialShares
    Payloads <- MCPayloads
    MaxChanges = 1
SYMMETRY Symmetry
CHECK_DEADLOCK FALSE
INVARIANTS
    ServedToPrincipal
