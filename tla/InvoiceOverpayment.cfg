SPECIFICATION InvoiceSpec
CONSTANTS
    r1 = r1
    r2 = r2
    r3 = r3
    Handlers <- MCHandlers
    Amounts = {0, 1, 2, 3}
    Total = 2
    Patches <- MCStatusPatches
    Endings = {"ok"}
SYMMETRY Symmetry
CHECK_DEADLOCK FALSE
INVARIANTS
    NoOverpayment
