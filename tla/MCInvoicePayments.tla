------------------------- MODULE MCInvoicePayments -------------------------
(* An invoice over 2 units and three requests of any kind.                *)
EXTENDS InvoicePayments, TLC

CONSTANTS r1, r2, r3
MCHandlers == {r1, r2, r3}
Symmetry == Permutations(MCHandlers)

\* Edits of the status alone, and of the columns a payment computes.
MCStatusPatches == {[status |-> s] : s \in {"draft", "sent", "void"}}
MCPatches == MCStatusPatches \cup
    {[status |-> "paid"], [amount_paid |-> 1], [balance_due |-> 3], [total |-> 1],
     [total |-> 3, balance_due |-> 3], [amount_paid |-> 2, balance_due |-> 0, status |-> "paid"],
     [journal_entry_id |-> FALSE]}
=============================================================================
