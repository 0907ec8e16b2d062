-------------------------- MODULE InvoicePayments --------------------------
(***************************************************************************)
(* GreenBooks invoices (gateway/src/lib.rs): recording a payment, posting  *)
(* to the general ledger and editing the row.  The gateway keeps nothing   *)
(* itself: every handler is a sequence of PostgREST calls on the rows of   *)
(* gb_invoices and gb_payments, with other handlers in between.            *)
(*                                                                         *)
(* One invoice; handlers of different invoices touch different rows.       *)
(* Amounts are cents.  Each handler serves one request.  A PostgREST call  *)
(* is answered ("ok"), refused with a non-2xx ("rejected"), or fails in    *)
(* transport before ("unsent") or after ("lost") it took effect; a client  *)
(* that leaves drops the handler at an await and looks like one of those.  *)
(***************************************************************************)
EXTENDS Integers

CONSTANTS
    Handlers,      \* concurrent requests
    Amounts,       \* the amounts clients send
    Total,         \* the total the invoice is created with
    Patches,       \* JSON objects PATCH /invoices/{id} sends, column by column
    Endings        \* how a call can end

AllReplies == {"ok", "rejected", "unsent", "lost"}
Statuses == {"draft", "sent", "partially_paid", "paid", "void"}

\* The columns of gb_invoices that these handlers read or write.  A column
\* that is null reads as 0 (as_f64().unwrap_or(0.0)).
AmountColumns == {"amount_paid", "balance_due", "total"}
Columns == AmountColumns \cup {"status", "journal_entry_id"}

ASSUME InvoiceAssumption ==
    /\ Amounts \subseteq Int
    /\ Total \in Nat \ {0}
    /\ \A p \in Patches :
        /\ DOMAIN p \subseteq Columns
        /\ \A c \in AmountColumns \cap DOMAIN p : p[c] \in Int
        /\ "status" \in DOMAIN p => p["status"] \in Statuses
        /\ "journal_entry_id" \in DOMAIN p => p["journal_entry_id"] \in BOOLEAN
    /\ Endings \subseteq AllReplies

VARIABLES
    status, amount_paid, balance_due, total, \* the row of gb_invoices
    posted,     \* its journal_entry_id is not null
    recorded,   \* sum of the rows of gb_payments for the invoice
    step,       \* where a handler stands
    amount,     \* the amount of its payment
    snap,       \* the amount_paid it has read
    snap_total, \* the total it has read
    outcome,    \* the class of its HTTP answer
    refused,    \* history: sum of the payments that were refused unnoticed
    granted,    \* history: the most amount_paid a PATCH has written
    least,      \* history: the smallest total the row ever had
    touched,    \* history: columns a PATCH has ever written
    edited      \* history: columns a PATCH has written since the amounts in the
                \* row were read and computed by a payment

invoice == <<status, amount_paid, balance_due, total, posted>>
request == <<amount, snap, snap_total>>
edits == <<granted, least, touched, edited>>
invoiceVars == <<invoice, recorded, step, request, outcome, refused, edits>>

\* The gateway creates no invoice: it finds a draft, or one that was sent, on
\* which nothing was paid.
InvoiceInit ==
    /\ status \in {"draft", "sent"} /\ amount_paid = 0 /\ balance_due = Total /\ total = Total
    /\ posted = FALSE
    /\ recorded = 0 /\ refused = 0
    /\ step = [h \in Handlers |-> "idle"]
    /\ amount = [h \in Handlers |-> 0]
    /\ snap = [h \in Handlers |-> 0]
    /\ snap_total = [h \in Handlers |-> 0]
    /\ outcome = [h \in Handlers |-> "none"]
    /\ granted = 0 /\ least = Total /\ touched = {} /\ edited = {}

Proceed(h, p) == step' = [step EXCEPT ![h] = p] /\ UNCHANGED outcome
Answer(h, a) ==
    /\ step' = [step EXCEPT ![h] = "done"]
    /\ outcome' = [outcome EXCEPT ![h] = a]

\* A call with this reply took effect upstream.
TookEffect(reply) == reply \in {"ok", "lost"}
\* send() returns Err.
TransportError(reply) == reply \in {"unsent", "lost"}

-----------------------------------------------------------------------------
(* POST /api/greenbooks/invoices/{id}/payments                             *)

\* Parse the body; only a positive amount goes on.
ReceivePayment(h, a) ==
    /\ step[h] = "idle"
    /\ IF a <= 0 THEN Answer(h, "bad_request") ELSE Proceed(h, "pay_read")
    /\ amount' = [amount EXCEPT ![h] = a]
    /\ UNCHANGED <<invoice, recorded, snap, snap_total, refused, edits>>

\* What the invoice, as read, allows.
Payable(h) ==
    /\ status \notin {"void", "draft"}
    /\ balance_due > 0
    /\ amount[h] <= balance_due

\* GET the row; a failed call and an empty answer both end the request.
ReadInvoice(h, reply) ==
    /\ step[h] = "pay_read"
    /\ IF reply = "ok" /\ Payable(h)
       THEN /\ Proceed(h, "pay_insert")
            /\ snap' = [snap EXCEPT ![h] = amount_paid]
            /\ snap_total' = [snap_total EXCEPT ![h] = total]
       ELSE Answer(h, "bad_request") /\ UNCHANGED <<snap, snap_total>>
    /\ UNCHANGED <<invoice, recorded, amount, refused, edits>>

\* Mutant: a transport error does not end the request.
UpdateDespiteError(h, reply) ==
    /\ step[h] = "pay_insert"
    /\ recorded' = IF TookEffect(reply) THEN recorded + amount[h] ELSE recorded
    /\ refused' = IF reply = "rejected" THEN refused + amount[h] ELSE refused
    /\ Proceed(h, "pay_update")
    /\ UNCHANGED <<invoice, request, edits>>

\* Take a payment number (from the RPC or the clock), then insert the payment.
\* The status of the answer is not looked at: a refused insert goes on as if
\* the payment were there.
InsertPayment(h, reply) ==
    /\ step[h] = "pay_insert"
    /\ recorded' = IF TookEffect(reply) THEN recorded + amount[h] ELSE recorded
    /\ refused' = IF reply = "rejected" THEN refused + amount[h] ELSE refused
    /\ IF TransportError(reply) THEN Answer(h, "bad_request") ELSE Proceed(h, "pay_update")
    /\ UNCHANGED <<invoice, request, edits>>

\* The new values come from the row as it was read, not as it is now.
\* Mutant: the payment is added to what the row says by now, unlike balance_due.
AddToCurrentRow(h) == amount_paid + amount[h]
NewAmountPaid(h) == snap[h] + amount[h]
Owed(t, paid) == IF t > paid THEN t - paid ELSE 0
NewBalanceDue(h) == Owed(snap_total[h], NewAmountPaid(h))
\* Mutant: paid as soon as anything is paid.
PaidOnFirstPayment(b) == "paid"
NewStatus(b) == IF b <= 0 THEN "paid" ELSE "partially_paid"

\* What stays edited when a payment writes the row: a total that is no longer
\* the one it has read.
EditedSinceRead(h) == IF snap_total[h] = total THEN {} ELSE {"total"}

\* PATCH the row by id alone.  A refusal is not looked at either.
UpdateInvoice(h, reply) ==
    /\ step[h] = "pay_update"
    /\ IF TookEffect(reply)
       THEN /\ amount_paid' = NewAmountPaid(h)
            /\ balance_due' = NewBalanceDue(h)
            /\ status' = NewStatus(NewBalanceDue(h))
            /\ edited' = EditedSinceRead(h)
       ELSE UNCHANGED <<amount_paid, balance_due, status, edited>>
    /\ Answer(h, IF TransportError(reply) THEN "bad_request" ELSE "created")
    /\ UNCHANGED <<total, posted, recorded, request, refused, granted, least, touched>>

-----------------------------------------------------------------------------
(* POST /api/greenbooks/invoices/{id}/post                                 *)

ReceivePost(h) ==
    /\ step[h] = "idle"
    /\ Proceed(h, "post_rpc")
    /\ UNCHANGED <<invoice, recorded, request, refused, edits>>

\* gb_post_invoice_to_gl: creates the journal entry once and sends a draft.
\* Anything but a row in the answer leads to the fallback.
PostByRpc(h, reply) ==
    /\ step[h] = "post_rpc"
    /\ IF TookEffect(reply) /\ ~posted
       THEN /\ posted' = TRUE
            /\ status' = IF status = "draft" THEN "sent" ELSE status
       ELSE UNCHANGED <<posted, status>>
    /\ IF reply = "ok" /\ ~posted THEN Answer(h, "ok") ELSE Proceed(h, "post_read")
    /\ UNCHANGED <<amount_paid, balance_due, total, recorded, request, refused, edits>>

\* Fallback, first half: refuse an invoice that has a journal entry.
PostRead(h, reply) ==
    /\ step[h] = "post_read"
    /\ IF reply = "ok" /\ ~posted THEN Proceed(h, "post_patch") ELSE Answer(h, "bad_request")
    /\ UNCHANGED <<invoice, recorded, request, refused, edits>>

\* Fallback, second half: {"status": "sent"}, whatever it is by now.
PostPatch(h, reply) ==
    /\ step[h] = "post_patch"
    /\ status' = IF TookEffect(reply) THEN "sent" ELSE status
    /\ Answer(h, IF TransportError(reply) THEN "bad_request" ELSE "ok")
    /\ UNCHANGED <<amount_paid, balance_due, total, posted, recorded, request, refused, edits>>

-----------------------------------------------------------------------------
\* PATCH /api/greenbooks/invoices/{id}: the object goes to the row as it is,
\* whichever columns it names, the amounts and the status included.
Patched(p, column, old) == IF column \in DOMAIN p THEN p[column] ELSE old

PatchInvoice(h, p, reply) ==
    /\ step[h] = "idle"
    /\ IF TookEffect(reply)
       THEN /\ status' = Patched(p, "status", status)
            /\ amount_paid' = Patched(p, "amount_paid", amount_paid)
            /\ balance_due' = Patched(p, "balance_due", balance_due)
            /\ total' = Patched(p, "total", total)
            /\ posted' = Patched(p, "journal_entry_id", posted)
            /\ granted' = IF amount_paid' > granted THEN amount_paid' ELSE granted
            /\ least' = IF total' < least THEN total' ELSE least
            /\ touched' = touched \cup DOMAIN p
            /\ edited' = edited \cup DOMAIN p
       ELSE UNCHANGED <<invoice, edits>>
    /\ Answer(h, IF reply = "ok" THEN "ok" ELSE "error")
    /\ UNCHANGED <<recorded, request, refused>>

Handle(h) ==
    \/ \E a \in Amounts : ReceivePayment(h, a)
    \/ ReceivePost(h)
    \/ \E reply \in Endings :
        \/ ReadInvoice(h, reply) \/ InsertPayment(h, reply) \/ UpdateInvoice(h, reply)
        \/ PostByRpc(h, reply) \/ PostRead(h, reply) \/ PostPatch(h, reply)
        \/ \E p \in Patches : PatchInvoice(h, p, reply)

InvoiceNext == \E h \in Handlers : Handle(h)

InvoiceSpec == InvoiceInit /\ [][InvoiceNext]_invoiceVars

-----------------------------------------------------------------------------
Pcs == {"idle", "pay_read", "pay_insert", "pay_update", "post_rpc", "post_read",
        "post_patch", "done"}

InvoiceTypes ==
    /\ status \in Statuses
    /\ amount_paid \in Int /\ balance_due \in Int /\ total \in Int
    /\ posted \in BOOLEAN
    /\ recorded \in Int /\ refused \in Int
    /\ step \in [Handlers -> Pcs]
    /\ amount \in [Handlers -> Int]
    /\ snap \in [Handlers -> Int] /\ snap_total \in [Handlers -> Int]
    /\ granted \in Int /\ least \in Int
    /\ touched \subseteq Columns /\ edited \subseteq Columns

\* All that the row can be credited for: the payments recorded, the payments
\* whose refusal greenbooks_create_invoice_payment does not notice, and what
\* greenbooks_patch_invoice was told to write.
Credit == granted + recorded + refused

\* The amounts agree with each other however updates overtake each other,
\* unless one was edited since they were read and computed; and an invoice
\* whose amounts nobody edits is never paid beyond its total.
BooksAgree ==
    /\ edited \cap AmountColumns = {} => balance_due = Owed(total, amount_paid)
    /\ touched \cap AmountColumns = {} => 0 <= amount_paid /\ amount_paid <= total

\* Lost updates err on one side only: the row never claims more than what was
\* paid, refused unnoticed or granted by an edit, whatever overtakes what.
NeverOverstated == amount_paid <= Credit

\* An invoice that a payment, and no edit since, marked paid is covered, at
\* the lowest total it ever had.
PaidMeansCovered == status = "paid" /\ "status" \notin edited => least <= Credit

\* The handler's own refusal: "Payment exceeds balance due".  All payments
\* recorded together stay within the total.
NoOverpayment == recorded <= total
=============================================================================
