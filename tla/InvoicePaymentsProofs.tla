----------------------- MODULE InvoicePaymentsProofs -----------------------
(***************************************************************************)
(* What survives the unguarded read-modify-write of an invoice, for any    *)
(* number of concurrent requests, any amounts and edits of any columns.    *)
(***************************************************************************)
EXTENDS InvoicePayments, TLAPS

\* A payment between its read and its update.
Pending(h) == step[h] \in {"pay_insert", "pay_update"}

PendingAmounts ==
    \A h \in Handlers : step[h] = "pay_read" \/ Pending(h) => 0 < amount[h]

\* Nobody edited an amount: what a pending payment has read still leaves room
\* for it.
Untouched == touched \cap AmountColumns = {}

PendingBooks ==
    Untouched =>
        /\ edited \cap AmountColumns = {}
        /\ \A h \in Handlers : Pending(h) =>
            /\ snap_total[h] = total
            /\ 0 <= snap[h] /\ snap[h] + amount[h] <= total

BooksInv == InvoiceTypes /\ PendingAmounts /\ PendingBooks /\ BooksAgree

\* Steps of a handler that leave the row and the edits alone, and begin no
\* update.
Idles(h) ==
    /\ UNCHANGED <<amount_paid, balance_due, total, snap, snap_total, edits>>
    /\ step' \in [Handlers -> Pcs] /\ amount' \in [Handlers -> Int]
    /\ \A g \in Handlers \ {h} : step'[g] = step[g] /\ amount'[g] = amount[g]
    /\ step'[h] = "pay_read" => 0 < amount'[h]
    /\ Pending(h)' => Pending(h) /\ amount'[h] = amount[h]

LEMMA BooksInit == InvoiceInit => BooksInv
<1> SUFFICES ASSUME InvoiceInit PROVE BooksInv
    OBVIOUS
<1>1. posted \in BOOLEAN
    BY Zenon DEF InvoiceInit
<1>2. InvoiceTypes
    BY <1>1, InvoiceAssumption DEF InvoiceInit, InvoiceTypes, Statuses, Pcs
<1>3. PendingAmounts /\ PendingBooks
    BY DEF InvoiceInit, PendingAmounts, PendingBooks, Pending
<1>4. BooksAgree
    BY InvoiceAssumption DEF InvoiceInit, BooksAgree, Owed
<1> QED
    BY <1>2, <1>3, <1>4 DEF BooksInv

LEMMA BooksIdle ==
    ASSUME BooksInv, NEW h \in Handlers, Idles(h), InvoiceTypes'
    PROVE  BooksInv'
<1>1. PendingAmounts'
    BY DEF BooksInv, InvoiceTypes, PendingAmounts, Idles, Pending
<1>2. PendingBooks'
    BY DEF BooksInv, InvoiceTypes, PendingBooks, Idles, Pending, Untouched, edits
<1>3. BooksAgree'
    BY DEF BooksInv, BooksAgree, Idles, edits
<1> QED
    BY <1>1, <1>2, <1>3 DEF BooksInv

\* The columns a payment writes.
LEMMA NewColumns ==
    ASSUME BooksInv, NEW h \in Handlers, step[h] = "pay_update"
    PROVE  /\ NewAmountPaid(h) \in Int /\ NewBalanceDue(h) \in Int
           /\ NewAmountPaid(h) = snap[h] + amount[h]
           /\ NewBalanceDue(h) = Owed(snap_total[h], NewAmountPaid(h))
           /\ NewStatus(NewBalanceDue(h)) \in {"paid", "partially_paid"}
           /\ NewStatus(NewBalanceDue(h)) = "paid" => snap_total[h] <= NewAmountPaid(h)
<1>1. snap[h] \in Int /\ snap_total[h] \in Int /\ amount[h] \in Int
    BY DEF BooksInv, InvoiceTypes
<1>2. NewAmountPaid(h) \in Int /\ NewAmountPaid(h) = snap[h] + amount[h]
    BY <1>1 DEF NewAmountPaid
<1>3. /\ NewBalanceDue(h) = Owed(snap_total[h], NewAmountPaid(h))
      /\ NewBalanceDue(h) \in Int
      /\ NewBalanceDue(h) <= 0 => snap_total[h] <= NewAmountPaid(h)
    BY <1>1, <1>2 DEF NewBalanceDue, Owed
<1> QED
    BY <1>2, <1>3 DEF NewStatus

LEMMA BooksStep == BooksInv /\ [InvoiceNext]_invoiceVars => BooksInv'
<1> SUFFICES ASSUME BooksInv, [InvoiceNext]_invoiceVars PROVE BooksInv'
    OBVIOUS
<1> USE InvoiceAssumption
<1>0. InvoiceTypes /\ PendingAmounts /\ PendingBooks /\ BooksAgree
    BY DEF BooksInv
<1>1. ASSUME NEW h \in Handlers, NEW a \in Amounts, ReceivePayment(h, a) PROVE BooksInv'
    <2>1. InvoiceTypes'
        BY <1>0, <1>1 DEF ReceivePayment, Proceed, Answer, invoice, edits, InvoiceTypes, Pcs
    <2>2. Idles(h)
        BY <1>0, <1>1 DEF ReceivePayment, Proceed, Answer, invoice, InvoiceTypes, Pcs, Idles, Pending
    <2> QED BY <2>1, <2>2, BooksIdle
<1>2. ASSUME NEW h \in Handlers, ReceivePost(h) PROVE BooksInv'
    <2>1. InvoiceTypes'
        BY <1>0, <1>2 DEF ReceivePost, Proceed, invoice, request, edits, InvoiceTypes, Pcs
    <2>2. Idles(h)
        BY <1>0, <1>2 DEF ReceivePost, Proceed, invoice, request, InvoiceTypes, Pcs, Idles, Pending
    <2> QED BY <2>1, <2>2, BooksIdle
<1>3. ASSUME NEW h \in Handlers, NEW reply \in Endings, InsertPayment(h, reply)
      PROVE  BooksInv'
    <2>1. InvoiceTypes'
        <3>1. recorded' \in Int /\ refused' \in Int
            BY <1>0, <1>3 DEF InsertPayment, InvoiceTypes
        <3> QED
            BY <1>0, <1>3, <3>1 DEF InsertPayment, Proceed, Answer, invoice, request, edits, InvoiceTypes, Pcs
    <2>2. Idles(h)
        BY <1>0, <1>3 DEF InsertPayment, Proceed, Answer, invoice, request, InvoiceTypes, Pcs, Idles, Pending
    <2> QED BY <2>1, <2>2, BooksIdle
<1>4. ASSUME NEW h \in Handlers, NEW reply \in Endings, ReadInvoice(h, reply)
      PROVE  BooksInv'
    <2>1. CASE ~(reply = "ok" /\ Payable(h))
        <3>1. InvoiceTypes'
            BY <1>0, <1>4, <2>1 DEF ReadInvoice, Answer, invoice, edits, InvoiceTypes, Pcs
        <3>2. Idles(h)
            BY <1>0, <1>4, <2>1 DEF ReadInvoice, Answer, invoice, InvoiceTypes, Pcs, Idles, Pending
        <3> QED BY <3>1, <3>2, BooksIdle
    <2>2. CASE reply = "ok" /\ Payable(h)
        <3>1. /\ UNCHANGED <<invoice, recorded, amount, refused, edits>>
              /\ step[h] = "pay_read" /\ step' = [step EXCEPT ![h] = "pay_insert"]
              /\ snap' = [snap EXCEPT ![h] = amount_paid]
              /\ snap_total' = [snap_total EXCEPT ![h] = total]
            BY <1>4, <2>2 DEF ReadInvoice, Proceed
        <3>2. InvoiceTypes'
            BY <1>0, <3>1 DEF invoice, edits, InvoiceTypes, Pcs
        <3>3. PendingAmounts'
            BY <1>0, <3>1 DEF InvoiceTypes, PendingAmounts, Pending
        <3>4. Untouched => 0 <= amount_paid /\ amount_paid + amount[h] <= total
            BY <1>0, <2>2, <3>1 DEF Payable, InvoiceTypes, PendingAmounts, PendingBooks, BooksAgree,
                Untouched, Owed
        <3>5. PendingBooks'
            BY <1>0, <3>1, <3>4 DEF invoice, edits, InvoiceTypes, PendingBooks, Pending, Untouched
        <3>6. BooksAgree'
            BY <1>0, <3>1 DEF invoice, edits, BooksAgree
        <3> QED BY <3>2, <3>3, <3>5, <3>6 DEF BooksInv
    <2> QED BY <2>1, <2>2
<1>5. ASSUME NEW h \in Handlers, NEW reply \in Endings, UpdateInvoice(h, reply)
      PROVE  BooksInv'
    <2>1. /\ step[h] = "pay_update" /\ step' = [step EXCEPT ![h] = "done"]
          /\ UNCHANGED <<total, posted, recorded, request, refused, granted, least, touched>>
        BY <1>5 DEF UpdateInvoice, Answer
    <2>2. CASE ~TookEffect(reply)
        <3>1. UNCHANGED <<amount_paid, balance_due, status, edited>>
            BY <1>5, <2>2 DEF UpdateInvoice
        <3>2. InvoiceTypes'
            BY <1>0, <2>1, <3>1 DEF request, InvoiceTypes, Pcs
        <3>3. Idles(h)
            BY <1>0, <2>1, <3>1 DEF request, edits, InvoiceTypes, Pcs, Idles, Pending
        <3> QED BY <3>2, <3>3, BooksIdle
    <2>3. CASE TookEffect(reply)
        <3>1. /\ amount_paid' = NewAmountPaid(h) /\ balance_due' = NewBalanceDue(h)
              /\ status' = NewStatus(NewBalanceDue(h)) /\ edited' = EditedSinceRead(h)
            BY <1>5, <2>3 DEF UpdateInvoice
        <3>2. /\ NewAmountPaid(h) \in Int /\ NewBalanceDue(h) \in Int
              /\ NewAmountPaid(h) = snap[h] + amount[h]
              /\ NewBalanceDue(h) = Owed(snap_total[h], NewAmountPaid(h))
              /\ NewStatus(NewBalanceDue(h)) \in {"paid", "partially_paid"}
            BY <2>1, NewColumns
        <3>3. InvoiceTypes'
            BY <1>0, <2>1, <3>1, <3>2 DEF request, InvoiceTypes, Pcs, Statuses, EditedSinceRead,
                Columns, AmountColumns
        <3>4. PendingAmounts'
            BY <1>0, <2>1 DEF request, InvoiceTypes, PendingAmounts, Pending
        <3>5. Untouched => /\ snap_total[h] = total
                           /\ 0 <= NewAmountPaid(h) /\ NewAmountPaid(h) <= total
            BY <1>0, <2>1, <3>2 DEF InvoiceTypes, PendingBooks, Pending, PendingAmounts
        <3>6. PendingBooks'
            BY <1>0, <2>1, <3>1, <3>5 DEF request, InvoiceTypes, PendingBooks, Pending, Untouched,
                EditedSinceRead
        <3>7. BooksAgree'
            <4>1. edited' \cap AmountColumns = {} => snap_total[h] = total
                BY <3>1 DEF EditedSinceRead, AmountColumns
            <4> QED BY <2>1, <3>1, <3>2, <3>5, <4>1 DEF BooksAgree, Untouched
        <3> QED BY <3>3, <3>4, <3>6, <3>7 DEF BooksInv
    <2> QED BY <2>2, <2>3
<1>6. ASSUME NEW h \in Handlers, NEW reply \in Endings,
             PostByRpc(h, reply) \/ PostRead(h, reply) \/ PostPatch(h, reply)
      PROVE  BooksInv'
    <2>1. InvoiceTypes'
        BY <1>0, <1>6 DEF PostByRpc, PostRead, PostPatch, Proceed, Answer, invoice, request, edits,
            InvoiceTypes, Pcs, Statuses
    <2>2. Idles(h)
        BY <1>0, <1>6 DEF PostByRpc, PostRead, PostPatch, Proceed, Answer, invoice, request, InvoiceTypes,
            Pcs, Idles, Pending
    <2> QED BY <2>1, <2>2, BooksIdle
<1>7. ASSUME NEW h \in Handlers, NEW reply \in Endings, NEW p \in Patches,
             PatchInvoice(h, p, reply)
      PROVE  BooksInv'
    <2>1. /\ step[h] = "idle" /\ step' = [step EXCEPT ![h] = "done"]
          /\ UNCHANGED <<recorded, request, refused>>
        BY <1>7 DEF PatchInvoice, Answer
    <2>2. CASE ~TookEffect(reply)
        <3>1. UNCHANGED <<invoice, edits>>
            BY <1>7, <2>2 DEF PatchInvoice
        <3>2. InvoiceTypes'
            BY <1>0, <2>1, <3>1 DEF invoice, request, edits, InvoiceTypes, Pcs
        <3>3. Idles(h)
            BY <1>0, <2>1, <3>1 DEF invoice, request, edits, InvoiceTypes, Pcs, Idles, Pending
        <3> QED BY <3>2, <3>3, BooksIdle
    <2>3. CASE TookEffect(reply)
        <3>1. /\ status' = Patched(p, "status", status)
              /\ amount_paid' = Patched(p, "amount_paid", amount_paid)
              /\ balance_due' = Patched(p, "balance_due", balance_due)
              /\ total' = Patched(p, "total", total)
              /\ posted' = Patched(p, "journal_entry_id", posted)
              /\ granted' = IF amount_paid' > granted THEN amount_paid' ELSE granted
              /\ least' = IF total' < least THEN total' ELSE least
              /\ touched' = touched \cup DOMAIN p /\ edited' = edited \cup DOMAIN p
            BY <1>7, <2>3 DEF PatchInvoice
        <3>2. InvoiceTypes'
            <4>1. amount_paid' \in Int /\ balance_due' \in Int /\ total' \in Int
                BY <1>0, <3>1 DEF Patched, InvoiceTypes, AmountColumns
            <4>2. status' \in Statuses
                BY <1>0, <3>1 DEF Patched, InvoiceTypes
            <4>3. posted' \in BOOLEAN
                BY <1>0, <3>1, Zenon DEF Patched, InvoiceTypes
            <4>4. granted' \in Int /\ least' \in Int
                BY <1>0, <3>1, <4>1 DEF InvoiceTypes
            <4>5. touched' \subseteq Columns /\ edited' \subseteq Columns
                BY <1>0, <3>1 DEF InvoiceTypes
            <4>6. /\ recorded' \in Int /\ refused' \in Int /\ step' \in [Handlers -> Pcs]
                  /\ amount' \in [Handlers -> Int]
                  /\ snap' \in [Handlers -> Int] /\ snap_total' \in [Handlers -> Int]
                BY <1>0, <2>1 DEF request, InvoiceTypes, Pcs
            <4> QED BY <4>1, <4>2, <4>3, <4>4, <4>5, <4>6 DEF InvoiceTypes
        <3>3. PendingAmounts'
            BY <1>0, <2>1 DEF request, InvoiceTypes, PendingAmounts, Pending
        <3>4. DOMAIN p \cap AmountColumns = {} => UNCHANGED <<amount_paid, balance_due, total>>
            BY <3>1 DEF Patched, AmountColumns
        <3>5. PendingBooks'
            BY <1>0, <2>1, <3>1, <3>4 DEF request, InvoiceTypes, PendingBooks, Pending, Untouched
        <3>6. BooksAgree'
            BY <1>0, <3>1, <3>4 DEF BooksAgree
        <3> QED BY <3>2, <3>3, <3>5, <3>6 DEF BooksInv
    <2> QED BY <2>2, <2>3
<1>8. CASE UNCHANGED invoiceVars
    BY <1>0, <1>8 DEF invoiceVars, invoice, request, edits, BooksInv, InvoiceTypes, BooksAgree,
        PendingAmounts, PendingBooks, Pending, Untouched
<1>9. QED
    BY <1>1, <1>2, <1>3, <1>4, <1>5, <1>6, <1>7, <1>8 DEF InvoiceNext, Handle

\* However payments, postings and edits of any column interleave, and
\* whichever of their calls fail: amounts that nobody edited since they were
\* computed agree, and an invoice whose amounts were never edited is not paid
\* beyond its total.
THEOREM BooksAlwaysAgree == InvoiceSpec => []BooksAgree
<1>1. BooksInv => BooksAgree
    BY DEF BooksInv
<1>2. QED
    BY <1>1, BooksInit, BooksStep, PTL DEF InvoiceSpec

-----------------------------------------------------------------------------
(* The row against the payments.  What is claimed in the row was paid,     *)
(* refused unnoticed or granted by an edit, and so is what a pending       *)
(* payment is about to claim.                                              *)

PendingCredit ==
    \A h \in Handlers :
        /\ step[h] = "pay_insert" => snap[h] <= Credit
        /\ step[h] = "pay_update" => snap[h] + amount[h] <= Credit
        /\ Pending(h) => least <= snap_total[h]

CreditInv ==
    /\ BooksInv /\ NeverOverstated /\ PaidMeansCovered /\ PendingCredit
    /\ least <= total /\ 0 <= recorded /\ 0 <= refused

LEMMA CreditInit == InvoiceInit => CreditInv
BY BooksInit, InvoiceAssumption
DEF InvoiceInit, CreditInv, NeverOverstated, PaidMeansCovered, PendingCredit, Pending, Credit

\* Steps that change no amount and no edit: they may only take a handler
\* away from its payment and give a status other than "paid".
Keeps ==
    /\ UNCHANGED <<amount_paid, total, recorded, refused, snap, snap_total, edits>>
    /\ status' = status \/ status' # "paid"
    /\ \A g \in Handlers : Pending(g)' => step'[g] = step[g] /\ amount'[g] = amount[g]

LEMMA CreditKept ==
    ASSUME CreditInv, BooksInv', Keeps
    PROVE  CreditInv'
<1>1. UNCHANGED <<Credit, least, edited, total, amount_paid, recorded, refused>>
    BY DEF Keeps, edits, Credit
<1>2. NeverOverstated' /\ PaidMeansCovered' /\ (least <= total)' /\ 0 <= recorded' /\ 0 <= refused'
    BY <1>1 DEF CreditInv, NeverOverstated, PaidMeansCovered, Keeps
<1>3. PendingCredit'
    BY <1>1 DEF CreditInv, PendingCredit, Pending, Keeps
<1> QED BY <1>2, <1>3 DEF CreditInv

LEMMA SumsOnlyAdd ==
    ASSUME NEW a \in Int, NEW g \in Int, NEW x \in Int, NEW y \in Int, a <= g, 0 <= x, 0 <= y
    PROVE  a <= g + x + y
OBVIOUS

LEMMA CreditStep == CreditInv /\ [InvoiceNext]_invoiceVars => CreditInv'
<1> SUFFICES ASSUME CreditInv, [InvoiceNext]_invoiceVars PROVE CreditInv'
    OBVIOUS
<1> USE InvoiceAssumption
<1>0. BooksInv /\ BooksInv' /\ InvoiceTypes /\ InvoiceTypes'
    BY BooksStep DEF CreditInv, BooksInv
<1>c. /\ NeverOverstated /\ PaidMeansCovered /\ PendingCredit /\ least <= total
      /\ 0 <= recorded /\ 0 <= refused /\ PendingAmounts /\ Credit \in Int
    BY <1>0 DEF CreditInv, BooksInv, InvoiceTypes, Credit
<1>1. ASSUME NEW h \in Handlers, NEW reply \in Endings, InsertPayment(h, reply)
      PROVE  CreditInv'
    <2>1. /\ amount[h] \in Int /\ 0 < amount[h] /\ snap[h] \in Int /\ snap[h] <= Credit
          /\ recorded \in Int /\ refused \in Int /\ granted \in Int
          /\ step[h] = "pay_insert" /\ least <= snap_total[h]
        BY <1>0, <1>1, <1>c DEF InsertPayment, InvoiceTypes, PendingAmounts, Pending, PendingCredit
    <2>2. /\ UNCHANGED <<status, amount_paid, total, request, granted, least, edited>>
          /\ recorded' = IF TookEffect(reply) THEN recorded + amount[h] ELSE recorded
          /\ refused' = IF reply = "rejected" THEN refused + amount[h] ELSE refused
          /\ \/ TransportError(reply) /\ step' = [step EXCEPT ![h] = "done"]
             \/ ~TransportError(reply) /\ step' = [step EXCEPT ![h] = "pay_update"]
        BY <1>1 DEF InsertPayment, Proceed, Answer, invoice, edits
    <2>3. Credit' \in Int /\ Credit <= Credit'
        BY <2>1, <2>2 DEF Credit
    <2>4. ~TransportError(reply) => snap[h] + amount[h] <= Credit'
        <3>1. ~TransportError(reply) => reply \in {"ok", "rejected"}
            BY DEF TransportError, AllReplies
        <3> QED BY <2>1, <2>2, <3>1 DEF Credit, TookEffect
    <2>5. NeverOverstated' /\ PaidMeansCovered' /\ (least <= total)' /\ 0 <= recorded' /\ 0 <= refused'
        BY <1>0, <1>c, <2>1, <2>2, <2>3 DEF NeverOverstated, PaidMeansCovered, InvoiceTypes
    <2>6. ASSUME NEW g \in Handlers
          PROVE  /\ step'[g] = "pay_insert" => snap[g] <= Credit'
                 /\ step'[g] = "pay_update" => snap[g] + amount[g] <= Credit'
                 /\ Pending(g)' => least <= snap_total[g]
        <3>1. CASE g = h
            BY <1>0, <2>1, <2>2, <2>4, <3>1 DEF InvoiceTypes, Pending
        <3>2. CASE g # h
            <4>1. step'[g] = step[g] /\ snap[g] \in Int /\ amount[g] \in Int
                BY <1>0, <2>2, <3>2 DEF InvoiceTypes
            <4> QED BY <1>c, <2>3, <4>1 DEF PendingCredit, Pending
        <3> QED BY <3>1, <3>2
    <2>7. PendingCredit'
        BY <2>2, <2>6 DEF PendingCredit, request
    <2> QED BY <1>0, <2>5, <2>7 DEF CreditInv
<1>2. ASSUME NEW h \in Handlers, NEW reply \in Endings, ReadInvoice(h, reply)
      PROVE  CreditInv'
    <2>1. CASE ~(reply = "ok" /\ Payable(h))
        <3>1. Keeps
            BY <1>0, <1>2, <2>1 DEF ReadInvoice, Answer, invoice, InvoiceTypes, Keeps, Pending
        <3> QED BY <1>0, <3>1, CreditKept
    <2>2. CASE reply = "ok" /\ Payable(h)
        <3>1. /\ UNCHANGED <<invoice, recorded, amount, refused, edits>>
              /\ step' = [step EXCEPT ![h] = "pay_insert"]
              /\ snap' = [snap EXCEPT ![h] = amount_paid]
              /\ snap_total' = [snap_total EXCEPT ![h] = total]
            BY <1>2, <2>2 DEF ReadInvoice, Proceed
        <3>2. UNCHANGED <<Credit, least, edited, total, amount_paid, status, recorded, refused>>
            BY <3>1 DEF invoice, edits, Credit
        <3>3. NeverOverstated' /\ PaidMeansCovered' /\ (least <= total)' /\ 0 <= recorded' /\ 0 <= refused'
            BY <1>c, <3>2 DEF NeverOverstated, PaidMeansCovered
        <3>4. PendingCredit'
            BY <1>0, <1>c, <3>1, <3>2 DEF InvoiceTypes, PendingCredit, Pending, NeverOverstated
        <3> QED BY <1>0, <3>3, <3>4 DEF CreditInv
    <2> QED BY <2>1, <2>2
<1>3. ASSUME NEW h \in Handlers, NEW reply \in Endings, UpdateInvoice(h, reply)
      PROVE  CreditInv'
    <2>1. /\ step[h] = "pay_update" /\ step' = [step EXCEPT ![h] = "done"]
          /\ UNCHANGED <<total, recorded, request, refused, granted, least, touched>>
        BY <1>3 DEF UpdateInvoice, Answer
    <2>2. CASE ~TookEffect(reply)
        <3>1. Keeps
            BY <1>0, <1>3, <2>1, <2>2 DEF UpdateInvoice, request, edits, InvoiceTypes, Keeps, Pending
        <3> QED BY <1>0, <3>1, CreditKept
    <2>3. CASE TookEffect(reply)
        <3>1. amount_paid' = NewAmountPaid(h) /\ status' = NewStatus(NewBalanceDue(h))
            BY <1>3, <2>3 DEF UpdateInvoice
        <3>2. /\ NewAmountPaid(h) \in Int /\ NewAmountPaid(h) <= Credit
              /\ NewStatus(NewBalanceDue(h)) = "paid" => snap_total[h] <= NewAmountPaid(h)
              /\ least <= snap_total[h] /\ snap_total[h] \in Int /\ least \in Int
            BY <1>0, <1>c, <2>1, NewColumns DEF PendingCredit, Pending, InvoiceTypes
        <3>3. Credit' = Credit
            BY <2>1 DEF Credit
        <3>4. NeverOverstated' /\ PaidMeansCovered' /\ (least <= total)' /\ 0 <= recorded' /\ 0 <= refused'
            BY <1>c, <2>1, <3>1, <3>2, <3>3 DEF NeverOverstated, PaidMeansCovered
        <3>5. PendingCredit'
            BY <1>0, <1>c, <2>1, <3>3 DEF request, InvoiceTypes, PendingCredit, Pending
        <3> QED BY <1>0, <3>4, <3>5 DEF CreditInv
    <2> QED BY <2>2, <2>3
<1>4. ASSUME NEW h \in Handlers, NEW reply \in Endings, NEW p \in Patches,
             PatchInvoice(h, p, reply)
      PROVE  CreditInv'
    <2>1. /\ step[h] = "idle" /\ step' = [step EXCEPT ![h] = "done"]
          /\ UNCHANGED <<recorded, request, refused>>
        BY <1>4 DEF PatchInvoice, Answer
    <2>2. CASE ~TookEffect(reply)
        <3>1. Keeps
            BY <1>0, <1>4, <2>1, <2>2 DEF PatchInvoice, invoice, request, InvoiceTypes, Keeps, Pending
        <3> QED BY <1>0, <3>1, CreditKept
    <2>3. CASE TookEffect(reply)
        <3>1. /\ status' = Patched(p, "status", status)
              /\ granted' = IF amount_paid' > granted THEN amount_paid' ELSE granted
              /\ least' = IF total' < least THEN total' ELSE least
              /\ edited' = edited \cup DOMAIN p
            BY <1>4, <2>3 DEF PatchInvoice
        <3>2. /\ granted <= granted' /\ amount_paid' <= granted' /\ least' <= least
              /\ least' <= total'
            BY <1>0, <3>1 DEF InvoiceTypes
        <3>3. 0 <= recorded' /\ 0 <= refused'
            BY <1>c, <2>1
        <3>4. Credit' \in Int /\ Credit <= Credit'
            BY <1>0, <2>1, <3>2 DEF InvoiceTypes, Credit
        <3>5. NeverOverstated'
            <4>1. amount_paid' \in Int /\ granted' \in Int /\ recorded' \in Int /\ refused' \in Int
                BY <1>0 DEF InvoiceTypes
            <4>2. amount_paid' <= granted' + recorded' + refused'
                BY <3>2, <3>3, <4>1, SumsOnlyAdd
            <4> QED BY <4>2 DEF NeverOverstated, Credit
        <3>6. PaidMeansCovered'
            <4> SUFFICES ASSUME status' = "paid", "status" \notin edited'
                         PROVE  least' <= Credit'
                BY DEF PaidMeansCovered
            <4>1. status = "paid" /\ "status" \notin edited
                BY <3>1 DEF Patched
            <4> QED BY <1>0, <1>c, <3>2, <3>4, <4>1 DEF PaidMeansCovered, InvoiceTypes
        <3>7. PendingCredit'
            <4> SUFFICES ASSUME NEW g \in Handlers
                         PROVE  /\ step'[g] = "pay_insert" => snap[g] <= Credit'
                                /\ step'[g] = "pay_update" => snap[g] + amount[g] <= Credit'
                                /\ Pending(g)' => least' <= snap_total[g]
                BY <2>1 DEF PendingCredit, request
            <4>1. /\ snap[g] \in Int /\ amount[g] \in Int /\ snap_total[g] \in Int
                  /\ least \in Int /\ least' \in Int
                  /\ step'[g] = step[g] \/ step'[g] = "done"
                BY <1>0, <2>1 DEF InvoiceTypes
            <4> QED BY <1>c, <3>2, <3>4, <4>1 DEF PendingCredit, Pending
        <3> QED BY <1>0, <3>2, <3>3, <3>5, <3>6, <3>7 DEF CreditInv
    <2> QED BY <2>2, <2>3
<1>5. ASSUME NEW h \in Handlers, NEW a \in Amounts, ReceivePayment(h, a)
      PROVE  CreditInv'
    <2>1. Keeps
        BY <1>0, <1>5 DEF ReceivePayment, Proceed, Answer, invoice, InvoiceTypes, Keeps, Pending
    <2> QED BY <1>0, <2>1, CreditKept
<1>6. ASSUME NEW h \in Handlers, ReceivePost(h) PROVE CreditInv'
    <2>1. Keeps
        BY <1>0, <1>6 DEF ReceivePost, Proceed, invoice, request, InvoiceTypes, Keeps, Pending
    <2> QED BY <1>0, <2>1, CreditKept
<1>7. ASSUME NEW h \in Handlers, NEW reply \in Endings,
             PostByRpc(h, reply) \/ PostRead(h, reply) \/ PostPatch(h, reply)
      PROVE  CreditInv'
    <2>1. Keeps
        BY <1>0, <1>7 DEF PostByRpc, PostRead, PostPatch, Proceed, Answer, invoice, request,
            InvoiceTypes, Keeps, Pending
    <2> QED BY <1>0, <2>1, CreditKept
<1>8. CASE UNCHANGED invoiceVars
    <2>1. Keeps
        BY <1>8 DEF invoiceVars, invoice, request, Keeps
    <2> QED BY <1>0, <2>1, CreditKept
<1>9. QED
    BY <1>1, <1>2, <1>3, <1>4, <1>5, <1>6, <1>7, <1>8 DEF InvoiceNext, Handle

\* Lost updates only ever understate: the invoice is credited with no more
\* than was recorded, refused unnoticed or granted by an edit.
THEOREM CreditIsBacked == InvoiceSpec => []NeverOverstated
<1>1. CreditInv => NeverOverstated
    BY DEF CreditInv
<1>2. QED
    BY <1>1, CreditInit, CreditStep, PTL DEF InvoiceSpec

\* An invoice that a payment marked paid is covered at the lowest total it had.
THEOREM PaidIsBacked == InvoiceSpec => []PaidMeansCovered
<1>1. CreditInv => PaidMeansCovered
    BY DEF CreditInv
<1>2. QED
    BY <1>1, CreditInit, CreditStep, PTL DEF InvoiceSpec
=============================================================================
