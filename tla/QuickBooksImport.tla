-------------------------- MODULE QuickBooksImport --------------------------
(***************************************************************************)
(* The QuickBooks import (gateway/src/quickbooks_import.rs): an optional   *)
(* purge of the organisation's tables, then accounts, customers, vendors,  *)
(* bank accounts and journal entries, one PostgREST call after another     *)
(* with no transaction around them.                                        *)
(*                                                                         *)
(* A run is one request with its flags; all runs carry the same file, as a *)
(* retry does.  A row is known by the run and the item of the file it was  *)
(* written for.  A call ends "ok", "rejected" (non-2xx), in a transport    *)
(* error before ("unsent") or after ("lost") it took effect, or "garbled": *)
(* a 2xx whose body does not parse, which the code reads as no rows.       *)
(***************************************************************************)
EXTENDS Integers, Sequences, FiniteSets

CONSTANTS
    Runs,
    Origin,        \* the writer of rows that were there before any run
    AccountMap,    \* QB_ACCOUNT_MAP: items [kind, name, existing]
    Customers, Suppliers,  \* items [kind, name]
    BankAccounts,  \* items [kind, name, account]
    Journal,       \* items [kind, name, accounts, sound]
    Preexisting,   \* names of the accounts there before
    HasTrialBalance, \* the file has a trial balance
    MaxConcurrent, \* runs at the same time
    LookupReplies, WriteReplies

Tables == {"accounts", "customers", "vendors", "banks", "journal", "lines", "ledger"}
Named == {"customers", "vendors", "banks"}

\* The order run_import goes through the file.
Worklist == AccountMap \o Customers \o Suppliers \o BankAccounts \o Journal
Items == 1..Len(Worklist)
Rows == (Runs \cup {Origin}) \X Items

ASSUME ImportAssumption ==
    /\ Origin \notin Runs
    /\ Len(Worklist) \in Nat
    /\ \A i \in Items : Worklist[i].kind \in Named \cup {"accounts", "journal"}
    \* QB_ACCOUNT_MAP has one entry for a code.
    /\ \A i, j \in Items : Worklist[i].kind = "accounts" /\ Worklist[j].kind = "accounts" =>
            (Worklist[i].name = Worklist[j].name => i = j)
    /\ MaxConcurrent \in Nat

\* The tables of purge_order that the import writes: children first.
\* Mutant: journal entries go before their lines.
ParentsFirst == <<"ledger", "journal", "lines", "vendors", "customers", "banks">>
PurgeOrder == <<"ledger", "lines", "journal", "vendors", "customers", "banks">>

VARIABLES
    db,          \* table -> rows
    phase, pos,  \* where a run stands, in PurgeOrder or Worklist
    dry, purge,  \* its flags
    mapped,      \* account_map: items with an account id
    problems,    \* items with a warning or counted as an error
    faulty,      \* history: some call of the run did not end "ok"
    verdict,     \* "none" | "success" | "error" | "gone"
    last,        \* the run started last
    unread       \* history: entries whose lines were stored, but not read back

run == <<dry, purge>>
importVars == <<db, phase, pos, run, mapped, problems, faulty, verdict, last, unread>>

Active(r) == phase[r] \notin {"idle", "done"}

\* There is a row of the table with the name of item i.
Exists(t, i) == \E row \in db[t] : Worklist[row[2]].name = Worklist[i].name

\* gb_accounts.code of an item is its name; every account a line or a bank
\* names has to be in account_map.
Mapped(r, names) == \A a \in names : \E i \in mapped[r] : Worklist[i].name = a

-----------------------------------------------------------------------------
ImportInit ==
    /\ db = [t \in Tables |->
                IF t = "accounts"
                THEN {Origin} \X {i \in Items : /\ Worklist[i].kind = "accounts"
                                                /\ Worklist[i].name \in Preexisting}
                ELSE {}]
    /\ phase = [r \in Runs |-> "idle"]
    /\ pos = [r \in Runs |-> 1]
    /\ dry = [r \in Runs |-> FALSE]
    /\ purge = [r \in Runs |-> FALSE]
    /\ mapped = [r \in Runs |-> {}]
    /\ problems = [r \in Runs |-> {}]
    /\ faulty = [r \in Runs |-> FALSE]
    /\ verdict = [r \in Runs |-> "none"]
    /\ last = Origin
    /\ unread = [r \in Runs |-> {}]

Effective(reply) == reply \in {"ok", "lost", "garbled"}
\* post_rows, find_account_id, exists_by_name: Ok, perhaps with no rows.
Succeeds(reply) == reply \in {"ok", "garbled"}
Write(t, row, reply) ==
    db' = IF Effective(reply) THEN [db EXCEPT ![t] = @ \cup {row}] ELSE db

Note(r, reply) == faulty' = [faulty EXCEPT ![r] = @ \/ reply # "ok"]
Goto(r, p) == phase' = [phase EXCEPT ![r] = p] /\ UNCHANGED <<pos, verdict>>
End(r, v) ==
    /\ phase' = [phase EXCEPT ![r] = "done"]
    /\ verdict' = [verdict EXCEPT ![r] = v]
    /\ UNCHANGED pos

\* Mutant: the end of the file is not noticed.
PastTheEnd(r, i) ==
    /\ pos' = [pos EXCEPT ![r] = i]
    /\ phase' = [phase EXCEPT ![r] = "item"]
    /\ UNCHANGED verdict
\* The next item of the file; after the last one the run has succeeded.
NextItem(r, i) ==
    /\ pos' = [pos EXCEPT ![r] = i]
    /\ phase' = [phase EXCEPT ![r] = IF i \in Items THEN "item" ELSE "done"]
    /\ verdict' = [verdict EXCEPT ![r] = IF i \in Items THEN @ ELSE "success"]

Advance(r) == NextItem(r, pos[r] + 1)
Problem(r) == problems' = [problems EXCEPT ![r] = @ \cup {pos[r]}]

-----------------------------------------------------------------------------
\* The multipart request is parsed and the flags are read.
Start(r, d, p) ==
    /\ phase[r] = "idle"
    /\ Cardinality({s \in Runs : Active(s)}) < MaxConcurrent
    /\ dry' = [dry EXCEPT ![r] = d]
    /\ purge' = [purge EXCEPT ![r] = p]
    /\ last' = r
    /\ IF p THEN Goto(r, "count") ELSE NextItem(r, 1)
    /\ UNCHANGED <<db, mapped, problems, faulty, unread>>

NextTable(r) ==
    IF pos[r] < Len(PurgeOrder)
    THEN /\ pos' = [pos EXCEPT ![r] = @ + 1]
         /\ phase' = [phase EXCEPT ![r] = "count"]
         /\ UNCHANGED verdict
    ELSE NextItem(r, 1)

\* Nothing is deleted in a dry run or from an empty table.
\* Mutant: only an empty table is spared.
OnlyEmptySpared(r, t) == db[t] = {}
Spared(r, t) == dry[r] \/ db[t] = {}

\* run_purge counts the rows of a table; a non-2xx is reported as -1, and an
\* answer without a readable content-range as 0.
PurgeCount(r, reply) ==
    /\ phase[r] = "count"
    /\ CASE reply \in {"unsent", "lost"} -> End(r, "error")
         [] reply \in {"rejected", "garbled"} -> NextTable(r)
         [] OTHER -> IF Spared(r, PurgeOrder[pos[r]]) THEN NextTable(r) ELSE Goto(r, "delete")
    /\ Note(r, reply)
    /\ UNCHANGED <<db, run, mapped, problems, last, unread>>

\* The database refuses to delete rows other rows refer to.
Referenced(t) ==
    \/ t = "lines" /\ db["ledger"] # {}
    \/ t = "journal" /\ db["lines"] # {}

\* ... and deletes them; a refusal is again a -1 and the purge goes on.
PurgeDelete(r, reply) ==
    /\ phase[r] = "delete"
    /\ LET t == PurgeOrder[pos[r]]
       IN  db' = IF Effective(reply) /\ ~Referenced(t) THEN [db EXCEPT ![t] = {}] ELSE db
    /\ IF reply \in {"unsent", "lost"} THEN End(r, "error") ELSE NextTable(r)
    /\ Note(r, reply)
    /\ UNCHANGED <<run, mapped, problems, last, unread>>

-----------------------------------------------------------------------------
\* setup_accounts: look the code up, create what the map does not expect to
\* exist.  A failed lookup ends the run.
FindAccount(r, reply) ==
    /\ phase[r] = "item" /\ Worklist[pos[r]].kind = "accounts"
    /\ LET i == pos[r]
           found == reply = "ok" /\ Exists("accounts", i)
       IN  CASE ~Succeeds(reply) -> End(r, "error") /\ UNCHANGED <<mapped, problems>>
             [] Succeeds(reply) /\ (found \/ (~Worklist[i].existing /\ dry[r])) ->
                    /\ mapped' = [mapped EXCEPT ![r] = @ \cup {i}]
                    /\ Advance(r) /\ UNCHANGED problems
             [] Succeeds(reply) /\ ~found /\ Worklist[i].existing ->
                    Problem(r) /\ Advance(r) /\ UNCHANGED mapped
             [] OTHER -> Goto(r, "insert") /\ UNCHANGED <<mapped, problems>>
    /\ Note(r, reply)
    /\ UNCHANGED <<db, run, last, unread>>

\* Upsert on (org_id, code); without an id in the answer it stays unmapped.
CreateAccount(r, reply) ==
    /\ phase[r] = "insert" /\ Worklist[pos[r]].kind = "accounts"
    /\ IF Exists("accounts", pos[r]) THEN UNCHANGED db
       ELSE Write("accounts", <<r, pos[r]>>, reply)
    /\ mapped' = IF reply = "ok" THEN [mapped EXCEPT ![r] = @ \cup {pos[r]}] ELSE mapped
    /\ IF Succeeds(reply) THEN Advance(r) ELSE End(r, "error")
    /\ Note(r, reply)
    /\ UNCHANGED <<run, problems, last, unread>>

\* Customers, suppliers and banks: a dry run only counts, and a bank needs
\* its GL account.
\* Mutant: a bank without an account is passed over silently.
SilentlyUnmapped(r) == UNCHANGED problems
ReportUnmapped(r) == Problem(r)

SkipNamed(r) ==
    /\ phase[r] = "item" /\ Worklist[pos[r]].kind \in Named
    /\ \/ dry[r] /\ UNCHANGED problems
       \/ /\ ~dry[r] /\ Worklist[pos[r]].kind = "banks"
          /\ ~Mapped(r, {Worklist[pos[r]].account})
          /\ ReportUnmapped(r)
    /\ Advance(r)
    /\ UNCHANGED <<db, run, mapped, faulty, last, unread>>

\* exists_by_name: an existing name is skipped, a failed lookup ends the run.
\* Mutant: the name is not looked up.
NeverFound(r, reply) == FALSE
Found(r, reply) == reply = "ok" /\ Exists(Worklist[pos[r]].kind, pos[r])

FindNamed(r, reply) ==
    /\ phase[r] = "item" /\ Worklist[pos[r]].kind \in Named
    /\ ~dry[r]
    /\ Worklist[pos[r]].kind = "banks" => Mapped(r, {Worklist[pos[r]].account})
    /\ CASE ~Succeeds(reply) -> End(r, "error")
         [] Succeeds(reply) /\ Found(r, reply) -> Advance(r)
         [] OTHER -> Goto(r, "insert")
    /\ Note(r, reply)
    /\ UNCHANGED <<db, run, mapped, problems, last, unread>>

\* Insert; a failure is a warning and the run goes on.
InsertNamed(r, reply) ==
    /\ phase[r] = "insert" /\ Worklist[pos[r]].kind \in Named
    /\ Write(Worklist[pos[r]].kind, <<r, pos[r]>>, reply)
    /\ IF Succeeds(reply) THEN UNCHANGED problems ELSE Problem(r)
    /\ Advance(r)
    /\ Note(r, reply)
    /\ UNCHANGED <<run, mapped, last, unread>>

-----------------------------------------------------------------------------
\* import_journal: every line mapped, two lines at least, debits = credits.
Postable(r) == Mapped(r, Worklist[pos[r]].accounts) /\ Worklist[pos[r]].sound

\* An entry that cannot be posted is an error; a dry run only counts.
SkipEntry(r) ==
    /\ phase[r] = "item" /\ Worklist[pos[r]].kind = "journal"
    /\ dry[r] \/ ~Postable(r)
    /\ IF Postable(r) THEN UNCHANGED problems ELSE Problem(r)
    /\ Advance(r)
    /\ UNCHANGED <<db, run, mapped, faulty, last, unread>>

\* The entry; without its id in the answer it is an error.
InsertEntry(r, reply) ==
    /\ phase[r] = "item" /\ Worklist[pos[r]].kind = "journal"
    /\ ~dry[r] /\ Postable(r)
    /\ Write("journal", <<r, pos[r]>>, reply)
    /\ IF reply = "ok" THEN Goto(r, "lines") /\ UNCHANGED problems
       ELSE Problem(r) /\ Advance(r)
    /\ Note(r, reply)
    /\ UNCHANGED <<run, mapped, last, unread>>

\* Its lines, all in one insert; the entry may have been purged meanwhile.
\* The ledger rows are made from the lines in the answer: when it cannot be
\* read there are none, and nothing says so.
InsertLines(r, reply) ==
    /\ phase[r] = "lines"
    /\ LET accepted == <<r, pos[r]>> \in db["journal"]
       IN  /\ db' = IF Effective(reply) /\ accepted
                    THEN [db EXCEPT !["lines"] = @ \cup {<<r, pos[r]>>}] ELSE db
           /\ CASE ~Succeeds(reply) \/ ~accepted -> Problem(r) /\ Advance(r)
                [] reply = "ok" /\ accepted -> Goto(r, "ledger") /\ UNCHANGED problems
                [] OTHER -> Advance(r) /\ UNCHANGED problems
           /\ unread' = IF reply = "garbled" /\ accepted
                        THEN [unread EXCEPT ![r] = @ \cup {pos[r]}] ELSE unread
    /\ Note(r, reply)
    /\ UNCHANGED <<run, mapped, last>>

\* The ledger rows; a failure is a warning, and the entry counts as imported.
InsertLedger(r, reply) ==
    /\ phase[r] = "ledger"
    /\ LET accepted == <<r, pos[r]>> \in db["lines"]
       IN  /\ db' = IF Effective(reply) /\ accepted
                    THEN [db EXCEPT !["ledger"] = @ \cup {<<r, pos[r]>>}] ELSE db
           /\ IF Succeeds(reply) /\ accepted THEN UNCHANGED problems ELSE Problem(r)
    /\ Advance(r)
    /\ Note(r, reply)
    /\ UNCHANGED <<run, mapped, last, unread>>

\* The client leaves and the handler is dropped at an await.
Disconnect(r) ==
    /\ Active(r)
    /\ End(r, "gone")
    /\ UNCHANGED <<db, run, mapped, problems, faulty, last, unread>>

Step(r) ==
    \/ SkipNamed(r) \/ SkipEntry(r) \/ Disconnect(r)
    \/ \E reply \in LookupReplies :
        PurgeCount(r, reply) \/ FindAccount(r, reply) \/ FindNamed(r, reply)
    \/ \E reply \in WriteReplies :
        \/ PurgeDelete(r, reply) \/ CreateAccount(r, reply) \/ InsertNamed(r, reply)
        \/ InsertEntry(r, reply) \/ InsertLines(r, reply) \/ InsertLedger(r, reply)

ImportNext ==
    \E r \in Runs : Step(r) \/ \E d \in BOOLEAN, p \in BOOLEAN : Start(r, d, p)

ImportSpec == ImportInit /\ [][ImportNext]_importVars

-----------------------------------------------------------------------------
\* Types; a run stands at a table while it purges, at an item while it imports.
ImportTypeOK ==
    /\ db \in [Tables -> SUBSET Rows]
    /\ phase \in [Runs -> {"idle", "count", "delete", "item", "insert", "lines",
                        "ledger", "done"}]
    /\ pos \in [Runs -> Nat]
    /\ \A r \in Runs :
        /\ phase[r] \in {"count", "delete"} => pos[r] \in 1..Len(PurgeOrder)
        /\ phase[r] \in {"item", "insert", "lines", "ledger"} => pos[r] \in Items
    /\ dry \in [Runs -> BOOLEAN] /\ purge \in [Runs -> BOOLEAN]
    /\ mapped \in [Runs -> SUBSET Items] /\ problems \in [Runs -> SUBSET Items]
    /\ faulty \in [Runs -> BOOLEAN]
    /\ verdict \in [Runs -> {"none", "success", "error", "gone"}]
    /\ last \in Runs \cup {Origin}
    /\ unread \in [Runs -> SUBSET Items]

\* "Dry run mode: no data was written to the database": no step of a dry run
\* changes a table, purge included.
DryRunWritesNothing ==
    [][\A r \in Runs : dry[r] /\ (phase'[r] # phase[r] \/ pos'[r] # pos[r]) =>
            UNCHANGED db]_importVars

\* Item i is in the database, a journal entry with its lines and its ledger
\* rows; the exception is the entry whose stored lines could not be read back.
Stored(r, i) ==
    IF Worklist[i].kind = "journal"
    THEN /\ <<r, i>> \in db["journal"] /\ <<r, i>> \in db["lines"]
         /\ <<r, i>> \in db["ledger"] \/ i \in unread[r]
    ELSE Exists(Worklist[i].kind, i)

\* What run_import says of any file after the import, whatever was stored: that
\* a journal has no tax codes, and the totals of a trial balance.
TaxNotice == 0
BalanceNotice == -1
Notices == {n \in {TaxNotice, BalanceNotice} :
                (n = TaxNotice /\ Journal # << >>) \/ (n = BalanceNotice /\ HasTrialBalance)}

\* The warnings and errors of a report: items, and the notices of a success.
Report(r) == problems[r] \cup (IF verdict[r] = "success" THEN Notices ELSE {})

\* A success that reports nothing but the two notices is complete: every item
\* of the file is in the database, every journal entry with its lines and
\* ledger rows, unless the answer to the insert of its lines was unreadable
\* (the code then silently makes no ledger rows).
CleanReportIsComplete ==
    \A r \in Runs :
        /\ verdict[r] = "success" /\ last = r /\ ~dry[r]
        /\ Report(r) \subseteq {TaxNotice, BalanceNotice}
        => \A i \in Items : Stored(r, i)

\* Imports one after the other, retried after any failure, never create an
\* account, a customer, a vendor or a bank account twice.
NoDuplicateNames ==
    \A t \in Named \cup {"accounts"} : \A row1, row2 \in db[t] :
        Worklist[row1[2]].name = Worklist[row2[2]].name => row1 = row2

\* When no call fails, the purge order leaves nothing behind: the import
\* starts on empty tables.
PurgeClears ==
    \A r \in Runs :
        /\ last = r /\ purge[r] /\ ~dry[r] /\ ~faulty[r]
        /\ phase[r] = "item" /\ pos[r] = 1
        => \A k \in 1..Len(PurgeOrder) : db[PurgeOrder[k]] = {}
=============================================================================
