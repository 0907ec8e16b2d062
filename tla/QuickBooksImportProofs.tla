---------------------- MODULE QuickBooksImportProofs ----------------------
(***************************************************************************)
(* The QuickBooks import, for any file.  Stage says where a run may stand; *)
(* it holds for any number of imports at once and gives the dry run.  The  *)
(* other properties are about imports one after the other: only the run    *)
(* started last is under way (Serial), and what it has purged or imported  *)
(* so far is as it left it.                                                *)
(***************************************************************************)
EXTENDS QuickBooksImport, FiniteSetTheorems, TLAPS

Purging == {"count", "delete"}
Importing == {"item", "insert", "lines", "ledger"}

Stage(r) ==
    /\ phase[r] = "idle" => pos[r] = 1 /\ verdict[r] = "none"
    /\ phase[r] = "insert" => Worklist[pos[r]].kind \in Named \cup {"accounts"}
    /\ phase[r] \in {"lines", "ledger"} => Worklist[pos[r]].kind = "journal"
    /\ phase[r] \in Purging \cup Importing => verdict[r] = "none"
    /\ dry[r] => phase[r] \notin {"delete", "insert", "lines", "ledger"}

Stages == ImportTypeOK /\ \A r \in Runs : Stage(r)

LEMMA PurgeTables ==
  /\ Len(PurgeOrder) = 6 /\ 1 \in 1..Len(PurgeOrder)
  /\ \A k \in 1..Len(PurgeOrder) : PurgeOrder[k] \in Tables
  BY DEF PurgeOrder, Tables

LEMMA InitStages == ImportInit => Stages
<1> SUFFICES ASSUME ImportInit PROVE Stages
  OBVIOUS
<1>1. db \in [Tables -> SUBSET Rows]
  BY DEF ImportInit, Rows
<1>2. phase \in [Runs -> {"idle"}]
  BY DEF ImportInit
<1>3. ImportTypeOK
  BY <1>1, <1>2 DEF ImportInit, ImportTypeOK
<1> QED BY <1>3 DEF ImportInit, Stages, Stage, Purging, Importing

\* A step of r: the other runs stay where they are.
Others(r) ==
    \A s \in Runs \ {r} :
        /\ phase'[s] = phase[s] /\ pos'[s] = pos[s] /\ dry'[s] = dry[s] /\ purge'[s] = purge[s]
        /\ verdict'[s] = verdict[s] /\ problems'[s] = problems[s] /\ faulty'[s] = faulty[s]

\* Where NextItem leads.
LEMMA NextItemStage ==
  ASSUME Stages, NEW r \in Runs, phase[r] # "done", NEW i \in Nat, i # 0, NextItem(r, i)
  PROVE  /\ pos' \in [Runs -> Nat] /\ pos'[r] = i
         /\ phase' \in [Runs -> {"idle", "count", "delete", "item", "insert", "lines", "ledger", "done"}]
         /\ verdict' \in [Runs -> {"none", "success", "error", "gone"}]
         /\ \A s \in Runs \ {r} : phase'[s] = phase[s] /\ pos'[s] = pos[s] /\ verdict'[s] = verdict[s]
         /\ \/ i \in Items /\ phase'[r] = "item" /\ verdict'[r] = verdict[r]
            \/ i \notin Items /\ phase'[r] = "done" /\ verdict'[r] = "success"
  BY DEF NextItem, Stages, ImportTypeOK

LEMMA GotoStage ==
  ASSUME Stages, NEW r \in Runs,
         NEW p \in {"count", "delete", "insert", "lines", "ledger"}, Goto(r, p)
  PROVE  /\ pos' \in [Runs -> Nat] /\ pos'[r] = pos[r]
         /\ phase' \in [Runs -> {"idle", "count", "delete", "item", "insert", "lines", "ledger", "done"}]
         /\ verdict' \in [Runs -> {"none", "success", "error", "gone"}]
         /\ \A s \in Runs \ {r} : phase'[s] = phase[s] /\ pos'[s] = pos[s] /\ verdict'[s] = verdict[s]
         /\ phase'[r] = p /\ verdict'[r] = verdict[r]
  BY DEF Goto, Stages, ImportTypeOK

LEMMA EndStage ==
  ASSUME Stages, NEW r \in Runs, NEW v \in {"error", "gone"}, End(r, v)
  PROVE  /\ pos' \in [Runs -> Nat] /\ pos'[r] = pos[r]
         /\ phase' \in [Runs -> {"idle", "count", "delete", "item", "insert", "lines", "ledger", "done"}]
         /\ verdict' \in [Runs -> {"none", "success", "error", "gone"}]
         /\ \A s \in Runs \ {r} : phase'[s] = phase[s] /\ pos'[s] = pos[s] /\ verdict'[s] = verdict[s]
         /\ phase'[r] = "done" /\ verdict'[r] = v
  BY DEF End, Stages, ImportTypeOK

-----------------------------------------------------------------------------
(* Every step of a run under way is one of these moves. *)

Moves(r) ==
    \/ phase[r] \in Importing /\ Advance(r)
    \/ phase[r] = "item" /\ ~dry[r] /\ Worklist[pos[r]].kind # "journal" /\ Goto(r, "insert")
    \/ phase[r] = "item" /\ ~dry[r] /\ Worklist[pos[r]].kind = "journal" /\ Goto(r, "lines")
    \/ phase[r] = "lines" /\ Goto(r, "ledger")
    \/ \E v \in {"error", "gone"} : End(r, v)
    \/ phase[r] \in Purging /\ NextTable(r)
    \/ phase[r] = "count" /\ ~dry[r] /\ Goto(r, "delete")

\* What it leaves: other runs, the flags, warnings and faults reported so far.
Frame(r) ==
    /\ Active(r) /\ UNCHANGED <<run, last>>
    /\ db' \in [Tables -> SUBSET Rows]
    /\ mapped' \in [Runs -> SUBSET Items] /\ problems' \in [Runs -> SUBSET Items]
    /\ faulty' \in [Runs -> BOOLEAN]
    /\ problems[r] \subseteq problems'[r] /\ (faulty[r] => faulty'[r])
    /\ unread' \in [Runs -> SUBSET Items] /\ unread[r] \subseteq unread'[r]
    /\ \A s \in Runs \ {r} : problems'[s] = problems[s] /\ faulty'[s] = faulty[s]

LEMMA MovesStages ==
  ASSUME Stages, NEW r \in Runs, Frame(r), Moves(r)
  PROVE  Stages' /\ Others(r)
<1>1. UNCHANGED <<dry, purge>>
  BY DEF Frame, run
<1>2. /\ pos[r] \in Nat
      /\ phase[r] \in Importing => pos[r] \in Items
      /\ phase[r] \in Purging => pos[r] \in 1..Len(PurgeOrder)
      /\ phase[r] \in Importing \cup Purging /\ verdict[r] = "none"
  BY DEF Stages, ImportTypeOK, Stage, Importing, Purging, Frame, Active
<1>3. ASSUME pos' \in [Runs -> Nat],
             phase' \in [Runs -> {"idle", "count", "delete", "item", "insert", "lines", "ledger", "done"}],
             verdict' \in [Runs -> {"none", "success", "error", "gone"}],
             \A s \in Runs \ {r} : phase'[s] = phase[s] /\ pos'[s] = pos[s] /\ verdict'[s] = verdict[s],
             phase'[r] # "idle",
             phase'[r] \in Purging => pos'[r] \in 1..Len(PurgeOrder),
             phase'[r] \in Importing => pos'[r] \in Items,
             Stage(r)'
      PROVE  Stages' /\ Others(r)
  <2>1. Others(r)
    BY <1>1, <1>3 DEF Others, Frame
  <2>2. \A s \in Runs \ {r} : Stage(s)'
    BY <1>1, <1>3 DEF Stages, Stage
  <2>3. ImportTypeOK'
    BY <1>1, <1>3 DEF Stages, ImportTypeOK, Frame, Purging, Importing
  <2> QED BY <1>3, <2>1, <2>2, <2>3 DEF Stages
<1>4. CASE phase[r] \in Importing /\ Advance(r)
  <2>1. pos[r] + 1 \in Nat /\ pos[r] + 1 # 0 /\ phase[r] # "done"
    BY <1>2, <1>4 DEF Importing
  <2>2. NextItem(r, pos[r] + 1)
    BY <1>4 DEF Advance
  <2> QED BY <1>1, <1>2, <1>3, <2>1, <2>2, NextItemStage DEF Stage, Importing, Purging
<1>5. CASE \E v \in {"error", "gone"} : End(r, v)
  BY <1>1, <1>2, <1>3, <1>5, EndStage DEF Stage, Importing, Purging
<1>6. CASE /\ phase[r] = "item" /\ ~dry[r] /\ Worklist[pos[r]].kind # "journal" /\ Goto(r, "insert")
  <2>1. Worklist[pos[r]].kind \in Named \cup {"accounts"}
    BY <1>2, <1>6, ImportAssumption DEF Importing
  <2> QED BY <1>1, <1>2, <1>3, <1>6, <2>1, GotoStage DEF Stage, Importing, Purging
<1>7. CASE phase[r] = "item" /\ ~dry[r] /\ Worklist[pos[r]].kind = "journal" /\ Goto(r, "lines")
  BY <1>1, <1>2, <1>3, <1>7, GotoStage DEF Stage, Importing, Purging
<1>8. CASE phase[r] = "lines" /\ Goto(r, "ledger")
  <2>1. Stage(r)
    BY DEF Stages
  <2> QED BY <1>1, <1>2, <1>3, <1>8, <2>1, GotoStage DEF Stage, Importing, Purging
<1>9. CASE phase[r] = "count" /\ ~dry[r] /\ Goto(r, "delete")
  BY <1>1, <1>2, <1>3, <1>9, GotoStage DEF Stage, Importing, Purging
<1>10. CASE phase[r] \in Purging /\ NextTable(r)
  <2>1. CASE pos[r] < Len(PurgeOrder)
    <3>1. /\ pos' = [pos EXCEPT ![r] = @ + 1] /\ phase' = [phase EXCEPT ![r] = "count"]
          /\ verdict' = verdict /\ pos[r] + 1 \in 1..Len(PurgeOrder)
      BY <1>2, <1>10, <2>1, PurgeTables DEF NextTable
    <3> QED BY <1>1, <1>2, <1>3, <3>1 DEF Stages, ImportTypeOK, Stage, Importing, Purging
  <2>2. CASE NextItem(r, 1)
    BY <1>1, <1>2, <1>3, <1>10, <2>2, NextItemStage DEF Stage, Importing, Purging
  <2> QED BY <1>10, <2>1, <2>2 DEF NextTable
<1> QED BY <1>4, <1>5, <1>6, <1>7, <1>8, <1>9, <1>10 DEF Moves

LEMMA Writes ==
  ASSUME Stages, NEW t \in Tables, NEW row \in Rows, NEW reply, Write(t, row, reply)
  PROVE  /\ db' \in [Tables -> SUBSET Rows]
         /\ \A u \in Tables : db[u] \subseteq db'[u]
         /\ \A u \in Tables \ {t} : db'[u] = db[u]
         /\ db'[t] = IF Effective(reply) THEN db[t] \cup {row} ELSE db[t]
  BY DEF Write, Stages, ImportTypeOK

LEMMA ItemFacts ==
  ASSUME Stages, NEW r \in Runs, phase[r] \in Importing
  PROVE  /\ Active(r) /\ pos[r] \in Items /\ <<r, pos[r]>> \in Rows
         /\ Worklist[pos[r]].kind \in Named \cup {"accounts", "journal"}
         /\ Named \cup {"accounts", "journal"} \subseteq Tables
  BY ImportAssumption DEF Stages, ImportTypeOK, Importing, Active, Rows, Named, Tables

LEMMA ItemPosition ==
  ASSUME Stages, NEW r \in Runs, phase[r] \in Importing
  PROVE  pos[r] \in Nat /\ pos[r] >= 1 /\ pos[r] <= Len(Worklist)
<1>1. pos[r] \in 1..Len(Worklist)
  BY ItemFacts DEF Items
<1> QED BY <1>1, ImportAssumption

LEMMA Noted ==
  ASSUME Stages, NEW r \in Runs, NEW reply, Note(r, reply)
  PROVE  /\ faulty' \in [Runs -> BOOLEAN]
         /\ faulty[r] \/ reply # "ok" <=> faulty'[r]
         /\ \A s \in Runs \ {r} : faulty'[s] = faulty[s]
  BY DEF Note, Stages, ImportTypeOK

LEMMA Reported ==
  ASSUME Stages, NEW r \in Runs, Problem(r), pos[r] \in Items
  PROVE  /\ problems' \in [Runs -> SUBSET Items] /\ problems'[r] = problems[r] \cup {pos[r]}
         /\ \A s \in Runs \ {r} : problems'[s] = problems[s]
  BY DEF Problem, Stages, ImportTypeOK

-----------------------------------------------------------------------------
(* The steps of the import proper. *)

\* A table is only ever added to, and only the row of the current item; an item
\* left behind without a problem is stored; a name is only inserted where the
\* look-up, or the upsert itself, found none.
Imports(r) ==
    LET row == <<r, pos[r]>>
        kind == Worklist[pos[r]].kind
    IN  /\ phase[r] \in Importing
        /\ \A t \in Tables : db[t] \subseteq db'[t] /\ db'[t] \subseteq db[t] \cup {row}
        /\ dry[r] => db' = db
        /\ ~dry[r] /\ problems'[r] = {} /\ pos'[r] # pos[r] =>
                \A i \in Items : i = pos[r] => Stored(r, i)'
        /\ row \in db'["lines"] => row \in db["lines"] \/ row \in db["journal"]
        /\ \A t \in Named \cup {"accounts"} : db'[t] # db[t] =>
                t = kind /\ phase[r] = "insert" /\ (t = "accounts" => ~Exists(t, pos[r]))
        /\ phase'[r] = "insert" /\ kind \in Named =>
                ~Exists(kind, pos[r]) \/ "garbled" \in LookupReplies

\* The database keeps lines and entries together.
Foreign == db["lines"] \subseteq db["journal"]

\* A step that writes nothing.
LEMMA QuietImport ==
  ASSUME Stages, NEW r \in Runs, phase[r] \in Importing, UNCHANGED <<db, unread>>,
         ~dry[r] /\ problems'[r] = {} /\ pos'[r] # pos[r] => Stored(r, pos[r]),
         phase'[r] = "insert" /\ Worklist[pos[r]].kind \in Named =>
                ~Exists(Worklist[pos[r]].kind, pos[r]) \/ "garbled" \in LookupReplies
  PROVE  Imports(r)
<1>1. ASSUME NEW i \in Items PROVE Stored(r, i)' <=> Stored(r, i)
  BY DEF Stored, Exists
<1> QED BY <1>1 DEF Imports

LEMMA SkipNamedStep ==
  ASSUME Stages, NEW r \in Runs, SkipNamed(r)
  PROVE  Frame(r) /\ Moves(r) /\ Imports(r)
<1>1. phase[r] = "item" /\ phase[r] \in Importing /\ Advance(r) /\ UNCHANGED <<db, run, mapped, faulty, last, unread>>
  BY DEF SkipNamed, Importing
<1>2. Active(r) /\ pos[r] \in Items
  BY <1>1, ItemFacts
<1>3. (dry[r] /\ UNCHANGED problems) \/ Problem(r)
  BY DEF SkipNamed, ReportUnmapped
<1>4. Frame(r)
  BY <1>1, <1>2, <1>3, Reported DEF Frame, Stages, ImportTypeOK
<1>5. dry[r] \/ problems'[r] # {}
  BY <1>2, <1>3, Reported
<1>6. phase'[r] \notin {"insert", "lines", "ledger"}
  BY <1>1 DEF Advance, NextItem, Stages, ImportTypeOK
<1>7. Imports(r)
  BY <1>1, <1>5, <1>6, QuietImport
<1> QED BY <1>1, <1>4, <1>7 DEF Moves

LEMMA SkipEntryStep ==
  ASSUME Stages, NEW r \in Runs, SkipEntry(r)
  PROVE  Frame(r) /\ Moves(r) /\ Imports(r)
<1>1. phase[r] = "item" /\ phase[r] \in Importing /\ Advance(r) /\ UNCHANGED <<db, run, mapped, faulty, last, unread>>
  BY DEF SkipEntry, Importing
<1>2. Active(r) /\ pos[r] \in Items
  BY <1>1, ItemFacts
<1>3. (dry[r] /\ UNCHANGED problems) \/ Problem(r)
  BY DEF SkipEntry
<1>4. Frame(r)
  BY <1>1, <1>2, <1>3, Reported DEF Frame, Stages, ImportTypeOK
<1>5. dry[r] \/ problems'[r] # {}
  BY <1>2, <1>3, Reported
<1>6. phase'[r] \notin {"insert", "lines", "ledger"}
  BY <1>1 DEF Advance, NextItem, Stages, ImportTypeOK
<1>7. Imports(r)
  BY <1>1, <1>5, <1>6, QuietImport
<1> QED BY <1>1, <1>4, <1>7 DEF Moves

LEMMA FindAccountStep ==
  ASSUME Stages, NEW r \in Runs, NEW reply \in LookupReplies, FindAccount(r, reply)
  PROVE  Frame(r) /\ Moves(r) /\ Imports(r)
<1> DEFINE found == reply = "ok" /\ Exists("accounts", pos[r])
<1>1. /\ phase[r] = "item" /\ phase[r] \in Importing /\ Worklist[pos[r]].kind = "accounts"
      /\ UNCHANGED <<db, run, last, unread>> /\ Note(r, reply)
  BY DEF FindAccount, Importing
<1>2. Active(r) /\ pos[r] \in Items
  BY <1>1, ItemFacts
<1>3. \/ End(r, "error") /\ UNCHANGED <<mapped, problems>>
      \/ /\ found \/ dry[r]
         /\ mapped' = [mapped EXCEPT ![r] = @ \cup {pos[r]}] /\ Advance(r) /\ UNCHANGED problems
      \/ Problem(r) /\ Advance(r) /\ UNCHANGED mapped
      \/ ~dry[r] /\ Goto(r, "insert") /\ UNCHANGED <<mapped, problems>>
  BY DEF FindAccount
<1>4. mapped' \in [Runs -> SUBSET Items]
  <2>1. mapped \in [Runs -> SUBSET Items]
    BY DEF Stages, ImportTypeOK
  <2> QED BY <1>2, <1>3, <2>1
<1>5. Frame(r)
  BY <1>1, <1>2, <1>3, <1>4, Reported, Noted DEF Frame, Stages, ImportTypeOK
<1>6. Moves(r)
  BY <1>1, <1>3 DEF Moves
<1>7. Named \cap {"accounts"} = {}
  BY DEF Named
<1>8. phase'[r] \notin {"lines", "ledger"} /\ (End(r, "error") \/ Goto(r, "insert") => pos'[r] = pos[r])
  BY <1>3 DEF Advance, NextItem, End, Goto, Stages, ImportTypeOK
<1>9. ~dry[r] /\ problems'[r] = {} /\ pos'[r] # pos[r] => Stored(r, pos[r])
  BY <1>1, <1>2, <1>3, <1>8, Reported DEF Stored
<1>10. Imports(r)
  BY <1>1, <1>7, <1>8, <1>9, QuietImport
<1> QED BY <1>5, <1>6, <1>10

\* Add(r, t): the row of the current item is written to t.
Add(r, t) == db' = [db EXCEPT ![t] = @ \cup {<<r, pos[r]>>}]

LEMMA Added ==
  ASSUME Stages, NEW r \in Runs, phase[r] \in Importing, NEW t \in Tables, UNCHANGED db \/ Add(r, t)
  PROVE  /\ db' \in [Tables -> SUBSET Rows]
         /\ \A u \in Tables : db[u] \subseteq db'[u] /\ db'[u] \subseteq db[u] \cup {<<r, pos[r]>>}
         /\ \A u \in Tables \ {t} : db'[u] = db[u]
         /\ Add(r, t) => <<r, pos[r]>> \in db'[t]
<1>1. <<r, pos[r]>> \in Rows
  BY ItemFacts
<1>2. db \in [Tables -> SUBSET Rows]
  BY DEF Stages, ImportTypeOK
<1>3. CASE UNCHANGED db /\ ~Add(r, t)
  BY <1>2, <1>3
<1>4. CASE Add(r, t)
  BY <1>1, <1>2, <1>4 DEF Add
<1> QED BY <1>3, <1>4

\* What every insert of an item keeps, whether or not it took effect.
LEMMA Written ==
  ASSUME Stages, NEW r \in Runs, NEW reply, NEW t \in Tables,
         Active(r), phase[r] \in Importing, pos[r] \in Items,
         UNCHANGED <<run, mapped, last>>, Note(r, reply),
         UNCHANGED unread \/ unread' = [unread EXCEPT ![r] = @ \cup {pos[r]}],
         UNCHANGED db \/ Add(r, t), UNCHANGED problems \/ Problem(r)
  PROVE  Frame(r)
<1>1. /\ faulty' \in [Runs -> BOOLEAN] /\ (faulty[r] => faulty'[r])
      /\ \A s \in Runs \ {r} : faulty'[s] = faulty[s]
  BY Noted
<1>2. /\ problems' \in [Runs -> SUBSET Items] /\ problems[r] \subseteq problems'[r]
      /\ \A s \in Runs \ {r} : problems'[s] = problems[s]
  <2>1. CASE UNCHANGED problems
    BY <2>1 DEF Stages, ImportTypeOK
  <2>2. CASE Problem(r)
    BY <2>2, Reported
  <2> QED BY <2>1, <2>2
<1>3. db' \in [Tables -> SUBSET Rows]
  BY Added
<1>4. mapped' \in [Runs -> SUBSET Items]
  BY DEF Stages, ImportTypeOK
<1>5. unread' \in [Runs -> SUBSET Items] /\ unread[r] \subseteq unread'[r]
  <2>1. unread \in [Runs -> SUBSET Items]
    BY DEF Stages, ImportTypeOK
  <2>2. CASE UNCHANGED unread
    BY <2>1, <2>2
  <2>3. CASE unread' = [unread EXCEPT ![r] = @ \cup {pos[r]}]
    BY <2>1, <2>3
  <2> QED BY <2>2, <2>3
<1> QED BY <1>1, <1>2, <1>3, <1>4, <1>5 DEF Frame

LEMMA CreateAccountStep ==
  ASSUME Stages, NEW r \in Runs, NEW reply, CreateAccount(r, reply)
  PROVE  Frame(r) /\ Moves(r) /\ Imports(r)
<1>1. /\ phase[r] = "insert" /\ phase[r] \in Importing /\ Worklist[pos[r]].kind = "accounts"
      /\ UNCHANGED <<run, problems, last, unread>> /\ Note(r, reply)
  BY DEF CreateAccount, Importing
<1>2. Active(r) /\ pos[r] \in Items /\ "accounts" \in Tables /\ "journal" \in Tables /\ "lines" \in Tables
  BY <1>1, ItemFacts DEF Tables
<1>3. /\ UNCHANGED db \/ (Add(r, "accounts") /\ ~Exists("accounts", pos[r]))
      /\ Succeeds(reply) => Exists("accounts", pos[r]) \/ Add(r, "accounts")
  BY DEF CreateAccount, Write, Add, Effective, Succeeds
<1>4. /\ mapped' \in [Runs -> SUBSET Items]
      /\ (Succeeds(reply) /\ Advance(r)) \/ End(r, "error")
  BY <1>2 DEF CreateAccount, Stages, ImportTypeOK
<1>5. Frame(r)
  BY <1>1, <1>2, <1>3, <1>4, Noted, Added DEF Frame, Stages, ImportTypeOK
<1>6. Moves(r)
  BY <1>1, <1>4 DEF Moves
<1>7. phase'[r] \in {"item", "done"} /\ (End(r, "error") => pos'[r] = pos[r])
  BY <1>4 DEF Advance, NextItem, End, Stages, ImportTypeOK
<1>8. ASSUME pos'[r] # pos[r], NEW i \in Items, i = pos[r] PROVE Stored(r, i)'
  <2>1. Exists("accounts", i) \/ Add(r, "accounts")
    BY <1>3, <1>4, <1>7, <1>8
  <2>2. db["accounts"] \subseteq db'["accounts"]
    BY <1>1, <1>2, <1>3, Added
  <2>3. \E row \in db'["accounts"] : Worklist[row[2]].name = Worklist[i].name
    BY <1>1, <1>2, <1>8, <2>1, <2>2, Added DEF Exists
  <2> QED BY <1>1, <1>8, <2>3 DEF Stored, Exists
<1>9. dry[r] => db' = db
  BY <1>1 DEF Stages, Stage
<1>10. Named \cap {"accounts"} = {} /\ Named \subseteq Tables \ {"accounts"}
  BY DEF Named, Tables
<1>11. Imports(r)
  BY <1>1, <1>2, <1>3, <1>7, <1>8, <1>9, <1>10, Added DEF Imports
<1> QED BY <1>5, <1>6, <1>11

LEMMA FindNamedStep ==
  ASSUME Stages, NEW r \in Runs, NEW reply \in LookupReplies, FindNamed(r, reply)
  PROVE  Frame(r) /\ Moves(r) /\ Imports(r)
<1>1. /\ phase[r] = "item" /\ phase[r] \in Importing /\ Worklist[pos[r]].kind \in Named /\ ~dry[r]
      /\ UNCHANGED <<db, run, mapped, problems, last, unread>> /\ Note(r, reply)
  BY DEF FindNamed, Importing
<1>2. Active(r) /\ pos[r] \in Items /\ Worklist[pos[r]].kind # "journal"
  BY <1>1, ItemFacts DEF Named
<1>3. \/ End(r, "error")
      \/ Exists(Worklist[pos[r]].kind, pos[r]) /\ Advance(r)
      \/ /\ ~Exists(Worklist[pos[r]].kind, pos[r]) \/ "garbled" \in LookupReplies
         /\ Goto(r, "insert")
  BY DEF FindNamed, Found, Succeeds
<1>4. Frame(r)
  BY <1>1, <1>2, Noted DEF Frame, Stages, ImportTypeOK
<1>5. Moves(r)
  BY <1>1, <1>2, <1>3 DEF Moves
<1>6. /\ phase'[r] \notin {"lines", "ledger"}
      /\ End(r, "error") \/ Goto(r, "insert") => pos'[r] = pos[r]
      /\ End(r, "error") \/ Advance(r) => phase'[r] # "insert"
  BY <1>3 DEF Advance, NextItem, End, Goto, Stages, ImportTypeOK
<1>7. Imports(r)
  BY <1>1, <1>2, <1>3, <1>6, QuietImport DEF Stored
<1> QED BY <1>4, <1>5, <1>7

LEMMA InsertNamedStep ==
  ASSUME Stages, NEW r \in Runs, NEW reply, InsertNamed(r, reply)
  PROVE  Frame(r) /\ Moves(r) /\ Imports(r)
<1> DEFINE kind == Worklist[pos[r]].kind
<1>1. /\ phase[r] = "insert" /\ phase[r] \in Importing /\ kind \in Named
      /\ UNCHANGED <<run, mapped, last, unread>> /\ Note(r, reply) /\ Advance(r)
  BY DEF InsertNamed, Importing
<1>2. Active(r) /\ pos[r] \in Items /\ kind \in Tables /\ kind \notin {"journal", "lines", "accounts"}
  BY <1>1, ItemFacts DEF Tables, Named
<1>3. /\ UNCHANGED db \/ Add(r, kind)
      /\ (Add(r, kind) /\ UNCHANGED problems) \/ Problem(r)
  BY DEF InsertNamed, Write, Add, Effective, Succeeds
<1>4. Frame(r)
  BY <1>1, <1>2, <1>3, Written
<1>5. phase'[r] \in {"item", "done"}
  BY <1>1 DEF Advance, NextItem, Stages, ImportTypeOK
<1>6. ASSUME problems'[r] = {}, NEW i \in Items, i = pos[r] PROVE Stored(r, i)'
  <2>1. Add(r, kind)
    BY <1>2, <1>3, <1>6, Reported
  <2>2. <<r, i>> \in db'[kind]
    BY <1>1, <1>2, <1>6, <2>1, Added
  <2> QED BY <1>2, <1>6, <2>2 DEF Stored, Exists
<1>7. dry[r] => db' = db
  BY <1>1 DEF Stages, Stage
<1>8. {"journal", "lines", "accounts"} \cup Named \subseteq Tables
  BY DEF Named, Tables
<1>9. Imports(r)
  <2> HIDE DEF kind
  <2>1. /\ \A u \in Tables : db[u] \subseteq db'[u] /\ db'[u] \subseteq db[u] \cup {<<r, pos[r]>>}
        /\ \A u \in Tables \ {kind} : db'[u] = db[u]
    BY <1>1, <1>2, <1>3, Added
  <2> QED BY <1>1, <1>2, <1>5, <1>6, <1>7, <1>8, <2>1 DEF Imports, kind
<1> QED BY <1>1, <1>4, <1>9 DEF Moves

LEMMA InsertEntryStep ==
  ASSUME Stages, NEW r \in Runs, NEW reply, InsertEntry(r, reply)
  PROVE  Frame(r) /\ Moves(r) /\ Imports(r)
<1>1. /\ phase[r] = "item" /\ phase[r] \in Importing /\ Worklist[pos[r]].kind = "journal" /\ ~dry[r]
      /\ UNCHANGED <<run, mapped, last, unread>> /\ Note(r, reply)
  BY DEF InsertEntry, Importing
<1>2. Active(r) /\ pos[r] \in Items /\ {"journal", "lines", "accounts"} \cup Named \subseteq Tables
  BY <1>1, ItemFacts DEF Tables, Named
<1>3. /\ UNCHANGED db \/ Add(r, "journal")
      /\ \/ Add(r, "journal") /\ Goto(r, "lines") /\ UNCHANGED problems
         \/ Problem(r) /\ Advance(r)
  BY DEF InsertEntry, Write, Add, Effective
<1>4. Frame(r)
  BY <1>1, <1>2, <1>3, Written
<1>5. Moves(r)
  BY <1>1, <1>3 DEF Moves
<1>6. phase'[r] \in {"item", "done", "lines"} /\ (Goto(r, "lines") => pos'[r] = pos[r])
      /\ (Advance(r) => phase'[r] # "lines")
  BY <1>3 DEF Advance, NextItem, Goto, Stages, ImportTypeOK
<1>7. "journal" \notin Named \cup {"accounts"}
  BY DEF Named
<1>8. pos'[r] # pos[r] => problems'[r] # {}
  BY <1>2, <1>3, <1>6, Reported
<1>9. Imports(r)
  BY <1>1, <1>2, <1>3, <1>6, <1>7, <1>8, Added DEF Imports
<1> QED BY <1>4, <1>5, <1>9

LEMMA InsertLinesStep ==
  ASSUME Stages, NEW r \in Runs, NEW reply, InsertLines(r, reply)
  PROVE  Frame(r) /\ Moves(r) /\ Imports(r)
<1> DEFINE row == <<r, pos[r]>>
<1>1. /\ phase[r] = "lines" /\ phase[r] \in Importing /\ Worklist[pos[r]].kind = "journal" /\ ~dry[r]
      /\ UNCHANGED <<run, mapped, last>> /\ Note(r, reply)
  BY DEF InsertLines, Importing, Stages, Stage
<1>2. Active(r) /\ pos[r] \in Items /\ {"journal", "lines", "accounts"} \cup Named \subseteq Tables
  BY <1>1, ItemFacts DEF Tables, Named
<1>3. /\ UNCHANGED db \/ (Add(r, "lines") /\ row \in db["journal"])
      /\ \/ Add(r, "lines") /\ row \in db["journal"] /\ Goto(r, "ledger") /\ UNCHANGED problems
         \/ Problem(r) /\ Advance(r)
         \/ /\ Add(r, "lines") /\ row \in db["journal"] /\ Advance(r) /\ UNCHANGED problems
            /\ unread' = [unread EXCEPT ![r] = @ \cup {pos[r]}]
      /\ UNCHANGED unread \/ unread' = [unread EXCEPT ![r] = @ \cup {pos[r]}]
  BY DEF InsertLines, Add, Effective, Succeeds
<1>4. Frame(r)
  BY <1>1, <1>2, <1>3, Written
<1>5. Moves(r)
  BY <1>1, <1>3 DEF Moves
<1>6. /\ phase'[r] \in {"item", "done", "ledger"} /\ (Goto(r, "ledger") => pos'[r] = pos[r])
      /\ Advance(r) => phase'[r] # "ledger"
  BY <1>3 DEF Advance, NextItem, Goto, Stages, ImportTypeOK
<1>7. "lines" \notin Named \cup {"accounts"}
  BY DEF Named
<1>8. ASSUME pos'[r] # pos[r], problems'[r] = {}, NEW i \in Items, i = pos[r] PROVE Stored(r, i)'
  <2>1. /\ Add(r, "lines") /\ row \in db["journal"]
        /\ unread' = [unread EXCEPT ![r] = @ \cup {pos[r]}]
    BY <1>2, <1>3, <1>6, <1>8, Reported
  <2>2. row \in db'["lines"] /\ row \in db'["journal"]
    BY <1>1, <1>2, <2>1, Added
  <2>3. i \in unread'[r]
    BY <1>8, <2>1 DEF Stages, ImportTypeOK
  <2> QED BY <1>1, <1>8, <2>2, <2>3 DEF Stored
<1>9. Imports(r)
  BY <1>1, <1>2, <1>3, <1>6, <1>7, <1>8, Added DEF Imports
<1> QED BY <1>4, <1>5, <1>9

LEMMA InsertLedgerStep ==
  ASSUME Stages, Foreign, NEW r \in Runs, NEW reply, InsertLedger(r, reply)
  PROVE  Frame(r) /\ Moves(r) /\ Imports(r)
<1> DEFINE row == <<r, pos[r]>>
<1>1. /\ phase[r] = "ledger" /\ phase[r] \in Importing /\ Worklist[pos[r]].kind = "journal" /\ ~dry[r]
      /\ UNCHANGED <<run, mapped, last, unread>> /\ Note(r, reply) /\ Advance(r)
  BY DEF InsertLedger, Importing, Stages, Stage
<1>2. /\ Active(r) /\ pos[r] \in Items
      /\ {"journal", "lines", "accounts", "ledger"} \cup Named \subseteq Tables
  BY <1>1, ItemFacts DEF Tables, Named
<1>3. /\ UNCHANGED db \/ Add(r, "ledger")
      /\ (row \in db["lines"] /\ Add(r, "ledger") /\ UNCHANGED problems) \/ Problem(r)
  BY DEF InsertLedger, Add, Effective, Succeeds
<1>4. Frame(r)
  BY <1>1, <1>2, <1>3, Written
<1>5. phase'[r] \in {"item", "done"}
  BY <1>1 DEF Advance, NextItem, Stages, ImportTypeOK
<1>6. "ledger" \notin Named \cup {"accounts"}
  BY DEF Named
<1>7. ASSUME problems'[r] = {}, NEW i \in Items, i = pos[r] PROVE Stored(r, i)'
  <2>1. row \in db["lines"] /\ row \in db["journal"] /\ Add(r, "ledger")
    BY <1>2, <1>3, <1>7, Reported DEF Foreign
  <2>2. row \in db'["lines"] /\ row \in db'["journal"] /\ row \in db'["ledger"]
    BY <1>1, <1>2, <1>3, <2>1, Added
  <2> QED BY <1>1, <1>7, <2>2 DEF Stored
<1>8. Imports(r)
  BY <1>1, <1>2, <1>3, <1>5, <1>6, <1>7, Added DEF Imports
<1> QED BY <1>1, <1>4, <1>8 DEF Moves

-----------------------------------------------------------------------------
(* The steps of the purge, and of a client that leaves. *)

\* A table is emptied or left alone; the run goes on to the next table only if
\* the current one is empty, or a call has failed, or nothing is to be deleted.
Purges(r) ==
    LET t == PurgeOrder[pos[r]]
    IN  /\ phase[r] \in Purging
        /\ db' = db \/ (db' = [db EXCEPT ![t] = {}] /\ ~Referenced(t) /\ ~dry[r])
        /\ \/ phase'[r] \in Purging /\ pos'[r] = pos[r]
           \/ phase'[r] = "done" /\ verdict'[r] # "success"
           \/ /\ NextTable(r)
              /\ faulty'[r] \/ dry[r] \/ db'[t] = {} \/ Referenced(t)

LEMMA PurgeCountStep ==
  ASSUME Stages, NEW r \in Runs, NEW reply, PurgeCount(r, reply)
  PROVE  Frame(r) /\ Moves(r) /\ Purges(r)
<1>1. /\ phase[r] = "count" /\ phase[r] \in Purging /\ Active(r)
      /\ UNCHANGED <<db, run, mapped, problems, last, unread>> /\ Note(r, reply)
  BY DEF PurgeCount, Purging, Active
<1>2. \/ End(r, "error")
      \/ reply # "ok" /\ NextTable(r)
      \/ (dry[r] \/ db[PurgeOrder[pos[r]]] = {}) /\ NextTable(r)
      \/ ~dry[r] /\ Goto(r, "delete")
  BY DEF PurgeCount, Spared
<1>3. Frame(r)
  BY <1>1, Noted DEF Frame, Stages, ImportTypeOK
<1>4. Moves(r)
  BY <1>1, <1>2 DEF Moves
<1>5. CASE End(r, "error")
  BY <1>1, <1>3, <1>4, <1>5, EndStage DEF Purges
<1>6. CASE ~dry[r] /\ Goto(r, "delete")
  <2>1. phase'[r] = "delete" /\ pos'[r] = pos[r]
    BY <1>6, GotoStage
  <2> QED BY <1>1, <1>3, <1>4, <2>1 DEF Purges, Purging
<1>7. CASE NextTable(r) /\ (reply # "ok" \/ dry[r] \/ db[PurgeOrder[pos[r]]] = {})
  BY <1>1, <1>3, <1>4, <1>7, Noted DEF Purges
<1> QED BY <1>2, <1>5, <1>6, <1>7

LEMMA PurgeDeleteStep ==
  ASSUME Stages, NEW r \in Runs, NEW reply, PurgeDelete(r, reply)
  PROVE  Frame(r) /\ Moves(r) /\ Purges(r)
<1> DEFINE t == PurgeOrder[pos[r]]
<1>1. /\ phase[r] = "delete" /\ phase[r] \in Purging /\ Active(r) /\ ~dry[r]
      /\ UNCHANGED <<run, mapped, problems, last, unread>> /\ Note(r, reply)
  BY DEF PurgeDelete, Purging, Active, Stages, Stage
<1>2. t \in Tables
  BY <1>1, PurgeTables DEF Stages, ImportTypeOK
<1>3. /\ \/ UNCHANGED db /\ (reply # "ok" \/ Referenced(t))
         \/ db' = [db EXCEPT ![t] = {}] /\ ~Referenced(t)
      /\ End(r, "error") \/ NextTable(r)
  BY DEF PurgeDelete, Effective
<1>4. db' \in [Tables -> SUBSET Rows] /\ (db' = [db EXCEPT ![t] = {}] => db'[t] = {})
  <2> HIDE DEF t
  <2> QED BY <1>2, <1>3 DEF Stages, ImportTypeOK
<1>5. Frame(r)
  BY <1>1, <1>4, Noted DEF Frame, Stages, ImportTypeOK
<1>6. Moves(r)
  BY <1>1, <1>3 DEF Moves
<1>7. End(r, "error") => phase'[r] = "done" /\ verdict'[r] # "success"
  BY EndStage
<1>8. Purges(r)
  BY <1>1, <1>3, <1>4, <1>7, Noted DEF Purges
<1> QED BY <1>5, <1>6, <1>8

LEMMA DisconnectStep ==
  ASSUME Stages, NEW r \in Runs, Disconnect(r)
  PROVE  Frame(r) /\ Moves(r) /\ (Purges(r) \/ Imports(r))
<1>1. Active(r) /\ End(r, "gone") /\ UNCHANGED <<db, run, mapped, problems, faulty, last, unread>>
  BY DEF Disconnect
<1>2. phase[r] \in Purging \cup Importing
  BY <1>1 DEF Stages, ImportTypeOK, Active, Purging, Importing
<1>3. phase'[r] = "done" /\ pos'[r] = pos[r] /\ verdict'[r] = "gone"
  BY <1>1, EndStage
<1>4. Frame(r) /\ Moves(r)
  BY <1>1 DEF Frame, Moves, Stages, ImportTypeOK
<1>5. CASE phase[r] \in Purging
  BY <1>1, <1>3, <1>4, <1>5 DEF Purges
<1>6. CASE phase[r] \in Importing
  BY <1>1, <1>3, <1>4, <1>6, QuietImport
<1> QED BY <1>2, <1>5, <1>6

LEMMA StepDigest ==
  ASSUME Stages, Foreign, NEW r \in Runs, Step(r)
  PROVE  Frame(r) /\ Moves(r) /\ (Purges(r) \/ Imports(r))
  BY SkipNamedStep, SkipEntryStep, DisconnectStep, PurgeCountStep, FindAccountStep, FindNamedStep,
     PurgeDeleteStep, CreateAccountStep, InsertNamedStep, InsertEntryStep, InsertLinesStep,
     InsertLedgerStep
  DEF Step

-----------------------------------------------------------------------------
LEMMA StartStep ==
  ASSUME Stages, NEW r \in Runs, NEW d \in BOOLEAN, NEW p \in BOOLEAN, Start(r, d, p)
  PROVE  /\ Stages'
         /\ phase[r] = "idle" /\ last' = r /\ dry'[r] = d /\ purge'[r] = p
         /\ UNCHANGED <<db, problems, faulty, unread>>
         /\ Cardinality({s \in Runs : Active(s)}) < MaxConcurrent
         /\ \A s \in Runs \ {r} : phase'[s] = phase[s] /\ verdict'[s] = verdict[s]
         /\ pos'[r] = 1 /\ phase'[r] \in {"count", "item", "done"}
         /\ phase'[r] = "done" => Items = {}
         /\ phase'[r] = "count" <=> p
<1>1. /\ phase[r] = "idle" /\ last' = r /\ UNCHANGED <<db, mapped, problems, faulty, unread>>
      /\ dry' = [dry EXCEPT ![r] = d] /\ purge' = [purge EXCEPT ![r] = p]
      /\ Cardinality({s \in Runs : Active(s)}) < MaxConcurrent
      /\ IF p THEN Goto(r, "count") ELSE NextItem(r, 1)
  BY DEF Start
<1>2. dry'[r] = d /\ purge'[r] = p /\ \A s \in Runs \ {r} : dry'[s] = dry[s]
  BY <1>1 DEF Stages, ImportTypeOK
<1>3. pos[r] = 1 /\ verdict[r] = "none"
  BY <1>1 DEF Stages, Stage
<1>4. /\ pos' \in [Runs -> Nat] /\ pos'[r] = 1
      /\ phase' \in [Runs -> {"idle", "count", "delete", "item", "insert", "lines", "ledger", "done"}]
      /\ verdict' \in [Runs -> {"none", "success", "error", "gone"}]
      /\ \A s \in Runs \ {r} : phase'[s] = phase[s] /\ pos'[s] = pos[s] /\ verdict'[s] = verdict[s]
      /\ \/ p /\ phase'[r] = "count" /\ verdict'[r] = "none"
         \/ ~p /\ 1 \in Items /\ phase'[r] = "item" /\ verdict'[r] = "none"
         \/ ~p /\ 1 \notin Items /\ phase'[r] = "done"
  <2>1. CASE p
    BY <1>1, <1>3, <2>1, GotoStage
  <2>2. CASE ~p
    BY <1>1, <1>3, <2>2, NextItemStage
  <2> QED BY <2>1, <2>2
<1>5. 1 \notin Items => Items = {}
  BY ImportAssumption DEF Items
<1>6. Stage(r)' /\ \A s \in Runs \ {r} : Stage(s)'
  BY <1>2, <1>4 DEF Stages, Stage, Purging, Importing
<1>7. ImportTypeOK'
  <2>1. dry' \in [Runs -> BOOLEAN] /\ purge' \in [Runs -> BOOLEAN]
    BY <1>1 DEF Stages, ImportTypeOK
  <2> QED BY <1>1, <1>4, <2>1, PurgeTables DEF Stages, ImportTypeOK
<1> QED BY <1>1, <1>2, <1>4, <1>5, <1>6, <1>7 DEF Stages

Sound == Stages /\ Foreign

LEMMA InitSound == ImportInit => Sound
  BY InitStages DEF Sound, Foreign, ImportInit, Tables

LEMMA PurgedForeign ==
  ASSUME Sound, NEW r \in Runs, Purges(r)
  PROVE  Foreign'
<1> DEFINE t == PurgeOrder[pos[r]]
<1>1. t \in Tables /\ "lines" \in Tables /\ "journal" \in Tables
  BY PurgeTables DEF Purges, Purging, Sound, Stages, ImportTypeOK, Tables
<1>2. db' = db \/ (db' = [db EXCEPT ![t] = {}] /\ ~Referenced(t))
  BY DEF Purges
<1> HIDE DEF t
<1>3. CASE t = "journal"
  BY <1>1, <1>2, <1>3 DEF Sound, Stages, ImportTypeOK, Foreign, Referenced
<1>4. CASE t # "journal"
  BY <1>1, <1>2, <1>4 DEF Sound, Stages, ImportTypeOK, Foreign
<1> QED BY <1>3, <1>4

LEMMA StepSound ==
  ASSUME Sound, NEW r \in Runs, Step(r)
  PROVE  Sound' /\ Frame(r) /\ Moves(r) /\ Others(r) /\ (Purges(r) \/ Imports(r))
<1>1. Frame(r) /\ Moves(r) /\ (Purges(r) \/ Imports(r))
  BY StepDigest DEF Sound
<1>2. Stages' /\ Others(r)
  BY <1>1, MovesStages DEF Sound
<1>3. CASE Imports(r)
  <2>1. "lines" \in Tables /\ "journal" \in Tables
    BY DEF Tables
  <2> QED BY <1>1, <1>2, <1>3, <2>1 DEF Imports, Foreign, Sound
<1> QED BY <1>1, <1>2, <1>3, PurgedForeign DEF Sound

LEMMA SoundStep == Sound /\ [ImportNext]_importVars => Sound'
<1> SUFFICES ASSUME Sound, [ImportNext]_importVars PROVE Sound'
  OBVIOUS
<1>1. CASE UNCHANGED importVars
  BY <1>1 DEF Sound, Stages, ImportTypeOK, Stage, Foreign, importVars, run
<1>2. ASSUME NEW r \in Runs, Step(r) PROVE Sound'
  BY <1>2, StepSound
<1>3. ASSUME NEW r \in Runs, NEW d \in BOOLEAN, NEW p \in BOOLEAN, Start(r, d, p) PROVE Sound'
  BY <1>3, StartStep DEF Sound, Foreign
<1> QED BY <1>1, <1>2, <1>3 DEF ImportNext

\* A run stands at a table of the purge or at an item of the file, whatever the
\* file, the flags and the failures: it never reads beyond either list.
THEOREM ImportTypes == ImportSpec => []ImportTypeOK
<1>1. Sound => ImportTypeOK
  BY DEF Sound, Stages
<1> QED BY <1>1, InitSound, SoundStep, PTL DEF ImportSpec

\* No step of a dry run changes a table, however many imports run at once.
THEOREM DryRunsAreDry == ImportSpec => DryRunWritesNothing
<1>1. Sound /\ [ImportNext]_importVars =>
        [\A r \in Runs : dry[r] /\ (phase'[r] # phase[r] \/ pos'[r] # pos[r]) => UNCHANGED db]_importVars
  <2> SUFFICES ASSUME Sound, ImportNext, NEW r \in Runs, dry[r], phase'[r] # phase[r] \/ pos'[r] # pos[r]
               PROVE  UNCHANGED db
    OBVIOUS
  <2>1. ASSUME NEW s \in Runs, Step(s) PROVE UNCHANGED db
    <3>1. s = r
      BY <2>1, StepSound DEF Others
    <3> QED BY <2>1, <3>1, StepSound DEF Purges, Imports
  <2>2. ASSUME NEW s \in Runs, NEW d \in BOOLEAN, NEW p \in BOOLEAN, Start(s, d, p)
        PROVE  UNCHANGED db
    BY <2>2 DEF Start
  <2> QED BY <2>1, <2>2 DEF ImportNext
<1> QED BY <1>1, InitSound, SoundStep, PTL DEF ImportSpec, DryRunWritesNothing

-----------------------------------------------------------------------------
(* Imports one after the other. *)

Serial == \A s \in Runs : Active(s) => s = last

\* What the run has come past in the purge is empty.
Purged(r) ==
    purge[r] /\ ~dry[r] /\ ~faulty[r] =>
        \A k \in 1..Len(PurgeOrder) :
            \/ phase[r] \in Purging /\ k < pos[r]
            \/ phase[r] = "item" /\ pos[r] = 1
            => db[PurgeOrder[k]] = {}

\* What it has come past in the file is stored.
Complete(r) ==
    ~dry[r] /\ problems[r] = {} =>
        \A i \in Items :
            \/ phase[r] \in Importing /\ i < pos[r]
            \/ verdict[r] = "success"
            => Stored(r, i)

Progress == \A r \in Runs : r = last => Purged(r) /\ Complete(r)

LEMMA InitProgress == ImportInit => Serial /\ Progress
  BY DEF ImportInit, Serial, Progress, Active, Purged, Complete, Purging, Importing

LEMMA SerialStart ==
  ASSUME MaxConcurrent = 1, Sound, Serial, NEW r \in Runs, NEW d \in BOOLEAN, NEW p \in BOOLEAN,
         Start(r, d, p)
  PROVE  /\ \A s \in Runs : ~Active(s)
         /\ Serial' /\ Progress'
<1>1. /\ Stages' /\ last' = r
      /\ Cardinality({s \in Runs : Active(s)}) < 1
      /\ \A s \in Runs \ {r} : phase'[s] = phase[s]
      /\ pos'[r] = 1 /\ phase'[r] \in {"count", "item", "done"}
      /\ phase'[r] = "done" => Items = {}
      /\ phase'[r] = "count" <=> p
      /\ purge'[r] = p
  BY StartStep DEF Sound
<1>2. \A s \in Runs : ~Active(s)
  <2> DEFINE A == {s \in Runs : Active(s)}
  <2>1. A = {} \/ A = {last}
    BY DEF Serial
  <2>2. Cardinality({last}) = 1
    BY FS_Singleton
  <2>3. A = {}
    <3> HIDE DEF A
    <3>1. Cardinality(A) < 1
      BY <1>1 DEF A
    <3> QED BY <2>1, <2>2, <3>1
  <2> QED BY <2>3
<1>3. Serial'
  BY <1>1, <1>2 DEF Serial, Active
<1>4. phase'[r] \in {"count", "item"} => verdict'[r] # "success"
  BY <1>1 DEF Stages, Stage, Purging, Importing
<1>5. pos'[r] = 1 /\ \A k \in Nat : ~(1 <= k /\ k < pos'[r])
  BY <1>1
<1>6. Purged(r)'
  BY <1>1, <1>5 DEF Purged, Purging
<1>7. Complete(r)'
  <2>1. ASSUME NEW i \in Items PROVE phase'[r] # "done" /\ ~(i < pos'[r])
    BY <1>1, <2>1, ImportAssumption DEF Items
  <2> QED BY <1>1, <1>4, <2>1 DEF Complete
<1> QED BY <1>1, <1>2, <1>3, <1>6, <1>7 DEF Progress

\* Where the moves of an importing and of a purging run lead.
LEMMA ImportMove ==
  ASSUME Stages, NEW r \in Runs, phase[r] \in Importing, Moves(r)
  PROVE  /\ phase'[r] \notin Purging
         /\ \/ pos'[r] = pos[r] /\ phase'[r] # "item" /\ verdict'[r] # "success"
            \/ pos'[r] = pos[r] + 1
         /\ verdict'[r] = "success" => pos'[r] \notin Items
<1>1. pos[r] \in Nat /\ pos[r] + 1 \in Nat /\ pos[r] + 1 # 0 /\ verdict[r] = "none"
  BY DEF Stages, ImportTypeOK, Stage, Importing
<1>2. phase[r] \notin Purging /\ phase[r] # "done"
  BY DEF Importing, Purging
<1>3. CASE Advance(r)
  <2>1. NextItem(r, pos[r] + 1)
    BY <1>3 DEF Advance
  <2> QED BY <1>1, <1>2, <2>1, NextItemStage DEF Purging
<1>4. CASE \E v \in {"error", "gone"} : End(r, v)
  BY <1>1, <1>4, EndStage DEF Purging
<1>5. CASE \E p \in {"insert", "lines", "ledger"} : Goto(r, p)
  <2>1. PICK p \in {"insert", "lines", "ledger"} : Goto(r, p)
    BY <1>5
  <2>2. pos'[r] = pos[r] /\ phase'[r] = p /\ verdict'[r] = verdict[r]
    BY <2>1, GotoStage
  <2> QED BY <1>1, <2>2 DEF Purging
<1> QED BY <1>2, <1>3, <1>4, <1>5 DEF Moves, Purging

LEMMA PurgeMove ==
  ASSUME Stages, NEW r \in Runs, phase[r] \in Purging, NextTable(r)
  PROVE  /\ pos[r] \in 1..6
         /\ \/ phase'[r] = "count" /\ pos'[r] = pos[r] + 1 /\ verdict'[r] = "none"
            \/ /\ pos[r] = 6 /\ pos'[r] = 1 /\ phase'[r] \in {"item", "done"}
               /\ verdict'[r] = "success" => Items = {}
<1>1. pos[r] \in 1..6 /\ Len(PurgeOrder) = 6 /\ verdict[r] = "none" /\ phase[r] # "done"
  BY PurgeTables DEF Stages, ImportTypeOK, Stage, Purging
<1>2. 1 \notin Items => Items = {}
  BY ImportAssumption DEF Items
<1>3. CASE pos[r] < 6
  BY <1>1, <1>3 DEF NextTable, Stages, ImportTypeOK
<1>4. CASE pos[r] = 6
  <2>1. NextItem(r, 1)
    BY <1>1, <1>4 DEF NextTable
  <2> QED BY <1>1, <1>2, <1>4, <2>1, NextItemStage
<1> QED BY <1>1, <1>3, <1>4

\* The purge order: what a table refers to the rows of is purged before it.
LEMMA NothingRefers ==
  ASSUME Stages, NEW n \in 1..6, \A k \in 1..6 : k < n => db[PurgeOrder[k]] = {}
  PROVE  ~Referenced(PurgeOrder[n])
<1>1. /\ PurgeOrder[1] = "ledger" /\ PurgeOrder[2] = "lines" /\ PurgeOrder[3] = "journal"
      /\ PurgeOrder[4] = "vendors" /\ PurgeOrder[5] = "customers" /\ PurgeOrder[6] = "banks"
  BY DEF PurgeOrder
<1>2. n \in {1, 2, 3, 4, 5, 6}
  OBVIOUS
<1>3. CASE n = 2
  BY <1>1, <1>3 DEF Referenced
<1>4. CASE n = 3
  BY <1>1, <1>4 DEF Referenced
<1>5. CASE n \in {1, 4, 5, 6}
  BY <1>1, <1>5 DEF Referenced
<1> QED BY <1>2, <1>3, <1>4, <1>5

LEMMA PurgedStep ==
  ASSUME Sound, NEW r \in Runs, Step(r), Purged(r)
  PROVE  Purged(r)'
<1>1. Frame(r) /\ Moves(r) /\ (Purges(r) \/ Imports(r)) /\ Stages
  BY StepSound DEF Sound
<1> SUFFICES ASSUME purge[r], ~dry[r], ~faulty[r], ~faulty'[r], NEW k \in 1..6,
                    \/ phase'[r] \in Purging /\ k < pos'[r]
                    \/ phase'[r] = "item" /\ pos'[r] = 1
             PROVE  db'[PurgeOrder[k]] = {}
  BY <1>1, PurgeTables DEF Purged, Frame, run
<1>2. ~Imports(r)
  <2> SUFFICES ASSUME Imports(r) PROVE FALSE
    OBVIOUS
  <2>1. phase[r] \in Importing
    BY DEF Imports
  <2>2. pos[r] \in Nat /\ pos[r] >= 1
    BY <1>1, <2>1, ItemPosition
  <2> QED BY <1>1, <2>1, <2>2, ImportMove
<1>3. Purges(r) /\ phase[r] \in Purging
  BY <1>1, <1>2 DEF Purges
<1> DEFINE n == pos[r]
           t == PurgeOrder[n]
<1>4. n \in 1..6 /\ PurgeOrder[k] \in Tables /\ t \in Tables
  BY <1>1, <1>3, PurgeTables DEF Stages, ImportTypeOK, Purging
<1>5. \A j \in 1..6 : j < n => db[PurgeOrder[j]] = {}
  BY <1>3, PurgeTables DEF Purged
<1>6. ~Referenced(t)
  <2> HIDE DEF n
  <2> QED BY <1>1, <1>4, <1>5, NothingRefers
<1>7. db' = db \/ db' = [db EXCEPT ![t] = {}]
  BY <1>3 DEF Purges
<1>8. db[PurgeOrder[k]] = {} => db'[PurgeOrder[k]] = {}
  <2> HIDE DEF t
  <2> QED BY <1>1, <1>4, <1>7 DEF Stages, ImportTypeOK
<1>9. CASE /\ NextTable(r)
           /\ faulty'[r] \/ dry[r] \/ db'[t] = {} \/ Referenced(t)
  <2>1. db'[t] = {}
    BY <1>6, <1>9
  <2>2. k < n \/ k = n
    BY <1>1, <1>3, <1>4, <1>9, PurgeMove DEF Purging
  <2> QED BY <1>5, <1>8, <2>1, <2>2
<1>10. CASE phase'[r] \in Purging /\ pos'[r] = n
  BY <1>5, <1>8, <1>10 DEF Purging
<1> QED BY <1>3, <1>9, <1>10 DEF Purges, Purging

LEMMA StoredGrows ==
  ASSUME Stages, NEW r \in Runs, NEW i \in Items, Stored(r, i),
         \A t \in Tables : db[t] \subseteq db'[t], unread[r] \subseteq unread'[r]
  PROVE  Stored(r, i)'
<1>1. /\ Worklist[i].kind \in Tables /\ "journal" \in Tables /\ "lines" \in Tables
      /\ "ledger" \in Tables
  BY ImportAssumption DEF Tables, Named
<1> QED BY <1>1 DEF Stored, Exists

LEMMA CompleteStep ==
  ASSUME Sound, NEW r \in Runs, Step(r), Complete(r)
  PROVE  Complete(r)'
<1>1. Frame(r) /\ Moves(r) /\ (Purges(r) \/ Imports(r)) /\ Stages /\ Stages'
  BY StepSound DEF Sound
<1> SUFFICES ASSUME ~dry[r], problems[r] = {}, problems'[r] = {}, NEW i \in Items,
                    \/ phase'[r] \in Importing /\ i < pos'[r]
                    \/ verdict'[r] = "success"
             PROVE  Stored(r, i)'
  BY <1>1 DEF Complete, Frame, run
<1>2. i \in Nat /\ i >= 1 /\ i <= Len(Worklist) /\ Len(Worklist) \in Nat
  BY ImportAssumption DEF Items
<1>3. CASE Purges(r)
  <2>1. phase[r] \in Purging /\ phase'[r] \notin Purging /\ ~(phase'[r] = "done" /\ verdict'[r] # "success")
    BY <1>1, <1>3 DEF Purges, Purging, Importing, Stages, Stage
  <2>2. NextTable(r)
    BY <1>3, <2>1 DEF Purges
  <2>3. pos'[r] = 1 /\ verdict'[r] # "success"
    BY <1>1, <2>1, <2>2, PurgeMove DEF Purging
  <2> QED BY <1>2, <2>3
<1>4. CASE Imports(r)
  <2>1. phase[r] \in Importing /\ \A t \in Tables : db[t] \subseteq db'[t]
    BY <1>4 DEF Imports
  <2>2. pos[r] \in Nat /\ pos[r] >= 1 /\ pos[r] <= Len(Worklist)
    BY <1>1, <2>1, ItemPosition
  <2>3. i < pos[r] => Stored(r, i)'
    BY <1>1, <2>1, StoredGrows DEF Complete, Frame
  <2>4. CASE pos'[r] = pos[r] /\ verdict'[r] # "success"
    BY <2>3, <2>4
  <2>5. CASE pos'[r] = pos[r] + 1
    <3>1. i < pos[r] \/ i = pos[r]
      <4>1. CASE verdict'[r] = "success"
        <5>1. pos[r] + 1 \notin 1..Len(Worklist)
          BY <1>1, <2>1, <2>5, <4>1, ImportMove DEF Items
        <5> QED BY <1>2, <2>2, <5>1
      <4>2. CASE i < pos'[r]
        BY <1>2, <2>2, <2>5, <4>2
      <4> QED BY <4>1, <4>2
    <3>2. pos'[r] # pos[r]
      BY <2>2, <2>5
    <3>3. i = pos[r] => Stored(r, i)'
      BY <1>4, <3>2 DEF Imports
    <3> QED BY <2>3, <3>1, <3>3
  <2> QED BY <1>1, <2>1, <2>4, <2>5, ImportMove
<1> QED BY <1>1, <1>3, <1>4

Steady == Sound /\ Serial /\ Progress

\* Only the run started last takes steps.
LEMMA SerialStep ==
  ASSUME Sound, Serial, NEW r \in Runs, Step(r)
  PROVE  r = last /\ last' = last /\ Serial'
<1>1. Frame(r) /\ Others(r)
  BY StepSound
<1>2. r = last /\ last' = last
  BY <1>1 DEF Frame, Serial
<1> QED BY <1>1, <1>2 DEF Serial, Active, Others

LEMMA SteadyStep ==
  ASSUME MaxConcurrent = 1
  PROVE  Steady /\ [ImportNext]_importVars => Steady'
<1> SUFFICES ASSUME Steady, [ImportNext]_importVars PROVE Steady'
  OBVIOUS
<1>1. Sound'
  BY SoundStep DEF Steady
<1>2. CASE UNCHANGED importVars
  <2>1. Serial'
    BY <1>2 DEF Steady, Serial, Active, importVars
  <2>2. Progress'
    BY <1>2 DEF Steady, Progress, Purged, Complete, Stored, Exists, importVars, run
  <2> QED BY <1>1, <2>1, <2>2 DEF Steady
<1>3. ASSUME NEW r \in Runs, Step(r) PROVE Steady'
  <2>1. r = last /\ last' = last /\ Serial'
    BY <1>3, SerialStep DEF Steady
  <2>2. Purged(r)' /\ Complete(r)'
    BY <1>3, <2>1, PurgedStep, CompleteStep DEF Steady, Progress
  <2> QED BY <1>1, <2>1, <2>2 DEF Steady, Progress
<1>4. ASSUME NEW r \in Runs, NEW d \in BOOLEAN, NEW p \in BOOLEAN, Start(r, d, p) PROVE Steady'
  BY <1>1, <1>4, SerialStart DEF Steady
<1> QED BY <1>2, <1>3, <1>4 DEF ImportNext

\* When imports do not overlap and no call of a run has failed, it starts on
\* empty tables: no purge is refused because of rows that refer to the table.
THEOREM PurgeOrderClears ==
  ASSUME MaxConcurrent = 1 PROVE ImportSpec => []PurgeClears
<1>1. Steady => PurgeClears
  BY DEF Steady, Progress, Purged, PurgeClears
<1>2. ImportInit => Steady
  BY InitSound, InitProgress DEF Steady
<1> QED BY <1>1, <1>2, SteadyStep, PTL DEF ImportSpec

\* When imports do not overlap, a success that reports nothing but the notices
\* every file gets means that every item of the file is in the database,
\* journal entries with their lines and (where the stored lines could be read
\* back) their ledger rows, for any file.
THEOREM CleanReportsHonest ==
  ASSUME MaxConcurrent = 1 PROVE ImportSpec => []CleanReportIsComplete
<1>1. ASSUME Steady PROVE CleanReportIsComplete
  <2> SUFFICES ASSUME NEW r \in Runs, verdict[r] = "success", last = r, ~dry[r],
                      Report(r) \subseteq {TaxNotice, BalanceNotice}
               PROVE  \A i \in Items : Stored(r, i)
    BY DEF CleanReportIsComplete
  <2>1. \A i \in Items : i # TaxNotice /\ i # BalanceNotice
    BY ImportAssumption DEF Items, TaxNotice, BalanceNotice
  <2>2. problems[r] \subseteq Items
    BY <1>1 DEF Steady, Sound, Stages, ImportTypeOK
  <2>3. problems[r] = {}
    BY <2>1, <2>2 DEF Report
  <2> QED BY <1>1, <2>3 DEF Steady, Progress, Complete
<1>2. ImportInit => Steady
  BY InitSound, InitProgress DEF Steady
<1> QED BY <1>1, <1>2, SteadyStep, PTL DEF ImportSpec

-----------------------------------------------------------------------------
(* No name twice. *)

\* An insert under way is of a name that is not there.
LookedUp ==
    \A r \in Runs : phase[r] = "insert" /\ Worklist[pos[r]].kind \in Named =>
        ~Exists(Worklist[pos[r]].kind, pos[r])

LEMMA InitNames == ImportInit => NoDuplicateNames /\ LookedUp
<1> SUFFICES ASSUME ImportInit PROVE NoDuplicateNames /\ LookedUp
  OBVIOUS
<1>1. ASSUME NEW t \in Named \cup {"accounts"}, NEW x \in db[t], NEW y \in db[t],
             Worklist[x[2]].name = Worklist[y[2]].name
      PROVE  x = y
  <2>1. t = "accounts"
    BY <1>1 DEF ImportInit, Tables, Named
  <2>2. db[t] = {Origin} \X {i \in Items : Worklist[i].kind = "accounts" /\ Worklist[i].name \in Preexisting}
    BY <2>1 DEF ImportInit, Tables
  <2>3. PICK i \in Items, j \in Items : /\ x = <<Origin, i>> /\ y = <<Origin, j>>
                                        /\ Worklist[i].kind = "accounts" /\ Worklist[j].kind = "accounts"
    BY <1>1, <2>2
  <2> QED BY <1>1, <2>3, ImportAssumption
<1>2. NoDuplicateNames
  BY <1>1 DEF NoDuplicateNames
<1> QED BY <1>2 DEF ImportInit, LookedUp

LEMMA NamesStep ==
  ASSUME "garbled" \notin LookupReplies, Sound, Serial, NoDuplicateNames, LookedUp,
         NEW r \in Runs, Step(r)
  PROVE  NoDuplicateNames' /\ LookedUp'
<1>1. Frame(r) /\ Moves(r) /\ Others(r) /\ (Purges(r) \/ Imports(r)) /\ Stages
  BY StepSound DEF Sound
<1>2. \A s \in Runs \ {r} : phase'[s] # "insert"
  BY <1>1 DEF Serial, Active, Others, Frame
<1>3. CASE Purges(r)
  <2>1. phase[r] \in Purging /\ PurgeOrder[pos[r]] \in Tables
    BY <1>1, <1>3, PurgeTables DEF Purges, Stages, ImportTypeOK, Purging
  <2>2. \A t \in Tables : db'[t] \subseteq db[t]
    <3> DEFINE u == PurgeOrder[pos[r]]
    <3>1. db' = db \/ db' = [db EXCEPT ![u] = {}]
      BY <1>3 DEF Purges
    <3> HIDE DEF u
    <3> QED BY <1>1, <3>1 DEF Stages, ImportTypeOK
  <2>3. NoDuplicateNames'
    <3>1. Named \cup {"accounts"} \subseteq Tables
      BY DEF Named, Tables
    <3> QED BY <2>2, <3>1 DEF NoDuplicateNames
  <2>4. phase'[r] # "insert"
    BY <1>1, <1>3, <2>1, PurgeMove DEF Purges, Purging
  <2> QED BY <1>2, <2>3, <2>4 DEF LookedUp
<1>4. CASE Imports(r)
  <2> DEFINE kind == Worklist[pos[r]].kind
  <2>1. phase[r] \in Importing /\ \A t \in Tables : db'[t] \subseteq db[t] \cup {<<r, pos[r]>>}
    BY <1>4 DEF Imports
  <2>2. ASSUME NEW t \in Named \cup {"accounts"}, db'[t] # db[t]
        PROVE  t = kind /\ phase[r] = "insert" /\ ~Exists(t, pos[r])
    <3>1. t = kind /\ phase[r] = "insert" /\ (t = "accounts" => ~Exists(t, pos[r]))
      BY <1>4, <2>2 DEF Imports
    <3> QED BY <3>1 DEF LookedUp
  <2>3. NoDuplicateNames'
    <3> SUFFICES ASSUME NEW t \in Named \cup {"accounts"}, NEW x \in db'[t], NEW y \in db'[t],
                        Worklist[x[2]].name = Worklist[y[2]].name
                 PROVE  x = y
      BY DEF NoDuplicateNames
    <3>1. CASE db'[t] = db[t]
      BY <3>1 DEF NoDuplicateNames
    <3>2. CASE db'[t] # db[t]
      <4>1. \A row \in db[t] : Worklist[row[2]].name # Worklist[pos[r]].name
        BY <2>2, <3>2 DEF Exists
      <4>2. t \in Tables
        BY DEF Named, Tables
      <4>3. \A row \in db'[t] : row \in db[t] \/ row = <<r, pos[r]>>
        BY <2>1, <4>2
      <4> QED BY <4>1, <4>3 DEF NoDuplicateNames
    <3> QED BY <3>1, <3>2
  <2>4. ASSUME phase'[r] = "insert" PROVE phase[r] = "item" /\ pos'[r] = pos[r]
    <3>1. phase[r] \notin Purging
      BY <2>1 DEF Importing, Purging
    <3>2. ~Advance(r) /\ ~(\E v \in {"error", "gone"} : End(r, v)) /\ ~Goto(r, "lines") /\ ~Goto(r, "ledger")
      BY <2>4 DEF Advance, NextItem, End, Goto, Stages, ImportTypeOK, Sound
    <3>3. phase[r] = "item" /\ Goto(r, "insert")
      BY <1>1, <3>1, <3>2 DEF Moves, Purging
    <3> QED BY <3>3, GotoStage DEF Sound
  <2>5. ASSUME phase'[r] = "insert", Worklist[pos'[r]].kind \in Named
        PROVE  ~ \E row \in db'[Worklist[pos'[r]].kind] : Worklist[row[2]].name = Worklist[pos'[r]].name
    <3>1. pos'[r] = pos[r] /\ phase[r] # "insert" /\ kind \in Named
      BY <2>4, <2>5
    <3>2. ~Exists(kind, pos[r])
      BY <1>4, <2>5, <3>1 DEF Imports
    <3>3. db'[kind] = db[kind]
      BY <2>2, <3>1
    <3> QED BY <3>1, <3>2, <3>3 DEF Exists
  <2>6. LookedUp'
    BY <1>2, <2>5 DEF LookedUp, Exists
  <2> QED BY <2>3, <2>6
<1> QED BY <1>1, <1>3, <1>4

\* Imports one after the other never create an account, a customer, a vendor
\* or a bank account twice, for any file, however often they fail and are
\* retried, as long as answers to look-ups can be read.
THEOREM NamesStayUnique ==
  ASSUME MaxConcurrent = 1, "garbled" \notin LookupReplies
  PROVE  ImportSpec => []NoDuplicateNames
<1> DEFINE NamesInv == Steady /\ NoDuplicateNames /\ LookedUp
<1>1. ImportInit => NamesInv
  BY InitSound, InitProgress, InitNames DEF Steady
<1>2. NamesInv /\ [ImportNext]_importVars => NamesInv'
  <2> SUFFICES ASSUME NamesInv, [ImportNext]_importVars PROVE NoDuplicateNames' /\ LookedUp'
    BY SteadyStep
  <2>1. CASE UNCHANGED importVars
    BY <2>1 DEF NoDuplicateNames, LookedUp, Exists, importVars
  <2>2. ASSUME NEW r \in Runs, Step(r) PROVE NoDuplicateNames' /\ LookedUp'
    BY <2>2, NamesStep DEF Steady
  <2>3. ASSUME NEW r \in Runs, NEW d \in BOOLEAN, NEW p \in BOOLEAN, Start(r, d, p)
        PROVE  NoDuplicateNames' /\ LookedUp'
    <3>1. \A s \in Runs : phase'[s] # "insert"
      BY <2>3, StartStep, SerialStart DEF Steady, Sound, Active
    <3>2. UNCHANGED db
      BY <2>3 DEF Start
    <3> QED BY <3>1, <3>2 DEF NoDuplicateNames, LookedUp
  <2> QED BY <2>1, <2>2, <2>3 DEF ImportNext
<1> QED BY <1>1, <1>2, PTL DEF ImportSpec
=============================================================================
