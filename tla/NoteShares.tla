----------------------------- MODULE NoteShares -----------------------------
(***************************************************************************)
(* Daisy notes and their shares (gateway/src/daisy.rs).  Listing, reading, *)
(* listing the shares of a note, sharing it and taking a share back, each  *)
(* as the sequence of queries it makes of the data plane, which other      *)
(* requests and the application that writes the notes change in between.   *)
(*                                                                         *)
(* Every caller has a principal with a user id, the data plane is          *)
(* configured.  A share names a user or an address.  The gateway only      *)
(* writes the permissions viewer and editor.  Whether the table forbids    *)
(* two shares of a note with one target is not known from the code: unique *)
(* is either.  A 2xx answer whose body is empty or cannot be read counts   *)
(* as no rows (supabase_request_text, parse_json_rows).                    *)
(***************************************************************************)
EXTENDS Naturals, FiniteSets

CONSTANTS
    Requests, Users, Notes, Targets, Permissions,
    EmailOf,     \* normalised address of a principal, NoEmail without one
    Forwarded,   \* normalised addresses that x-daisy-session-user-email may carry
    Lower,       \* address as stored -> address in lower case
    NoteRows,    \* [user, email, archived]: what a note's row may be
    NoEmail, NoUser, NoTarget, NoNote,
    InitialNotes,
    InitialShares, \* sets of shares that earlier requests may have left
    Payloads,      \* [target, permission, public] of the upserts that arrive
    MaxChanges   \* bound on the changes the application makes to notes

ASSUME SharesAssumption ==
    /\ MaxChanges \in Nat
    /\ InitialNotes \in [Notes -> NoteRows \cup {NoNote}]
    /\ \A S \in InitialShares :
        /\ IsFiniteSet(S)
        /\ S \subseteq [note : Notes, target : Targets, permission : Permissions, at : Nat \ {0}]
    /\ Users \cap (Forwarded \cup {EmailOf[u] : u \in Users}) = {}
    /\ NoEmail \notin Targets
    /\ Payloads \subseteq [target : Targets \cup {NoTarget}, permission : Permissions \cup {"none"},
                           public : BOOLEAN]

VARIABLES
    notes,     \* daisy_notes
    shares,    \* daisy_note_shares: [note, target, permission, at]
    clock,     \* created_at of the newest share
    unique,    \* the table refuses a second share of a note with a target
    changes,   \* changes of notes so far
    pc, req,
    note,      \* the row resolve_note_access has read
    owned,     \* list_notes: [note, row] read as the caller's own
    found,     \* shares read so far
    answer, served, \* the answer, and the <<note, role>> it contains
    conferred, \* history: <<note, role>> the caller's scope had during the request
    entitled,  \* history: the same for the principal, no header taken into account
    alone,     \* history: no other write of the same share began before it ended, or since
    raced,     \* history: <<note, target>> with two upserts at once
    unread     \* history: <<note, target>> with a PATCH of shares whose answer had no body

vars == <<notes, shares, clock, unique, changes, pc, req, note, owned, found, answer, served,
          conferred, entitled, alone, raced, unread>>
store == <<notes, shares, clock, unique, changes>>
local == <<note, owned, found>>

NoRequest == [kind |-> "none", actor |-> NoUser, email |-> NoEmail, note |-> NoNote,
              target |-> NoTarget, permission |-> "none", flag |-> FALSE]

\* order=created_at.desc&limit=1.
Newest(S) == {s \in S : \A o \in S : o.at <= s.at}
NewestOf(S) == CHOOSE s \in Newest(S) : TRUE

SharesWith(n, t) == {s \in shares : s.note = n /\ s.target = t}

Init ==
    /\ notes = InitialNotes /\ changes = 0
    /\ shares \in InitialShares
    /\ clock = IF shares = {} THEN 0 ELSE NewestOf(shares).at
    /\ raced = {p \in Notes \X Targets : Cardinality(SharesWith(p[1], p[2])) > 1}
    /\ unread = {}
    /\ unique \in {b \in BOOLEAN : b => raced = {}}
    /\ pc = [r \in Requests |-> "idle"]
    /\ req = [r \in Requests |-> NoRequest]
    /\ note = [r \in Requests |-> NoNote]
    /\ owned = [r \in Requests |-> {}]
    /\ found = [r \in Requests |-> {}]
    /\ answer = [r \in Requests |-> "none"]
    /\ served = [r \in Requests |-> {}]
    /\ conferred = [r \in Requests |-> {}]
    /\ entitled = [r \in Requests |-> {}]
    /\ alone = [r \in Requests |-> FALSE]

-----------------------------------------------------------------------------
(* Who may do what. *)

\* scope_from_headers: the address of a caller is the principal's; one whose
\* principal has none is taken at the word of two request headers.
ScopeEmails(u) == IF EmailOf[u] # NoEmail THEN {EmailOf[u]} ELSE Forwarded \cup {NoEmail}

\* scope_owns_note, for the scope of user u and address e: by id, or by
\* address in lower case.
Owns(u, e, row) ==
    \/ row.user = u
    \/ e # NoEmail /\ row.email # NoEmail /\ Lower[row.email] = e

\* The newest share decides.
RoleFrom(S) == IF S = {} THEN "none" ELSE NewestOf(S).permission

\* Mutant: a share is looked up before ownership.
SharedFirst(u, e, row, S) == IF S # {} THEN RoleFrom(S) ELSE "owner"
\* What list_notes says of a note from the rows it has read.
ListedRole(u, e, row, S) == IF Owns(u, e, row) THEN "owner" ELSE RoleFrom(S)

\* The owner may not be made a target, by id or by address.
TargetIsOwner(t, row) ==
    t = row.user \/ (row.email # NoEmail /\ Lower[row.email] = t)

-----------------------------------------------------------------------------
Active(r) == pc[r] \notin {"idle", "done"}
Goto(r, p) == pc' = [pc EXCEPT ![r] = p] /\ UNCHANGED <<answer, served>>
Serve(r, a, roles) ==
    /\ pc' = [pc EXCEPT ![r] = "done"]
    /\ answer' = [answer EXCEPT ![r] = a]
    /\ served' = [served EXCEPT ![r] = roles]
Reply(r, a) == Serve(r, a, {})

Writes(k) == k.kind \in {"upsert", "remove"}
SameShare(k, l) == Writes(k) /\ Writes(l) /\ k.note = l.note /\ k.target = l.target

\* Mutant: the permission is not checked.
AnyPermission(k) == Writes(k) /\ k.target = NoTarget
\* A share with the public, a permission other than viewer and editor, or no
\* target.
BadPayload(k) ==
    \/ k.kind = "upsert" /\ (k.flag \/ k.permission \notin Permissions)
    \/ Writes(k) /\ k.target = NoTarget

\* A request arrives; what its payload already decides is decided.
Submit(r, k) ==
    /\ pc[r] = "idle"
    /\ req' = [req EXCEPT ![r] = k]
    /\ alone' = [q \in Requests |->
        IF q = r THEN \A o \in Requests : ~(Active(o) /\ SameShare(k, req[o]))
        ELSE alone[q] /\ ~SameShare(k, req[q])]
    /\ raced' = raced \cup {<<k.note, k.target>> : o \in {q \in Requests :
                    Active(q) /\ SameShare(k, req[q]) /\ {k.kind, req[q].kind} = {"upsert"}}}
    /\ IF BadPayload(k)
       THEN Reply(r, "bad_request")
       ELSE Goto(r, IF k.kind = "list" THEN "own_by_user" ELSE "note")
    /\ UNCHANGED <<store, local, unread>>

\* Any query that fails, is refused or answers something other than rows ends
\* in a 502; without ids fetch_notes_by_ids asks nothing.
QueryFails(r) ==
    /\ pc[r] \in {"own_by_user", "own_by_email", "shared_by_user", "shared_by_email", "by_ids",
                  "note", "role_by_user", "role_by_email", "read_shares"}
    /\ pc[r] = "by_ids" => found[r] # {}
    /\ Reply(r, "bad_gateway")
    /\ UNCHANGED <<store, local, req, alone, raced, unread>>

\* parse_json_rows of a 2xx answer: a body that is empty, or that was lost on
\* the way, gives no rows.
RowsIn(body, rows) == IF body = "empty" THEN {} ELSE rows

-----------------------------------------------------------------------------
(* list_notes *)

Visible(r, row) == req[r].flag \/ ~row.archived
Existing == {n \in Notes : notes[n] # NoNote}
RowsOf(r, ids) ==
    {[note |-> n, row |-> notes[n]] : n \in {m \in ids \cap Existing : Visible(r, notes[m])}}

\* fetch_notes_for_owner: two queries; the first row of a note is kept.  The
\* address is compared as it is stored.
OwnByUser(r, body) ==
    /\ pc[r] = "own_by_user"
    /\ owned' = [owned EXCEPT ![r] =
                    RowsIn(body, RowsOf(r, {n \in Existing : notes[n].user = req[r].actor}))]
    /\ Goto(r, IF req[r].email = NoEmail THEN "shared_by_user" ELSE "own_by_email")
    /\ UNCHANGED <<store, req, note, found, alone, raced, unread>>

KeepFirst(have, more) == have \cup {x \in more : \A y \in have : y.note # x.note}

OwnByEmail(r, body) ==
    /\ pc[r] = "own_by_email"
    /\ owned' = [owned EXCEPT ![r] = KeepFirst(@,
                    RowsIn(body, RowsOf(r, {n \in Existing : notes[n].email = req[r].email})))]
    /\ Goto(r, "shared_by_user")
    /\ UNCHANGED <<store, req, note, found, alone, raced, unread>>

\* fetch_shared_permissions_for_scope: all shares with the caller.
SharedByUser(r, body) ==
    /\ pc[r] = "shared_by_user"
    /\ found' = [found EXCEPT ![r] = RowsIn(body, {s \in shares : s.target = req[r].actor})]
    /\ Goto(r, IF req[r].email = NoEmail THEN "by_ids" ELSE "shared_by_email")
    /\ UNCHANGED <<store, req, note, owned, alone, raced, unread>>

SharedByEmail(r, body) ==
    /\ pc[r] = "shared_by_email"
    /\ found' = [found EXCEPT ![r] = @ \cup RowsIn(body, {s \in shares : s.target = req[r].email})]
    /\ Goto(r, "by_ids")
    /\ UNCHANGED <<store, req, note, owned, alone, raced, unread>>

\* fetch_notes_by_ids and the answer: own rows first, then shared ones.
ByIds(r, body) ==
    /\ pc[r] = "by_ids"
    /\ LET ids == {s.note : s \in found[r]}
           rows == KeepFirst(owned[r], RowsIn(body, RowsOf(r, ids)))
           role(x) == ListedRole(req[r].actor, req[r].email, x.row,
                                 {s \in found[r] : s.note = x.note})
       IN  Serve(r, "ok", {<<x.note, role(x)>> : x \in {y \in rows : role(y) # "none"}})
    /\ UNCHANGED <<store, local, req, alone, raced, unread>>

-----------------------------------------------------------------------------
(* resolve_note_access and what follows it. *)

\* Mutant: editors may share too.
EditorsToo(role) == role \in {"owner", "editor"}
\* ensure_owner_for_acl.
CanShare(role) == role = "owner"

AfterAccess(r, role, row) ==
    LET k == req[r]
    IN  \/ role = "none" /\ Reply(r, "not_found")
        \/ role # "none" /\ k.kind = "get" /\ Serve(r, "ok", {<<k.note, role>>})
        \/ role # "none" /\ k.kind # "get" /\ ~CanShare(role) /\ Reply(r, "forbidden")
        \/ /\ role # "none" /\ CanShare(role)
           /\ \/ k.kind = "shares" /\ Goto(r, "read_shares")
              \/ k.kind = "upsert" /\ TargetIsOwner(k.target, row) /\ Reply(r, "bad_request")
              \/ k.kind = "upsert" /\ ~TargetIsOwner(k.target, row) /\ Goto(r, "patch")
              \/ k.kind = "remove" /\ Goto(r, "delete")

\* fetch_note_by_id: of no rows there is no first.
ReadNote(r, body) ==
    /\ pc[r] = "note"
    /\ LET row == IF body = "empty" THEN NoNote ELSE notes[req[r].note]
       IN  /\ note' = [note EXCEPT ![r] = row]
           /\ IF row = NoNote THEN Reply(r, "not_found")
              ELSE IF Owns(req[r].actor, req[r].email, row) THEN AfterAccess(r, "owner", row)
              ELSE Goto(r, "role_by_user")
    /\ UNCHANGED <<store, req, owned, found, alone, raced, unread>>

\* fetch_direct_share_role_for_note: the newest share with the user, then the
\* newest with the address.
RoleByUser(r, body) ==
    /\ pc[r] = "role_by_user"
    /\ LET S == RowsIn(body, Newest(SharesWith(req[r].note, req[r].actor)))
       IN  /\ found' = [found EXCEPT ![r] = S]
           /\ IF req[r].email # NoEmail THEN Goto(r, "role_by_email")
              ELSE AfterAccess(r, RoleFrom(S), note[r])
    /\ UNCHANGED <<store, req, note, owned, alone, raced, unread>>

RoleByEmail(r, body) ==
    /\ pc[r] = "role_by_email"
    /\ LET S == found[r] \cup RowsIn(body, Newest(SharesWith(req[r].note, req[r].email)))
       IN  /\ found' = [found EXCEPT ![r] = S]
           /\ AfterAccess(r, RoleFrom(S), note[r])
    /\ UNCHANGED <<store, req, note, owned, alone, raced, unread>>

\* list_note_shares answers with the rows, if any.
ReadShares(r) ==
    /\ pc[r] = "read_shares"
    /\ Reply(r, "ok")
    /\ UNCHANGED <<store, local, req, alone, raced, unread>>

-----------------------------------------------------------------------------
(* The writes.  A reply is "ok", "empty" (2xx, but no body to be read),     *)
(* "rejected" (non-2xx), or a transport error before ("unsent") or after    *)
(* ("lost", no JSON included) the write took effect.                        *)

Succeeded(reply) == reply \in {"ok", "empty"}
Effective(reply) == Succeeded(reply) \/ reply = "lost"
AnswerOf(reply) == IF reply = "rejected" THEN "write_failed" ELSE "bad_gateway"

\* Mutant: the rows the PATCH returned are not looked at.
AlwaysInsert(S) == TRUE
NeedsInsert(S) == S = {}

\* upsert_note_share_in_data_plane, first call: every share with the target.
PatchShare(r, reply) ==
    /\ pc[r] = "patch"
    /\ LET k == req[r]
           S == SharesWith(k.note, k.target)
       IN  /\ shares' = IF Effective(reply)
                        THEN (shares \ S) \cup {[s EXCEPT !.permission = k.permission] : s \in S}
                        ELSE shares
           /\ unread' = IF reply = "empty" /\ S # {}
                        THEN unread \cup {<<k.note, k.target>>} ELSE unread
           /\ IF ~Succeeded(reply) THEN Reply(r, AnswerOf(reply))
              ELSE IF NeedsInsert(RowsIn(reply, S)) THEN Goto(r, "insert") ELSE Reply(r, "ok")
    /\ UNCHANGED <<notes, clock, unique, changes, local, req, alone, raced>>

\* Second call, when the first returned none; it must return the row.
InsertShare(r, reply) ==
    /\ pc[r] = "insert"
    /\ LET k == req[r]
           clash == unique /\ SharesWith(k.note, k.target) # {}
       IN  /\ IF Effective(reply) /\ ~clash
              THEN /\ clock' = clock + 1
                   /\ shares' = shares \cup {[note |-> k.note, target |-> k.target,
                                              permission |-> k.permission, at |-> clock + 1]}
              ELSE UNCHANGED <<clock, shares>>
           /\ IF Succeeded(reply) /\ clash THEN Reply(r, "conflict")
              ELSE Reply(r, IF reply = "ok" THEN "ok" ELSE AnswerOf(reply))
    /\ UNCHANGED <<notes, unique, changes, local, req, alone, raced, unread>>

\* Mutant: only the newest share with the target goes.
NewestOnly(n, t) == Newest(SharesWith(n, t))
\* remove_note_share_in_data_plane.
Removed(n, t) == SharesWith(n, t)

DeleteShares(r, reply) ==
    /\ pc[r] = "delete"
    /\ shares' = IF Effective(reply) THEN shares \ Removed(req[r].note, req[r].target) ELSE shares
    /\ Reply(r, IF Succeeded(reply) THEN "ok" ELSE "bad_gateway")
    /\ UNCHANGED <<notes, clock, unique, changes, local, req, alone, raced, unread>>

-----------------------------------------------------------------------------
\* The client leaves; the handler is dropped at an await.
Disconnect(r) ==
    /\ Active(r)
    /\ Reply(r, "gone")
    /\ UNCHANGED <<store, local, req, alone, raced, unread>>

\* The application writes, hands over, archives or deletes a note.
ChangeNote(n, row) ==
    /\ changes < MaxChanges
    /\ notes' = [notes EXCEPT ![n] = row]
    /\ changes' = changes + 1
    /\ UNCHANGED <<shares, clock, unique, pc, req, local, answer, served, alone, raced, unread>>

\* What the data plane grants user u with address e: ownership, and each
\* share by itself.
Grants(u, e, N, S) ==
    {<<n, "owner">> : n \in {m \in DOMAIN N : N[m] # NoNote /\ Owns(u, e, N[m])}}
    \cup {<<s.note, s.permission>> : s \in {x \in S : x.target \in {u, e}}}

Record ==
    LET running(r) == pc'[r] # "idle" /\ pc[r] # "done"
        u(r) == req'[r].actor
    IN  /\ conferred' = [r \in Requests |-> IF ~running(r) THEN conferred[r]
            ELSE conferred[r] \cup Grants(u(r), req'[r].email, notes', shares')]
        /\ entitled' = [r \in Requests |-> IF ~running(r) THEN entitled[r]
            ELSE entitled[r] \cup Grants(u(r), EmailOf[u(r)], notes', shares')]

\* flag: includeArchived of a list, a share with the public of an upsert.
Arriving(kind, N, T, P, F) ==
    [kind : kind, actor : Users, email : Forwarded \cup {EmailOf[u] : u \in Users} \cup {NoEmail},
     note : N, target : T, permission : P, flag : F]

Kinds ==
    {k \in Arriving({"list"}, {NoNote}, {NoTarget}, {"none"}, BOOLEAN)
          \cup Arriving({"get", "shares"}, Notes, {NoTarget}, {"none"}, {FALSE})
          \cup Arriving({"upsert"}, Notes, Targets \cup {NoTarget}, Permissions \cup {"none"}, BOOLEAN)
          \cup Arriving({"remove"}, Notes, Targets \cup {NoTarget}, {"none"}, {FALSE}) :
        /\ k.email \in ScopeEmails(k.actor)
        /\ k.kind = "upsert" =>
            [target |-> k.target, permission |-> k.permission, public |-> k.flag] \in Payloads}

Next ==
    /\ \/ \E r \in Requests :
            \/ pc[r] = "idle" /\ \E k \in Kinds : Submit(r, k) \* tested before Kinds is enumerated
            \/ \E body \in {"rows", "empty"} :
                \/ OwnByUser(r, body) \/ OwnByEmail(r, body)
                \/ SharedByUser(r, body) \/ SharedByEmail(r, body) \/ ByIds(r, body)
                \/ ReadNote(r, body) \/ RoleByUser(r, body) \/ RoleByEmail(r, body)
            \/ ReadShares(r) \/ QueryFails(r) \/ Disconnect(r)
            \/ \E reply \in {"ok", "empty", "rejected", "unsent", "lost"} :
                PatchShare(r, reply) \/ InsertShare(r, reply) \/ DeleteShares(r, reply)
       \/ \E n \in Notes, row \in NoteRows \cup {NoNote} : ChangeNote(n, row)
    /\ Record

Spec == Init /\ [][Next]_vars

-----------------------------------------------------------------------------
TypeOK ==
    /\ notes \in [Notes -> NoteRows \cup {NoNote}]
    /\ \A s \in shares : /\ s.note \in Notes /\ s.target \in Targets
                         /\ s.permission \in Permissions /\ s.at \in 1..clock
    /\ \A r \in Requests : /\ found[r] # {} => req[r].actor \in Users
                           /\ pc[r] \in {"patch", "insert", "delete"} => req[r].target \in Targets
                           /\ \A x \in owned[r] : x.note \in Notes /\ x.row \in NoteRows
    /\ unique => \A s, o \in shares : s.note = o.note /\ s.target = o.target => s = o

\* A note is only served in a role the data plane granted the caller's scope
\* (scope_from_headers: the user id, and the address that is the principal's
\* or, without one, the request's) at some moment of the request, and a share
\* is only written for a scope that owned the note at some moment of it: what
\* was taken back before the request began is never honoured, whatever its
\* queries interleave with.  That the address may be the caller's own choice
\* is what ServedToPrincipal is about.
ServedWasGranted ==
    \A r \in Requests :
        /\ served[r] \subseteq conferred[r]
        /\ pc[r] \in {"patch", "insert", "delete", "read_shares"} => <<req[r].note, "owner">> \in conferred[r]

\* docs/HEADERS.md: "The gateway must never trust caller-supplied identity
\* headers."  A note is only served in a role that the principal's own user id
\* and address were granted during the request, whatever headers it carries.
ServedToPrincipal == \A r \in Requests : served[r] \subseteq entitled[r]

\* The role for a note of a scope (user u, address e) as get_note_by_id and as
\* list_notes find it in one and the same state of the data plane.
ResolvedRole(u, e, n) ==
    IF Owns(u, e, notes[n]) THEN "owner"
    ELSE RoleFrom(Newest(SharesWith(n, u)) \cup Newest(SharesWith(n, e)))
ListedAs(u, e, n) ==
    LET row == notes[n]
        S == {s \in shares : s.note = n /\ s.target \in {u, e}}
        fetched == row.user = u \/ row.email = e \/ S # {}
    IN  IF fetched THEN ListedRole(u, e, row, S) ELSE "none"

\* Both ways of resolving access agree, whatever shares there are (two of one
\* target included), for addresses stored in lower case: list_notes compares
\* owner_email as stored, get_note_by_id in lower case.
ResolversAgree ==
    \A u \in Users, n \in Notes : \A e \in ScopeEmails(u) :
        notes[n] # NoNote /\ (notes[n].email # NoEmail => Lower[notes[n].email] = notes[n].email) =>
            ListedAs(u, e, n) = ResolvedRole(u, e, n)

\* A write answered ok that no other write of the same share overlapped or
\* followed is in force: one permission for the target, or none.
WriteInForce ==
    \A r \in Requests : answer[r] = "ok" /\ alone[r] =>
        LET S == SharesWith(req[r].note, req[r].target)
        IN  /\ req[r].kind = "upsert" => {s.permission : s \in S} = {req[r].permission}
            /\ req[r].kind = "remove" => S = {}

\* Retries do not duplicate a share: a target has two shares of a note only
\* if the table allows it and either two upserts of it ran at once or the
\* answer to a PATCH of existing shares came back without a body, which
\* upsert_note_share_in_data_plane takes for "no share yet".
DuplicatesNeedCause ==
    \A s, o \in shares : s # o /\ s.note = o.note /\ s.target = o.target =>
        ~unique /\ <<s.note, s.target>> \in raced \cup unread
=============================================================================
