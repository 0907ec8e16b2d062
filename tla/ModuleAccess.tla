---------------------------- MODULE ModuleAccess ----------------------------
(***************************************************************************)
(* Module access (gateway/src/lib.rs): the rows of user_module_access that *)
(* module_access_middleware reads on every request, and the two admin      *)
(* handlers that replace them, with a DELETE followed by one bulk INSERT.  *)
(*                                                                         *)
(* No rows means unrestricted.  Each edit is one admin request; the        *)
(* Supabase environment is configured and the caller is an admin (anything *)
(* else changes nothing).  Calls end "ok", "rejected" (non-2xx), or in a   *)
(* transport error before ("unsent") or after ("lost") taking effect.      *)
(***************************************************************************)
EXTENDS FiniteSets

CONSTANTS
    Edits,      \* admin requests
    Users,      \* user ids, also those to be created
    Emails,     \* addresses invitations are sent to
    MODULE_KEYS,
    Requested,  \* sets of modules admins ask for
    Roles, NoRole,
    InitialEmail, \* email of the users that exist, NoEmail otherwise
    NoEmail, NoUser,
    Replies

ValidRoles == {"owner", "admin", "member", "user"}

ASSUME AccessAssumption ==
    /\ InitialEmail \in [Users -> Emails \cup {NoEmail}]
    /\ NoEmail \notin Emails /\ NoUser \notin Users /\ NoRole \notin Roles

VARIABLES
    email,    \* users table: the address of each row, NoEmail if absent
    role,     \* users table: role
    grants,   \* user_module_access: module keys of each user
    place,    \* where an edit stands
    edit,     \* [kind, user, email, modules, role] of an edit
    answer,   \* its answer
    alone,    \* history: no other edit began before it ended, or since
    given,    \* history: nonempty sets that were to be stored for a user
    denied    \* history: modules a user was refused

accessVars == <<email, role, grants, place, edit, answer, alone, given, denied>>
store == <<email, role, grants>>

NoEdit == [kind |-> "none", user |-> NoUser, email |-> NoEmail, modules |-> {}, role |-> NoRole]

AccessInit ==
    /\ email = InitialEmail
    /\ role = [u \in Users |-> "user"]
    /\ grants = [u \in Users |-> {}]
    /\ place = [e \in Edits |-> "idle"]
    /\ edit = [e \in Edits |-> NoEdit]
    /\ answer = [e \in Edits |-> "none"]
    /\ alone = [e \in Edits |-> FALSE]
    /\ given = [u \in Users |-> {}]
    /\ denied = [u \in Users |-> {}]

Effective(reply) == reply \in {"ok", "lost"}
Goto(e, p) == place' = [place EXCEPT ![e] = p] /\ UNCHANGED answer
AnswerEdit(e, a) ==
    /\ place' = [place EXCEPT ![e] = "done"]
    /\ answer' = [answer EXCEPT ![e] = a]

Active(e) == place[e] \notin {"idle", "done"}
\* An edit begins: it is alone only if nothing else is under way.
Begin(e) ==
    alone' = [f \in Edits |-> f = e /\ \A g \in Edits \ {e} : ~Active(g)]

\* Only known modules and roles.
Valid(M, r) == M \subseteq MODULE_KEYS /\ r \in ValidRoles

-----------------------------------------------------------------------------
\* PUT /api/admin/module-access/{user_id}; the role is optional.
SubmitSet(e, u, M, r) ==
    /\ place[e] = "idle"
    /\ edit' = [edit EXCEPT ![e] = [kind |-> "set", user |-> u, email |-> NoEmail,
                                    modules |-> M, role |-> r]]
    /\ IF Valid(M, IF r = NoRole THEN "user" ELSE r) THEN Goto(e, "delete")
       ELSE AnswerEdit(e, "bad_request")
    /\ Begin(e)
    /\ UNCHANGED <<store, given, denied>>

\* POST /api/admin/module-access/invite; the role defaults to "user".
SubmitInvite(e, m, M, r) ==
    /\ place[e] = "idle"
    /\ edit' = [edit EXCEPT ![e] = [kind |-> "invite", user |-> NoUser, email |-> m,
                                    modules |-> M, role |-> IF r = NoRole THEN "user" ELSE r]]
    /\ IF Valid(M, IF r = NoRole THEN "user" ELSE r) THEN Goto(e, "lookup")
       ELSE AnswerEdit(e, "bad_request")
    /\ Begin(e)
    /\ UNCHANGED <<store, given, denied>>

\* Find the user by email; a failure is passed on.
LookupUser(e, reply) ==
    /\ place[e] = "lookup"
    /\ LET found == {u \in Users : email[u] = edit[e].email}
       IN  \/ /\ reply = "ok" /\ found # {}
              /\ \E u \in found : edit' = [edit EXCEPT ![e].user = u]
              /\ Goto(e, "role")
           \/ /\ reply = "ok" /\ found = {}
              /\ Goto(e, "create") /\ UNCHANGED edit
           \/ reply # "ok" /\ AnswerEdit(e, "error") /\ UNCHANGED edit
    /\ UNCHANGED <<store, alone, given, denied>>

\* Insert a user under a new uuid, with the role.
CreateUser(e, u, reply) ==
    /\ place[e] = "create"
    /\ email[u] = NoEmail
    /\ \A f \in Edits : edit[f].user # u
    /\ edit' = [edit EXCEPT ![e].user = u]
    /\ IF Effective(reply)
       THEN /\ email' = [email EXCEPT ![u] = edit[e].email]
            /\ role' = [role EXCEPT ![u] = edit[e].role]
       ELSE UNCHANGED <<email, role>>
    /\ IF reply = "ok" THEN Goto(e, "delete") ELSE AnswerEdit(e, "error")
    /\ UNCHANGED <<grants, alone, given, denied>>

\* set_user_role: before the grants for an invitation, after them for a set.
\* A PATCH that matches no row of users succeeds and changes nothing.
SetRole(e, reply) ==
    /\ place[e] = "role"
    /\ role' = IF Effective(reply) /\ email[edit[e].user] # NoEmail
               THEN [role EXCEPT ![edit[e].user] = edit[e].role] ELSE role
    /\ IF reply # "ok" THEN AnswerEdit(e, "error")
       ELSE IF edit[e].kind = "invite" THEN Goto(e, "delete") ELSE AnswerEdit(e, "ok")
    /\ UNCHANGED <<email, grants, edit, alone, given, denied>>

\* What follows the last call of replace_module_access_for_user.
AfterReplace(e) ==
    IF edit[e].kind = "set" /\ edit[e].role # NoRole THEN Goto(e, "role") ELSE AnswerEdit(e, "ok")

\* replace_module_access_for_user, first call: all rows of the user go.
\* Mutant: rows that are asked for again are left in place, others too.
DeleteNothing(u) == grants
Cleared(u) == [grants EXCEPT ![u] = {}]

DeleteGrants(e, reply) ==
    /\ place[e] = "delete"
    /\ grants' = IF Effective(reply) THEN Cleared(edit[e].user) ELSE grants
    /\ IF reply # "ok" THEN AnswerEdit(e, "error")
       ELSE IF edit[e].modules = {} THEN AfterReplace(e) ELSE Goto(e, "insert")
    /\ UNCHANGED <<email, role, edit, alone, given, denied>>

\* Second call: the new rows, in one statement.
InsertGrants(e, reply) ==
    /\ place[e] = "insert"
    /\ LET u == edit[e].user
           M == edit[e].modules
       IN  IF Effective(reply)
           THEN /\ grants' = [grants EXCEPT ![u] = @ \cup M]
                /\ given' = [given EXCEPT ![u] = @ \cup {M}]
           ELSE UNCHANGED <<grants, given>>
    /\ IF reply = "ok" THEN AfterReplace(e) ELSE AnswerEdit(e, "error")
    /\ UNCHANGED <<email, role, edit, alone, denied>>

\* The admin leaves; the handler is dropped at an await.
AbandonEdit(e) ==
    /\ Active(e)
    /\ AnswerEdit(e, "gone")
    /\ UNCHANGED <<store, edit, alone, given, denied>>

-----------------------------------------------------------------------------
\* load_module_access_for_principal: no rows, no restriction.
\* Mutant: a user without rows has access to nothing.
NoRowsNoAccess(u, m) == m \in grants[u]
Allowed(u, m) == grants[u] = {} \/ m \in grants[u]

\* module_access_middleware for a request of u to module m; the table not
\* being there lets everything through and a failed call is a 500.
Access(u, m) ==
    /\ denied' = IF Allowed(u, m) THEN denied ELSE [denied EXCEPT ![u] = @ \cup {m}]
    /\ UNCHANGED <<store, place, edit, answer, alone, given>>

AccessNext ==
    \/ \E e \in Edits, M \in Requested, r \in Roles \cup {NoRole} :
        \/ \E u \in Users : SubmitSet(e, u, M, r)
        \/ \E m \in Emails : SubmitInvite(e, m, M, r)
    \/ \E e \in Edits, reply \in Replies :
        \/ LookupUser(e, reply) \/ SetRole(e, reply)
        \/ DeleteGrants(e, reply) \/ InsertGrants(e, reply)
        \/ \E u \in Users : CreateUser(e, u, reply)
    \/ \E e \in Edits : AbandonEdit(e)
    \/ \E u \in Users, m \in MODULE_KEYS : Access(u, m)

AccessSpec == AccessInit /\ [][AccessNext]_accessVars

-----------------------------------------------------------------------------
\* Also: only known modules are stored, and an edit that has come to the
\* calls on a user's rows has its user.
AccessTypes ==
    /\ email \in [Users -> Emails \cup {NoEmail}]
    /\ grants \in [Users -> SUBSET MODULE_KEYS]
    /\ place \in [Edits -> {"idle", "lookup", "create", "role", "delete", "insert", "done"}]
    /\ \A e \in Edits : /\ edit[e].modules \subseteq UNION Requested
                        /\ place[e] \in {"role", "delete", "insert"} => edit[e].user \in Users
    /\ given \in [Users -> SUBSET Requested]
    /\ denied \in [Users -> SUBSET MODULE_KEYS]

\* An edit never locks a user out of what it leaves them: a module is refused
\* only if some set stored for the user was without it, whatever edits overlap
\* or fail halfway.
DeniedOnlyIfWithheld ==
    \A u \in Users : \A m \in denied[u] : \E M \in given[u] : m \notin M

\* An edit answered "ok" that no other edit overlapped is in force: modules,
\* and role where there is a row to hold one, as there always is for the user
\* of an invitation.
LoneEditInForce ==
    \A e \in Edits : answer[e] = "ok" /\ alone[e] =>
        /\ grants[edit[e].user] = edit[e].modules
        /\ edit[e].role # NoRole /\ email[edit[e].user] # NoEmail =>
                role[edit[e].user] = edit[e].role
        /\ edit[e].kind = "invite" => email[edit[e].user] = edit[e].email
=============================================================================
