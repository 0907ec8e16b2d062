---------------------------- MODULE MCBackOffice ----------------------------
(***************************************************************************)
(* The handlers that keep their data in Supabase tables: GreenBooks        *)
(* invoices, the QuickBooks import, and Records.  They share no table, so  *)
(* a behaviour of all is one of each: one part moves while the others stay *)
(* as they began.                                                          *)
(***************************************************************************)
EXTENDS Records, MCInvoicePayments, QuickBooksImport

VARIABLE moving  \* the part that moves

backOfficeVars == <<vars, invoiceVars, importVars, moving>>

\* The tables the other parts leave alone.
RecordsAtRest == family = "crm" /\ pipelines = {}
InvoiceAtRest == status = "draft"

BackOfficeInit ==
    /\ moving \in {"records", "invoice", "import"}
    /\ Init /\ InvoiceInit /\ ImportInit
    /\ moving = "records" \/ RecordsAtRest
    /\ moving = "invoice" \/ InvoiceAtRest

BackOfficeNext ==
    /\ \/ /\ moving = "records" /\ Next
          /\ UNCHANGED <<invoiceVars, importVars>>
       \/ /\ moving = "invoice" /\ InvoiceNext
          /\ UNCHANGED <<vars, importVars>>
       \/ /\ moving = "import" /\ ImportNext
          /\ UNCHANGED <<vars, invoiceVars>>
    /\ UNCHANGED moving

BackOfficeSpec == BackOfficeInit /\ [][BackOfficeNext]_backOfficeVars

\* Two requests of Records, which are two of the three on the invoice.
MCRequests == {r1, r2}
PairSymmetry == Permutations(MCRequests)

-----------------------------------------------------------------------------
(* QuickBooks: an account that should exist, one to create, a customer, a  *)
(* bank on the new account and an entry on the old one: a file that can be *)
(* imported without a warning.                                             *)

MCAccountMap ==
    << [kind |-> "accounts", name |-> "1000", existing |-> TRUE],
       [kind |-> "accounts", name |-> "1011", existing |-> FALSE] >>
MCCustomers == << [kind |-> "customers", name |-> "acme"] >>
MCSuppliers == <<>>
MCBankAccounts == << [kind |-> "banks", name |-> "rbc", account |-> "1011"] >>
MCJournal ==
    << [kind |-> "journal", name |-> "e1", accounts |-> {"1000"}, sound |-> TRUE] >>

-----------------------------------------------------------------------------
(* Exponential: ann leads the project, bob contributes, root is an admin.  *)

Input(op, actor, on, arg) == [op |-> op, actor |-> actor, on |-> on, arg |-> arg, user |-> "bob"]

Simple == {"list_tasks", "get_task", "get_project_tasks", "list_sprints", "get_labels", "get_views",
           "get_assignees", "update_sprint", "create_label", "get_permissions"}

MCChanges == [
    done |-> [done |-> TRUE], reopen |-> [done |-> FALSE], archive |-> [archived |-> TRUE],
    restore |-> [archived |-> FALSE, done |-> TRUE], plan |-> [sprint |-> "s1"],
    move |-> [project |-> "p2", sprint |-> "none"], missing |-> <<>>]

MCWorkInputs ==
    {Input(op, "bob", "t1", "any") : op \in Simple} \cup
    {Input("update_task", "bob", "t1", change) : change \in DOMAIN MCChanges} \cup
    {Input("create_task", "bob", "p1", change) : change \in {"done", "plan", "missing"}} \cup
    {Input("delete_task", "bob", "t1", "any")} \cup
    {Input("delete_sprint", "ann", "s1", "any"), Input("get_sprint", "ann", "s1", "any")} \cup
    {Input(op, "ann", "p1", arg) : op \in {"create_sprint"}, arg \in {"any", "missing"}} \cup
    {Input("list_projects", "ann", "any", view) : view \in {"sidebar", "any"}} \cup
    {Input("create_project", "ann", "m1", "any"), Input("create_team", "ann", "any", "any")} \cup
    {Input("list_teams", "ann", "any", view) : view \in {"sidebar", "any"}} \cup
    {Input("get_team", "ann", "m1", "any")} \cup
    {Input(op, "bob", "p1", "any") : op \in {"get_project", "get_project_tool", "get_members"}} \cup
    {Input(op, "ann", "m1", "any") : op \in {"get_team_tool", "list_teams_tool", "list_projects_tool"}} \cup
    {Input("get_members", "root", "p1", "any")} \cup
    {Input("add_member", "ann", "p1", role) : role \in {"viewer", "lead"}} \cup
    {Input("add_team_member", "ann", "m1", "lead")} \cup
    {Input(op, "bob", "t1", "any") : op \in {"get_comments", "create_comment"}} \cup
    {Input("create_view", "bob", "any", "mine"), Input("delete_view", "bob", "v1", "any"),
     Input("delete_label", "bob", "l1", "any")}

Task(id, done, archived) ==
    [id |-> id, project |-> "p1", sprint |-> "none", done |-> done, archived |-> archived, org |-> "away"]
Sprint(id, n) == [id |-> id, project |-> "p1", number |-> n]
Board(T, S, M) ==
    [tasks |-> T, sprints |-> S, projects |-> {[id |-> "p1", team |-> "m1", archived |-> FALSE]},
     teams |-> {[id |-> "m1"]}, members |-> M]
Ann == [of |-> "p1", user |-> "ann", role |-> "lead"]
Bob == [of |-> "p1", user |-> "bob", role |-> "contributor"]
MCWorkTables == {Board({Task("t1", FALSE, FALSE)}, {Sprint("s1", 1)}, {Ann, Bob}),
               Board({Task("t1", TRUE, TRUE)}, {Sprint("s2", 2)}, {Ann})}

-----------------------------------------------------------------------------
(* GreenSpot: payloads that overlap with what is there. *)

Pipeline(id, named, S) == [id |-> id, named |-> named, stages |-> S]
Field(k, labelled) == [key |-> k, labelled |-> labelled]
Section(n, F) == [name |-> n, fields |-> F]

\* Keys and names given twice, no name, a field without label, and "id1", which
\* is the id of a definition and no key.
MCPayloads == [
    two |-> [pipelines |-> {Pipeline("A", TRUE, {"won"}), Pipeline("B", TRUE, {"new", "won"})},
             fields |-> <<Field("size", TRUE), Field("note", FALSE), Field("city", TRUE), Field("size", TRUE)>>,
             sections |-> <<Section("main", <<"note", "size">>), Section("none", <<"city", "id1">>),
                            Section("main", <<"city", "city">>), Section("more", <<>>)>>],
    one |-> [pipelines |-> {Pipeline("A", TRUE, {"lost"}), Pipeline("C", FALSE, {"new"})},
             fields |-> <<>>, sections |-> <<>>],
    none |-> [pipelines |-> {}, fields |-> <<>>, sections |-> <<>>]]

MCCrmInputs ==
    [op : {"set_pipelines"}, arg : {"two", "one", "none"}]
    \cup [op : {"set_fields"}, arg : {"two", "none", "too_large"}]
    \cup [op : {"list", "get", "dashboard", "pipelines", "customization", "create", "patch", "delete"}, arg : {"k1"}]

MCCrmTables == {
    [pipelines |-> {"A"}, stages |-> {<<"A", "new">>},
     fields |-> {[id |-> 1, key |-> "city", order |-> 1]},
     sections |-> {[id |-> 2, name |-> "main", order |-> 1]},
     layout |-> {<<2, 1, <<1, 1>>>>}, options |-> {1}],
    [pipelines |-> {}, stages |-> {}, fields |-> {}, sections |-> {}, layout |-> {}, options |-> {}]}
=============================================================================
