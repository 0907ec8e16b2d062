------------------------------ MODULE WorkItems ------------------------------
(***************************************************************************)
(* Exponential: tasks, sprints, projects, teams, members, comments, labels *)
(* and saved views (gateway/src/lib.rs, and the overview and members tools *)
(* of tool_router.rs, which make the same queries).  Every handler is the  *)
(* sequence of queries it makes of the data plane; nothing locks a row     *)
(* between two of them.                                                    *)
(*                                                                         *)
(* Callers have a principal and the data plane is configured.  Row ids,    *)
(* constraints and upserts are the data plane's.  Columns no property      *)
(* tells apart are left out.                                               *)
(***************************************************************************)
EXTENDS Naturals, FiniteSets, FiniteSetsExt

CONSTANTS
    Requests,
    WorkInputs,   \* [op, actor, on, arg, user]: the requests that may arrive
    Changes,      \* arg of a request to create or update a task -> columns it gives
    Admins,       \* users with the role admin
    TaskIds, SprintIds, ProjectIds, TeamIds, CommentIds, LabelIds, ViewIds, \* bounds of the tables
    OrgId,        \* EXPONENTIAL_ORG_ID
    WorkTables    \* what the tables may hold at first

VARIABLES
    tasks,     \* [id, project, sprint, done, archived, org]
    sprints,   \* [id, project, number]
    projects,  \* [id, team, archived]
    teams,     \* [id]
    members,   \* project_members and team_members: [of, user, role]
    comments,  \* [id, task, org]
    labels, views, \* [id], [id, user, name]
    pc, req, answer,
    number,    \* next_num, and task_count while completed_count is read
    todo,      \* rows still to be counted
    org,       \* org_id of the task commented
    shown,     \* what the answer says: counts, roles
    held,      \* history: <<of, role>> the actor had during the request
    unsteady,  \* history: tasks changed between the two counts, or a count failed
    guessed    \* history: projects with overlapping creations of sprints, or a failed look-up

boards == <<tasks, sprints, projects, teams, members>>
extras == <<comments, labels, views>>
local == <<number, todo, org>>
witness == <<held, unsteady, guessed>>
tables == <<boards, extras>>
workVars == <<tables, pc, req, answer, local, shown, witness>>

NoInput == [op |-> "none", actor |-> "none", on |-> "none", arg |-> "none", user |-> "none"]

Init ==
    /\ \E T \in WorkTables :
        /\ tasks = T.tasks /\ sprints = T.sprints /\ projects = T.projects
        /\ teams = T.teams /\ members = T.members
    /\ comments = {} /\ labels = {} /\ views = {}
    /\ pc = [r \in Requests |-> "idle"]
    /\ req = [r \in Requests |-> NoInput]
    /\ answer = [r \in Requests |-> "none"]
    /\ number = [r \in Requests |-> 0]
    /\ todo = [r \in Requests |-> {}]
    /\ org = [r \in Requests |-> OrgId]
    /\ shown = [r \in Requests |-> {}]
    /\ held = [r \in Requests |-> {}]
    /\ unsteady = [r \in Requests |-> FALSE]
    /\ guessed = {}

-----------------------------------------------------------------------------
(* Answers.  A query is answered "ok"; "rejected", with an error status;   *)
(* "unreadable", a 2xx that does not parse or, where a count is asked for, *)
(* has no content-range; or not at all, "lost".  A write that is "lost"    *)
(* took effect, one that is "unsent" did not.                              *)

Got == {"ok", "rejected", "unreadable", "lost"}
Replies == {"ok", "rejected", "unsent", "lost"}
Effective(reply) == reply \in {"ok", "lost"}

Active(r) == pc[r] \notin {"idle", "done"}
Goto(r, p) == pc' = [pc EXCEPT ![r] = p] /\ UNCHANGED <<answer, shown>>
Show(r, a, s) ==
    /\ pc' = [pc EXCEPT ![r] = "done"]
    /\ answer' = [answer EXCEPT ![r] = a]
    /\ shown' = [shown EXCEPT ![r] = s]
Reply(r, a) == Show(r, a, {})

\* The status of an error is passed on; no answer is a 500 or a 502.
Refusal(got) == IF got = "rejected" THEN "upstream" ELSE "error"
\* Most queries check the status; text that does not parse is an empty list.
Checked(got) == got \in {"ok", "unreadable"}
Rows(got, S) == IF got = "ok" THEN S ELSE {}

\* A handler of one call.
OneCall(r, op, reply, a) ==
    /\ pc[r] = "call" /\ req[r].op = op
    /\ Reply(r, IF reply = "ok" THEN a ELSE Refusal(reply))
    /\ UNCHANGED <<req, local>>

\* A row by its id: gone on with if it is there.
Find(r, at, got, S, next) ==
    /\ pc[r] = at
    /\ IF ~Checked(got) THEN Reply(r, Refusal(got))
       ELSE IF Rows(got, {x \in S : x.id = req[r].on}) = {} THEN Reply(r, "not_found")
       ELSE Goto(r, next)
    /\ UNCHANGED <<tables, req, local>>

\* A query whose status is not looked at, and the last one of a handler.
Skim(r, at, got, next) ==
    /\ pc[r] = at
    /\ IF got = "lost" THEN Reply(r, "error") ELSE Goto(r, next)
    /\ UNCHANGED <<tables, req, local>>
Last(r, at, got) ==
    /\ pc[r] = at
    /\ Reply(r, IF got = "lost" THEN "error" ELSE "ok")
    /\ UNCHANGED <<tables, req, local>>

Stored(reply, old, new) == IF Effective(reply) THEN new ELSE old
Rowed(S, i) == {x \in S : x.id = i}
Free(Ids, S) == Ids \ {x.id : x \in S}

-----------------------------------------------------------------------------
(* Arrival. *)

\* A required field that is not given, or no field to update: refused at once.
Missing(k) == k.arg = "missing"
\* The permission tool answers without looking.
PermissionCheck(k) == k.op = "get_permissions"

FirstStep(k) ==
    CASE k.op = "create_sprint" -> "next_number"
      [] k.op = "get_sprint" -> "sprint"
      [] k.op = "list_projects" -> "projects"
      [] k.op = "get_project" -> "project"
      [] k.op = "list_teams" -> "teams"
      [] k.op = "get_team" -> "team"
      [] k.op = "get_project_tool" -> "tool_project"
      [] k.op = "get_team_tool" -> "tool_team"
      [] k.op = "get_members" -> IF k.actor \in Admins THEN "members" ELSE "gate"
      [] k.op \in {"get_comments", "create_comment"} -> "task_org"
      [] OTHER -> "call"

Submit(r, k) ==
    /\ pc[r] = "idle"
    /\ req' = [req EXCEPT ![r] = k]
    /\ IF Missing(k) THEN Reply(r, "bad_request")
       ELSE IF PermissionCheck(k) THEN Reply(r, "ok")
       ELSE Goto(r, FirstStep(k))
    /\ UNCHANGED <<tables, local>>

-----------------------------------------------------------------------------
(* Handlers of one query. *)

OneQuery(r, op, got, a) ==
    /\ pc[r] = "call" /\ req[r].op = op
    /\ Reply(r, IF Checked(got) THEN a ELSE Refusal(got))
    /\ UNCHANGED <<tables, req, local>>

ListTasks(r, got) == OneQuery(r, "list_tasks", got, "ok")
GetTask(r, got) ==
    OneQuery(r, "get_task", got, IF Rows(got, Rowed(tasks, req[r].on)) = {} THEN "not_found" ELSE "ok")
GetProjectTasks(r, got) == OneQuery(r, "get_project_tasks", got, "ok")
ListSprints(r, got) == OneQuery(r, "list_sprints", got, "ok")
GetLabels(r, got) == OneQuery(r, "get_labels", got, "ok")
GetViews(r, got) == OneQuery(r, "get_views", got, "ok")
GetAssignees(r, got) == OneQuery(r, "get_assignees", got, "ok")

-----------------------------------------------------------------------------
(* Handlers of one write. *)

Given(change, column, otherwise) == IF column \in DOMAIN change THEN change[column] ELSE otherwise

\* The status may be done from the start.
Created(i, project, change) ==
    [id |-> i, project |-> project, sprint |-> Given(change, "sprint", "none"),
     done |-> Given(change, "done", FALSE), archived |-> FALSE, org |-> OrgId]

CreateTask(r, reply) ==
    /\ OneCall(r, "create_task", reply, "created")
    /\ \E i \in Free(TaskIds, tasks) :
        tasks' = Stored(reply, tasks, tasks \cup {Created(i, req[r].on, Changes[req[r].arg])})
    /\ UNCHANGED <<sprints, projects, teams, members, extras>>

\* The fields given, status and project_id among them; archive and unarchive.
Updated(t, change) ==
    [id |-> t.id, project |-> Given(change, "project", t.project), sprint |-> Given(change, "sprint", t.sprint),
     done |-> Given(change, "done", t.done), archived |-> Given(change, "archived", t.archived), org |-> t.org]

\* A task that is not there is answered 200 with an empty object.
UpdateTask(r, reply) ==
    LET S == Rowed(tasks, req[r].on)
    IN  /\ OneCall(r, "update_task", reply, IF S = {} THEN "empty" ELSE "ok")
        /\ tasks' = Stored(reply, tasks, (tasks \ S) \cup {Updated(t, Changes[req[r].arg]) : t \in S})
        /\ UNCHANGED <<sprints, projects, teams, members, extras>>

DeleteTask(r, reply) ==
    /\ OneCall(r, "delete_task", reply, "ok")
    /\ tasks' = Stored(reply, tasks, tasks \ Rowed(tasks, req[r].on))
    /\ UNCHANGED <<sprints, projects, teams, members, extras>>

\* Name, dates and state: nothing a property tells apart.
UpdateSprint(r, reply) ==
    /\ OneCall(r, "update_sprint", reply, IF Rowed(sprints, req[r].on) = {} THEN "empty" ELSE "ok")
    /\ UNCHANGED tables

DeleteSprint(r, reply) ==
    /\ OneCall(r, "delete_sprint", reply, "ok")
    /\ sprints' = Stored(reply, sprints, sprints \ Rowed(sprints, req[r].on))
    /\ UNCHANGED <<tasks, projects, teams, members, extras>>

CreateProject(r, reply) ==
    /\ OneCall(r, "create_project", reply, "created")
    /\ \E i \in Free(ProjectIds, projects) :
        projects' = Stored(reply, projects, projects \cup {[id |-> i, team |-> req[r].on, archived |-> FALSE]})
    /\ UNCHANGED <<tasks, sprints, teams, members, extras>>

CreateTeam(r, reply) ==
    /\ OneCall(r, "create_team", reply, "created")
    /\ \E i \in Free(TeamIds, teams) : teams' = Stored(reply, teams, teams \cup {[id |-> i]})
    /\ UNCHANGED <<tasks, sprints, projects, members, extras>>

\* Mutant: a plain insert.
Appended(new) == members \cup {new}
\* on_conflict=project_id,user_id: the role is replaced.
Merged(new) == {m \in members : m.of # new.of \/ m.user # new.user} \cup {new}

AddMember(r, op, reply) ==
    /\ OneCall(r, op, reply, "created")
    /\ members' = Stored(reply, members,
                    Merged([of |-> req[r].on, user |-> req[r].user, role |-> req[r].arg]))
    /\ UNCHANGED <<tasks, sprints, projects, teams, extras>>

AddProjectMember(r, reply) == AddMember(r, "add_member", reply)
AddTeamMember(r, reply) == AddMember(r, "add_team_member", reply)

CreateLabel(r, reply) ==
    /\ OneCall(r, "create_label", reply, "created")
    /\ \E i \in Free(LabelIds, labels) : labels' = Stored(reply, labels, labels \cup {[id |-> i]})
    /\ UNCHANGED <<boards, comments, views>>

DeleteLabel(r, reply) ==
    /\ OneCall(r, "delete_label", reply, "ok")
    /\ labels' = Stored(reply, labels, labels \ Rowed(labels, req[r].on))
    /\ UNCHANGED <<boards, comments, views>>

\* on_conflict=org_id,user_id,name.
SaveView(r, reply) ==
    /\ OneCall(r, "create_view", reply, "created")
    /\ LET mine == {v \in views : v.user = req[r].actor /\ v.name = req[r].arg}
       IN  IF mine # {} THEN UNCHANGED views
           ELSE \E i \in Free(ViewIds, views) :
                views' = Stored(reply, views, views \cup
                            {[id |-> i, user |-> req[r].actor, name |-> req[r].arg]})
    /\ UNCHANGED <<boards, comments, labels>>

DeleteView(r, reply) ==
    /\ OneCall(r, "delete_view", reply, "ok")
    /\ views' = Stored(reply, views, {v \in views : v.id # req[r].on \/ v.user # req[r].actor})
    /\ UNCHANGED <<boards, comments, labels>>

-----------------------------------------------------------------------------
(* create_sprint: the highest number, then the insert. *)

\* Mutant: the sprints are counted.
CountPlusOne(S) == Cardinality(S) + 1
NextNumber(S) == Max({s.number : s \in S} \cup {0}) + 1

\* The status of the look-up is not looked at.
LookUpNumber(r, got) ==
    /\ pc[r] = "next_number"
    /\ LET S == {s \in sprints : s.project = req[r].on}
       IN  number' = [number EXCEPT ![r] = NextNumber(Rows(got, S))]
    /\ IF got = "lost" THEN Reply(r, "error") ELSE Goto(r, "insert_sprint")
    /\ UNCHANGED <<tables, req, todo, org>>

InsertSprint(r, reply) ==
    /\ pc[r] = "insert_sprint"
    /\ \E i \in Free(SprintIds, sprints) :
        sprints' = Stored(reply, sprints,
            sprints \cup {[id |-> i, project |-> req[r].on, number |-> number[r]]})
    /\ Reply(r, IF reply = "ok" THEN "created" ELSE Refusal(reply))
    /\ UNCHANGED <<tasks, projects, teams, members, extras, req, local>>

\* get_sprint: the sprint, then its tasks, whatever their status.
ReadSprint(r, got) == Find(r, "sprint", got, sprints, "sprint_tasks")
ReadSprintTasks(r, got) == Last(r, "sprint_tasks", got)

-----------------------------------------------------------------------------
(* list_projects: the projects, then two counts for each of them. *)

Open(p) == {t \in tasks : t.project = p /\ ~t.archived}
\* Mutant: archived tasks count as completed.
DoneEver(p) == {t \in tasks : t.project = p /\ t.done}
Completed(p) == {t \in Open(p) : t.done}

\* content-range; without one, whatever the status, the count is 0.
CountOf(got, S) == IF got = "ok" THEN Cardinality(S) ELSE 0

\* Count the next project, or answer.
NextCount(r, left, s) ==
    /\ todo' = [todo EXCEPT ![r] = left]
    /\ shown' = [shown EXCEPT ![r] = s]
    /\ pc' = [pc EXCEPT ![r] = IF left = {} THEN "done" ELSE "count_all"]
    /\ answer' = [answer EXCEPT ![r] = IF left = {} THEN "ok" ELSE @]

\* Archived projects only if asked for; the sidebar has no counts.
ReadProjects(r, got) ==
    /\ pc[r] = "projects"
    /\ IF ~Checked(got) \/ req[r].arg = "sidebar"
       THEN /\ Reply(r, IF Checked(got) THEN "ok" ELSE Refusal(got)) /\ UNCHANGED todo
       ELSE NextCount(r, {p.id : p \in {q \in Rows(got, projects) : q.archived => req[r].arg = "archived"}}, {})
    /\ UNCHANGED <<tables, req, number, org>>

CountAll(r, got) ==
    /\ pc[r] = "count_all"
    /\ LET p == CHOOSE x \in todo[r] : TRUE
       IN  number' = [number EXCEPT ![r] = CountOf(got, Open(p))]
    /\ IF got = "lost" THEN Reply(r, "error") ELSE Goto(r, "count_done")
    /\ UNCHANGED <<tables, req, todo, org>>

CountDone(r, got) ==
    /\ pc[r] = "count_done"
    /\ LET p == CHOOSE x \in todo[r] : TRUE
           row == <<p, number[r], CountOf(got, Completed(p))>>
       IN  IF got = "lost" THEN Reply(r, "error") /\ UNCHANGED todo
           ELSE NextCount(r, todo[r] \ {p}, shown[r] \cup {row})
    /\ UNCHANGED <<tables, req, number, org>>

-----------------------------------------------------------------------------
(* get_project: the project, its sprints and its members. *)

ReadProject(r, got) == Find(r, "project", got, projects, "project_sprints")
ReadProjectSprints(r, got) == Skim(r, "project_sprints", got, "project_members")

MembersOf(o) == {m \in members : m.of = o}

\* Mutant: the first member's role.
AnyRole(u, S) == IF S = {} THEN "viewer" ELSE (CHOOSE m \in S : TRUE).role
\* The caller's row, or viewer.
UserRole(u, S) ==
    IF \E m \in S : m.user = u THEN (CHOOSE m \in S : m.user = u).role ELSE "viewer"

\* can_manage and can_create_tasks go with the role.
AnswerRole(r, at, got) ==
    /\ pc[r] = at
    /\ LET role == UserRole(req[r].actor, Rows(got, MembersOf(req[r].on)))
       IN  IF got = "lost" THEN Reply(r, "error") ELSE Show(r, "ok", {<<req[r].on, role>>})
    /\ UNCHANGED <<tables, req, local>>

ReadProjectMembers(r, got) == AnswerRole(r, "project_members", got)

-----------------------------------------------------------------------------
(* list_teams and get_team. *)

ReadTeams(r, got) ==
    /\ pc[r] = "teams"
    /\ IF ~Checked(got) THEN Reply(r, Refusal(got))
       ELSE IF req[r].arg = "sidebar" THEN Reply(r, "ok") ELSE Goto(r, "project_counts")
    /\ UNCHANGED <<tables, req, local>>

\* Without the projects there are no counts.
CountProjects(r, got) == Last(r, "project_counts", got)

ReadTeam(r, got) == Find(r, "team", got, teams, "team_projects")

ReadTeamProjects(r, got) ==
    /\ pc[r] = "team_projects"
    /\ LET S == {p.id : p \in Rows(got, {q \in projects : q.team = req[r].on})}
       IN  /\ todo' = [todo EXCEPT ![r] = S]
           /\ IF got = "lost" THEN Reply(r, "error")
              ELSE IF S = {} THEN Reply(r, "ok") ELSE Goto(r, "team_tasks")
    /\ UNCHANGED <<tables, req, number, org>>

\* One query of the tasks; a failed one leaves the counts out.
ReadTeamTasks(r, got) ==
    /\ pc[r] = "team_tasks"
    /\ IF got = "lost" THEN Reply(r, "error")
       ELSE IF got = "rejected" THEN Reply(r, "ok")
       ELSE Show(r, "ok", {<<p, Cardinality(Rows(got, Open(p))), Cardinality(Rows(got, Completed(p)))>> : p \in todo[r]})
    /\ UNCHANGED <<tables, req, local>>

-----------------------------------------------------------------------------
(* The overview tools make the same queries without the counts. *)

ToolProjects(r, got) == OneQuery(r, "list_projects_tool", got, "ok")
ToolTeams(r, got) == OneQuery(r, "list_teams_tool", got, "ok")

ToolProject(r, got) == Find(r, "tool_project", got, projects, "tool_sprints")
ToolSprints(r, got) == Skim(r, "tool_sprints", got, "tool_members")
ToolMembers(r, got) == AnswerRole(r, "tool_members", got)

ToolTeam(r, got) == Find(r, "tool_team", got, teams, "tool_team_projects")
ToolTeamProjects(r, got) == Last(r, "tool_team_projects", got)

-----------------------------------------------------------------------------
(* The members tool: a member or an admin may see the members. *)

Gate(r, got) ==
    /\ pc[r] = "gate"
    /\ LET mine == {m \in MembersOf(req[r].on) : m.user = req[r].actor}
       IN  IF got = "rejected" THEN Reply(r, "upstream")
           ELSE IF got # "ok" THEN Reply(r, "error")
           ELSE IF mine = {} THEN Reply(r, "forbidden") ELSE Goto(r, "members")
    /\ UNCHANGED <<tables, req, local>>

ListMembers(r, got) ==
    /\ pc[r] = "members"
    /\ Reply(r, IF Checked(got) THEN "ok" ELSE Refusal(got))
    /\ UNCHANGED <<tables, req, local>>

-----------------------------------------------------------------------------
(* Comments: org_id of the task, then the comments. *)

ReadTaskOrg(r, got) ==
    /\ pc[r] = "task_org"
    /\ LET S == Rows(got, Rowed(tasks, req[r].on))
       IN  org' = [org EXCEPT ![r] = IF S = {} THEN OrgId ELSE (CHOOSE t \in S : TRUE).org]
    /\ IF ~Checked(got) THEN Reply(r, Refusal(got)) ELSE Goto(r, "comments")
    /\ UNCHANGED <<tables, req, number, todo>>

ReadComments(r, got) ==
    /\ pc[r] = "comments" /\ req[r].op = "get_comments"
    /\ Reply(r, IF Checked(got) THEN "ok" ELSE Refusal(got))
    /\ UNCHANGED <<tables, req, local>>

InsertComment(r, reply) ==
    /\ pc[r] = "comments" /\ req[r].op = "create_comment"
    /\ \E i \in Free(CommentIds, comments) :
        comments' = Stored(reply, comments, comments \cup {[id |-> i, task |-> req[r].on, org |-> org[r]]})
    /\ Reply(r, IF reply = "ok" THEN "created" ELSE Refusal(reply))
    /\ UNCHANGED <<boards, labels, views, req, local>>

-----------------------------------------------------------------------------
\* The client leaves; the handler is dropped at an await.
Disconnect(r) == Active(r) /\ Reply(r, "gone") /\ UNCHANGED <<tables, req, local>>

\* What is remembered about a step.
Creating(r, p) == Active(r) /\ req[r].op = "create_sprint" /\ req[r].on = p
Record ==
    /\ held' = [r \in Requests |->
        IF pc'[r] = "idle" \/ pc[r] = "done" THEN held[r]
        ELSE held[r] \cup {<<m.of, m.role>> : m \in {n \in members' : n.user = req'[r].actor}}]
    /\ unsteady' = [r \in Requests |->
        \/ unsteady[r]
        \/ pc[r] = "count_done" /\ tasks' # tasks
        \/ /\ pc[r] = "count_all" /\ pc'[r] = "count_done"
           /\ number'[r] < Cardinality(Open(CHOOSE x \in todo[r] : TRUE))]
    /\ guessed' = guessed
        \cup {p \in ProjectIds : \E r, q \in Requests : r # q /\ Creating(r, p) /\ Creating(q, p)}
        \cup {p \in ProjectIds : \E r \in Requests :
                 /\ Creating(r, p) /\ pc[r] = "next_number" /\ pc'[r] = "insert_sprint"
                 /\ number'[r] # NextNumber({s \in sprints : s.project = p})}

Step(r) ==
    \/ \E k \in WorkInputs : Submit(r, k)
    \/ Disconnect(r)
    \/ \E reply \in Replies :
        \/ CreateTask(r, reply) \/ UpdateTask(r, reply) \/ DeleteTask(r, reply)
        \/ UpdateSprint(r, reply) \/ DeleteSprint(r, reply) \/ InsertSprint(r, reply)
        \/ CreateProject(r, reply) \/ CreateTeam(r, reply) \/ AddProjectMember(r, reply) \/ AddTeamMember(r, reply)
        \/ CreateLabel(r, reply) \/ DeleteLabel(r, reply)
        \/ SaveView(r, reply) \/ DeleteView(r, reply) \/ InsertComment(r, reply)
    \/ \E got \in Got :
        \/ ListTasks(r, got) \/ GetTask(r, got) \/ GetProjectTasks(r, got) \/ ListSprints(r, got)
        \/ GetLabels(r, got) \/ GetViews(r, got) \/ GetAssignees(r, got)
        \/ LookUpNumber(r, got) \/ ReadSprint(r, got) \/ ReadSprintTasks(r, got)
        \/ ReadProjects(r, got) \/ CountAll(r, got) \/ CountDone(r, got)
        \/ ReadProject(r, got) \/ ReadProjectSprints(r, got) \/ ReadProjectMembers(r, got)
        \/ ReadTeams(r, got) \/ CountProjects(r, got)
        \/ ReadTeam(r, got) \/ ReadTeamProjects(r, got) \/ ReadTeamTasks(r, got)
        \/ ToolProjects(r, got) \/ ToolTeams(r, got) \/ ToolProject(r, got) \/ ToolSprints(r, got) \/ ToolMembers(r, got)
        \/ ToolTeam(r, got) \/ ToolTeamProjects(r, got)
        \/ Gate(r, got) \/ ListMembers(r, got) \/ ReadTaskOrg(r, got) \/ ReadComments(r, got)

Next == (\E r \in Requests : Step(r)) /\ Record

-----------------------------------------------------------------------------
TypeOK ==
    /\ \A t \in tasks : t.id \in TaskIds /\ t.done \in BOOLEAN /\ t.archived \in BOOLEAN
    /\ \A s \in sprints : s.id \in SprintIds /\ s.number \in Nat \ {0}
    /\ \A p \in projects : p.id \in ProjectIds
    /\ \A c \in comments : c.id \in CommentIds
    /\ \A v, w \in views : v.user = w.user /\ v.name = w.name => v = w
    /\ \A m, n \in members : m.of = n.of /\ m.user = n.user => m = n

\* Sprints of a project are numbered apart: two have one number only if two
\* creations ran at once or the look-up of the highest number came to nothing
\* (create_exponential_sprint neither locks nor checks its status).
SprintNumbersApart ==
    \A s, t \in sprints : s # t /\ s.project = t.project /\ s.number = t.number => s.project \in guessed

\* A role get_project (handler or tool) answers with, and the permissions that go with it, the
\* caller had at some moment of the request, however the members changed
\* around its three queries; where nothing was read it is a viewer's.  The
\* members tool shows members only to who was one then, or to an admin.
RoleWasHeld ==
    \A r \in Requests : answer[r] = "ok" =>
        /\ req[r].op \in {"get_project", "get_project_tool"} => shown[r] \subseteq held[r] \cup {<<req[r].on, "viewer">>}
        /\ req[r].op = "get_members" /\ req[r].actor \notin Admins =>
                \E h \in held[r] : h[1] = req[r].on

\* A project never has more completed tasks than tasks, in the list of
\* projects unless tasks changed between its two counts or a count failed,
\* on the page of a team (one query) always.
CountsAddUp ==
    \A r \in Requests : answer[r] = "ok" /\ req[r].op \in {"list_projects", "get_team"} =>
        \A row \in shown[r] : row[3] > row[2] => req[r].op = "list_projects" /\ unsteady[r]
=============================================================================
