---------------------------- MODULE RecordsProofs ----------------------------
(***************************************************************************)
(* Records: the invariants of both components are inductive.               *)
(***************************************************************************)
EXTENDS Records, FiniteSetTheorems, WellFoundedInduction, TLAPS

-----------------------------------------------------------------------------

\* The tables: rows have their columns, and there are finitely many of them.
TaskRow(t) == t = [id |-> t.id, project |-> t.project, sprint |-> t.sprint,
                   done |-> t.done, archived |-> t.archived, org |-> t.org]
WorkRows ==
    /\ Work!TypeOK
    /\ \A t \in tasks : TaskRow(t)
    /\ IsFiniteSet(tasks) /\ IsFiniteSet(sprints)

WorkDomains ==
    /\ DOMAIN pc = Requests /\ DOMAIN req = Requests /\ DOMAIN answer = Requests
    /\ DOMAIN number = Requests /\ DOMAIN todo = Requests /\ DOMAIN shown = Requests

\* Which handler a request at a query is in.
ProjectPhases == {"project", "project_sprints", "project_members"}
ToolPhases == {"tool_project", "tool_sprints", "tool_members"}
ListPhases == {"projects", "count_all", "count_done"}
TeamPhases == {"team", "team_projects", "team_tasks"}
SprintPhases == {"next_number", "insert_sprint"}
WorkStage(r) ==
    LET op == req[r].op
    IN  /\ pc[r] # "done" => answer[r] = "none"
        /\ pc[r] # "idle" => req[r] \in WorkInputs
        /\ Work!Active(r) /\ op = "get_members" => pc[r] \in {"gate", "members"}
        /\ pc[r] \in ProjectPhases => op = "get_project"
        /\ pc[r] \in ToolPhases => op = "get_project_tool"
        /\ pc[r] \in ListPhases => op = "list_projects"
        /\ pc[r] \in TeamPhases => op = "get_team"
        /\ pc[r] \in SprintPhases => op = "create_sprint"
        /\ number[r] \in Nat
        /\ pc[r] = "insert_sprint" => number[r] # 0

\* What a request has seen of the members, its caller held.
Credited(r) ==
    /\ pc[r] = "members" /\ req[r].actor \notin Admins => \E h \in held[r] : h[1] = req[r].on
    /\ answer[r] = "ok" =>
        /\ req[r].op \in {"get_project", "get_project_tool"} => shown[r] \subseteq held[r] \cup {<<req[r].on, "viewer">>}
        /\ req[r].op = "get_members" /\ req[r].actor \notin Admins =>
                \E h \in held[r] : h[1] = req[r].on

\* The project being counted, and what its first count says of the second.
Counting(r) == CHOOSE x \in todo[r] : TRUE
Counted(r) ==
    /\ pc[r] = "count_done" /\ ~unsteady[r] => Cardinality(Work!Open(Counting(r))) <= number[r]
    /\ pc[r] \in {"count_all", "count_done"} => \A row \in shown[r] : row[3] > row[2] => unsteady[r]
    /\ answer[r] = "ok" /\ req[r].op \in {"list_projects", "get_team"} =>
        \A row \in shown[r] : row[3] > row[2] => req[r].op = "list_projects" /\ unsteady[r]

\* The number a creation has read is still free.
Numbered(r) ==
    pc[r] = "insert_sprint" /\ req[r].on \notin guessed =>
        \A s \in sprints : s.project = req[r].on => s.number < number[r]

WorkInv ==
    /\ WorkRows /\ WorkDomains /\ Work!SprintNumbersApart
    /\ \A r \in Requests : WorkStage(r) /\ Credited(r) /\ Counted(r) /\ Numbered(r)

-----------------------------------------------------------------------------
(* Steps.  Whatever a step is, it is one of these to the requests.         *)

\* Nothing of the other requests changes.
WorkAlone(r) ==
    /\ WorkDomains'
    /\ \A q \in Requests \ {r} :
        /\ pc'[q] = pc[q] /\ req'[q] = req[q] /\ answer'[q] = answer[q]
        /\ number'[q] = number[q] /\ todo'[q] = todo[q] /\ shown'[q] = shown[q]

\* The request is answered, and nothing is shown.
Closes(r) ==
    /\ Work!Active(r) /\ pc'[r] = "done" /\ req'[r] = req[r] /\ shown'[r] = {} /\ number'[r] \in Nat
    /\ answer'[r] = "ok" /\ req[r].op = "get_members" => pc[r] = "members"

\* From one query to the next.
WorkMoves ==
    {<<"project", "project_sprints">>, <<"project_sprints", "project_members">>,
     <<"tool_project", "tool_sprints">>, <<"tool_sprints", "tool_members">>,
     <<"team", "team_projects">>, <<"team_projects", "team_tasks">>,
     <<"tool_team", "tool_team_projects">>, <<"teams", "project_counts">>,
     <<"sprint", "sprint_tasks">>, <<"task_org", "comments">>}
Proceeds(r) ==
    /\ <<pc[r], pc'[r]>> \in WorkMoves
    /\ req'[r] = req[r] /\ answer'[r] = answer[r] /\ shown'[r] = shown[r] /\ number'[r] = number[r]

-----------------------------------------------------------------------------
(* What any step keeps. *)

\* FiniteSets of the instance is FiniteSets.
LEMMA WorkCardinality == \A S : Work!Cardinality(S) = Cardinality(S)
BY DEF Work!Cardinality, Cardinality


\* What is remembered only grows.
LEMMA WorkRecord ==
  ASSUME Work!Record, NEW q \in Requests
  PROVE  /\ held[q] \subseteq held'[q]
         /\ unsteady[q] => unsteady'[q]
         /\ pc[q] = "count_done" /\ tasks' # tasks => unsteady'[q]
         /\ pc[q] = "count_all" /\ pc'[q] = "count_done"
                /\ number'[q] < Cardinality(Work!Open(Counting(q))) => unsteady'[q]
         /\ guessed \subseteq guessed'
         /\ Work!Active(q) /\ pc'[q] # "idle" =>
                \A m \in members' : m.user = req'[q].actor => <<m.of, m.role>> \in held'[q]
<1>1. /\ held[q] \subseteq held'[q]
      /\ Work!Active(q) /\ pc'[q] # "idle" =>
                \A m \in members' : m.user = req'[q].actor => <<m.of, m.role>> \in held'[q]
  BY DEF Work!Record, Work!Active
<1>2. /\ unsteady[q] => unsteady'[q]
      /\ pc[q] = "count_done" /\ tasks' # tasks => unsteady'[q]
      /\ pc[q] = "count_all" /\ pc'[q] = "count_done"
                /\ number'[q] < Cardinality(Work!Open(Counting(q))) => unsteady'[q]
  BY WorkCardinality DEF Work!Record, Counting
<1>3. guessed \subseteq guessed'
  BY DEF Work!Record
<1> QED BY <1>1, <1>2, <1>3

\* Two creations of sprints of a project at once.
LEMMA WorkOverlap ==
  ASSUME Work!Record, NEW r \in Requests, NEW q \in Requests, r # q, NEW p \in ProjectIds,
         Work!Creating(r, p), Work!Creating(q, p)
  PROVE  p \in guessed'
BY DEF Work!Record

LEMMA WorkQuiet ==
  ASSUME WorkRows, UNCHANGED Work!tables
  PROVE  WorkRows' /\ sprints' = sprints /\ tasks' = tasks /\ members' = members
<1>1. /\ sprints' = sprints /\ tasks' = tasks /\ members' = members /\ projects' = projects
      /\ comments' = comments /\ views' = views
  BY DEF Work!tables, Work!boards, Work!extras
<1> QED BY <1>1 DEF WorkRows, Work!TypeOK, TaskRow

LEMMA WorkReplied ==
  ASSUME WorkDomains, NEW r \in Requests, NEW a, Work!Reply(r, a), UNCHANGED <<req, number, todo>>
  PROVE  /\ WorkAlone(r) /\ pc'[r] = "done" /\ answer'[r] = a /\ shown'[r] = {}
         /\ req'[r] = req[r] /\ number'[r] = number[r]
BY DEF WorkDomains, Work!Reply, Work!Show, WorkAlone

LEMMA WorkWent ==
  ASSUME WorkDomains, NEW r \in Requests, NEW p, Work!Goto(r, p), UNCHANGED <<req, number, todo>>
  PROVE  /\ WorkAlone(r) /\ pc'[r] = p /\ answer'[r] = answer[r] /\ shown'[r] = shown[r]
         /\ req'[r] = req[r] /\ number'[r] = number[r]
BY DEF WorkDomains, Work!Goto, WorkAlone

LEMMA WorkClosed ==
  ASSUME WorkInv, NEW r \in Requests, NEW a, Work!Active(r), Work!Reply(r, a),
         UNCHANGED <<req, number, todo>>, pc[r] # "gate" \/ a # "ok"
  PROVE  WorkAlone(r) /\ Closes(r)
<1>1. WorkStage(r) /\ WorkDomains
  BY DEF WorkInv
<1>2. /\ WorkAlone(r) /\ pc'[r] = "done" /\ answer'[r] = a /\ shown'[r] = {}
      /\ req'[r] = req[r] /\ number'[r] = number[r]
  BY <1>1, WorkReplied
<1> QED BY <1>1, <1>2 DEF WorkStage, Closes

-----------------------------------------------------------------------------
(* The other requests, and the rows, of a step of one. *)

\* What the sprints may become.
Inserts(r) ==
    /\ pc[r] = "insert_sprint"
    /\ \E i \in SprintIds : sprints' = sprints \cup {[id |-> i, project |-> req[r].on, number |-> number[r]]}

LEMMA WorkOthers ==
  ASSUME WorkInv, Work!Record, NEW r \in Requests, WorkAlone(r), sprints' \subseteq sprints \/ Inserts(r),
         NEW q \in Requests, q # r
  PROVE  WorkStage(q)' /\ Credited(q)' /\ Counted(q)' /\ Numbered(q)'
<1>1. /\ pc'[q] = pc[q] /\ req'[q] = req[q] /\ answer'[q] = answer[q]
      /\ number'[q] = number[q] /\ todo'[q] = todo[q] /\ shown'[q] = shown[q]
  BY DEF WorkAlone
<1>2. WorkStage(q) /\ Credited(q) /\ Counted(q) /\ Numbered(q)
  BY DEF WorkInv
<1>3. WorkStage(q)'
  BY <1>1, <1>2 DEF WorkStage, Work!Active
<1>4. Credited(q)'
  BY <1>1, <1>2, WorkRecord DEF Credited
<1>5. Counted(q)'
  <2>1. CASE tasks' = tasks
    BY <1>1, <1>2, <2>1, WorkRecord DEF Counted, Counting, Work!Open
  <2>2. CASE tasks' # tasks
    BY <1>1, <1>2, <2>2, WorkRecord DEF Counted
  <2> QED BY <2>1, <2>2
<1>6. Numbered(q)'
  <2> SUFFICES ASSUME pc[q] = "insert_sprint", req[q].on \notin guessed',
                      NEW s \in sprints', s.project = req[q].on
               PROVE  s.number < number[q]
    BY <1>1 DEF Numbered
  <2>1. req[q].on \notin guessed
    BY WorkRecord
  <2>2. CASE s \in sprints
    BY <1>2, <2>1, <2>2 DEF Numbered
  <2>3. CASE s \notin sprints
    <3>1. pc[r] = "insert_sprint" /\ s.project = req[r].on
      BY <2>3 DEF Inserts
    <3>2. /\ WorkStage(r) /\ req[r].op = "create_sprint" /\ req[q].op = "create_sprint"
          /\ req[r] \in WorkInputs
      BY <1>2, <3>1 DEF WorkInv, WorkStage, SprintPhases
    <3>3. req[r].on \in ProjectIds
      BY <3>2, WorkAssumption
    <3>4. Work!Creating(r, req[r].on) /\ Work!Creating(q, req[r].on)
      BY <3>1, <3>2 DEF Work!Creating, Work!Active
    <3> QED BY <3>1, <3>3, <3>4, WorkOverlap
  <2> QED BY <2>2, <2>3
<1> QED BY <1>3, <1>4, <1>5, <1>6

LEMMA WorkApart ==
  ASSUME WorkInv, Work!Record, NEW r \in Requests, sprints' \subseteq sprints \/ Inserts(r)
  PROVE  Work!SprintNumbersApart'
<1> SUFFICES ASSUME NEW s \in sprints', NEW t \in sprints', s # t, s.project = t.project,
                    s.number = t.number, s.project \notin guessed'
             PROVE  FALSE
  BY DEF Work!SprintNumbersApart
<1>1. s.project \notin guessed
  BY WorkRecord
<1>2. ~(s \in sprints /\ t \in sprints)
  BY <1>1 DEF WorkInv, Work!SprintNumbersApart
<1>3. Inserts(r) /\ Numbered(r) /\ number[r] \in Nat
  BY <1>2 DEF WorkInv, WorkStage
<1>4. PICK x \in sprints : x.project = req[r].on /\ x.number = number[r] /\ x.project = s.project
  BY <1>2, <1>3 DEF Inserts
<1>5. x.number < number[r]
  BY <1>1, <1>3, <1>4 DEF Inserts, Numbered
<1> QED BY <1>3, <1>4, <1>5

LEMMA WorkStep ==
  ASSUME WorkInv, Work!Record, NEW r \in Requests, WorkAlone(r), WorkRows',
         sprints' \subseteq sprints \/ Inserts(r),
         WorkStage(r)', Credited(r)', Counted(r)', Numbered(r)'
  PROVE  WorkInv'
<1>1. WorkDomains'
  BY DEF WorkAlone
<1>2. \A q \in Requests : WorkStage(q)' /\ Credited(q)' /\ Counted(q)' /\ Numbered(q)'
  BY WorkOthers
<1>3. Work!SprintNumbersApart'
  BY WorkApart
<1> QED BY <1>1, <1>2, <1>3 DEF WorkInv

LEMMA WorkClosing ==
  ASSUME WorkInv, Work!Record, NEW r \in Requests, WorkAlone(r), Closes(r), WorkRows',
         sprints' \subseteq sprints \/ Inserts(r)
  PROVE  WorkInv'
<1>1. WorkStage(r) /\ Credited(r)
  BY DEF WorkInv
<1>2. WorkStage(r)'
  BY <1>1 DEF WorkStage, Closes, Work!Active, ProjectPhases, ToolPhases, ListPhases, TeamPhases, SprintPhases
<1>3. Credited(r)'
  BY <1>1, WorkRecord DEF Credited, Closes
<1>4. Counted(r)' /\ Numbered(r)'
  BY DEF Counted, Numbered, Closes
<1> QED BY <1>2, <1>3, <1>4, WorkStep

LEMMA WorkProceeding ==
  ASSUME WorkInv, Work!Record, NEW r \in Requests, WorkAlone(r), Proceeds(r), UNCHANGED Work!tables
  PROVE  WorkInv'
<1>1. WorkStage(r) /\ Credited(r) /\ Counted(r) /\ Numbered(r)
  BY DEF WorkInv
<1>2. /\ pc[r] \notin {"idle", "done"} /\ pc'[r] \notin {"idle", "done", "members", "count_all", "count_done", "insert_sprint"}
      /\ answer'[r] = "none"
  BY <1>1 DEF WorkStage, Proceeds, WorkMoves
<1>3. WorkStage(r)'
  BY <1>1, <1>2 DEF WorkStage, Proceeds, WorkMoves, Work!Active, ProjectPhases, ToolPhases, ListPhases,
     TeamPhases, SprintPhases
<1>4. Credited(r)' /\ Counted(r)' /\ Numbered(r)'
  BY <1>2 DEF Credited, Counted, Numbered
<1>5. WorkRows' /\ sprints' = sprints
  BY WorkQuiet DEF WorkInv
<1> QED BY <1>3, <1>4, <1>5, WorkStep
-----------------------------------------------------------------------------
(* Arrivals and queries. *)

LEMMA WorkSubmit ==
  ASSUME WorkInv, Work!Record, NEW r \in Requests, NEW k \in WorkInputs, Work!Submit(r, k)
  PROVE  WorkInv'
<1>1. /\ WorkStage(r) /\ WorkDomains /\ WorkRows /\ pc[r] = "idle" /\ UNCHANGED <<Work!tables, number, todo>>
      /\ req' = [req EXCEPT ![r] = k]
  BY DEF WorkInv, Work!Submit, Work!local
<1>2. \/ Work!Reply(r, "bad_request")
      \/ Work!Reply(r, "ok") /\ k.op = "get_permissions"
      \/ Work!Goto(r, Work!FirstStep(k))
  BY DEF Work!Submit, Work!PermissionCheck
<1>3. /\ WorkAlone(r) /\ req'[r] = k /\ number'[r] \in Nat
      /\ \/ pc'[r] = "done" /\ answer'[r] = "bad_request"
         \/ pc'[r] = "done" /\ k.op = "get_permissions"
         \/ pc'[r] = Work!FirstStep(k) /\ answer'[r] = "none"
  BY <1>1, <1>2 DEF WorkDomains, WorkAlone, WorkStage, Work!Reply, Work!Show, Work!Goto
<1>4. CASE pc'[r] = "done"
  <2>1. WorkStage(r)'
    BY <1>3, <1>4 DEF WorkStage, Work!Active, ProjectPhases, ToolPhases, ListPhases, TeamPhases, SprintPhases
  <2>2. Credited(r)' /\ Counted(r)' /\ Numbered(r)'
    BY <1>3, <1>4, <2>1 DEF Credited, Counted, Numbered, Work!FirstStep, WorkStage
  <2> QED BY <1>1, <1>3, <2>1, <2>2, WorkQuiet, WorkStep
<1>5. CASE pc'[r] = Work!FirstStep(k) /\ answer'[r] = "none"
  <2>1. /\ Work!FirstStep(k) \notin {"idle", "done", "count_all", "count_done", "insert_sprint"}
        /\ k.op = "get_members" =>
            Work!FirstStep(k) \in {"gate", "members"} /\ (k.actor \notin Admins => Work!FirstStep(k) = "gate")
        /\ Work!FirstStep(k) = "members" => k.op = "get_members"
        /\ Work!FirstStep(k) \in ProjectPhases => k.op = "get_project"
        /\ Work!FirstStep(k) \in ToolPhases => k.op = "get_project_tool"
        /\ Work!FirstStep(k) \in ListPhases => k.op = "list_projects"
        /\ Work!FirstStep(k) \in TeamPhases => k.op = "get_team"
        /\ Work!FirstStep(k) \in SprintPhases => k.op = "create_sprint"
    BY DEF Work!FirstStep, ProjectPhases, ToolPhases, ListPhases, TeamPhases, SprintPhases
  <2>2. WorkStage(r)'
    BY <1>3, <1>5, <2>1 DEF WorkStage, Work!Active
  <2>3. Credited(r)' /\ Counted(r)' /\ Numbered(r)'
    BY <1>3, <1>5, <2>1 DEF Credited, Counted, Numbered
  <2> QED BY <1>1, <1>3, <2>2, <2>3, WorkQuiet, WorkStep
<1> QED BY <1>3, <1>4, <1>5

\* A query whose answer ends the request.
LEMMA WorkAnswered ==
  ASSUME WorkInv, Work!Record, NEW r \in Requests, NEW a, Work!Active(r), Work!Reply(r, a),
         UNCHANGED <<Work!tables, req, number, todo>>, pc[r] # "gate" \/ a # "ok"
  PROVE  WorkInv'
<1>1. WorkAlone(r) /\ Closes(r)
  BY WorkClosed
<1>2. WorkRows' /\ sprints' = sprints
  BY WorkQuiet DEF WorkInv
<1> QED BY <1>1, <1>2, WorkClosing

\* One that leads to the next.
LEMMA WorkNextQuery ==
  ASSUME WorkInv, Work!Record, NEW r \in Requests, NEW p, Work!Goto(r, p), <<pc[r], p>> \in WorkMoves,
         UNCHANGED <<Work!tables, req, number, todo>>
  PROVE  WorkInv'
<1>1. WorkAlone(r) /\ Proceeds(r)
  BY WorkWent DEF WorkInv, Proceeds
<1> QED BY <1>1, WorkProceeding

LEMMA WorkQueries ==
  ASSUME WorkInv, Work!Record, NEW r \in Requests, NEW got, NEW op, NEW a, Work!OneQuery(r, op, got, a)
  PROVE  WorkInv'
BY WorkAnswered DEF Work!OneQuery, Work!local, Work!Active

LEMMA WorkFinds ==
  ASSUME WorkInv, Work!Record, NEW r \in Requests, NEW at, NEW got, NEW S, NEW next,
         Work!Find(r, at, got, S, next), <<at, next>> \in WorkMoves
  PROVE  WorkInv'
<1>1. /\ pc[r] = at /\ UNCHANGED <<Work!tables, req, number, todo>>
      /\ Work!Goto(r, next) \/ \E a : Work!Reply(r, a)
  BY DEF Work!Find, Work!local
<1>2. Work!Active(r) /\ pc[r] # "gate"
  BY <1>1 DEF Work!Active, WorkMoves
<1> QED BY <1>1, <1>2, WorkAnswered, WorkNextQuery

LEMMA WorkSkims ==
  ASSUME WorkInv, Work!Record, NEW r \in Requests, NEW at, NEW got, NEW next,
         Work!Skim(r, at, got, next), <<at, next>> \in WorkMoves
  PROVE  WorkInv'
<1>1. /\ pc[r] = at /\ UNCHANGED <<Work!tables, req, number, todo>>
      /\ Work!Goto(r, next) \/ Work!Reply(r, "error")
  BY DEF Work!Skim, Work!local
<1>2. Work!Active(r) /\ pc[r] # "gate"
  BY <1>1 DEF Work!Active, WorkMoves
<1> QED BY <1>1, <1>2, WorkAnswered, WorkNextQuery

LEMMA WorkLasts ==
  ASSUME WorkInv, Work!Record, NEW r \in Requests, NEW at, NEW got, Work!Last(r, at, got),
         at \notin {"idle", "done", "gate"}
  PROVE  WorkInv'
BY WorkAnswered DEF Work!Last, Work!local, Work!Active

\* The queries that keep nothing but the place.
PlainQuery(r, got) ==
    \/ Work!ListTasks(r, got) \/ Work!GetTask(r, got) \/ Work!GetProjectTasks(r, got) \/ Work!ListSprints(r, got)
    \/ Work!GetLabels(r, got) \/ Work!GetViews(r, got) \/ Work!GetAssignees(r, got)
    \/ Work!ReadSprint(r, got) \/ Work!ReadSprintTasks(r, got)
    \/ Work!ReadProject(r, got) \/ Work!ReadProjectSprints(r, got)
    \/ Work!ReadTeams(r, got) \/ Work!CountProjects(r, got) \/ Work!ReadTeam(r, got)
    \/ Work!ToolProjects(r, got) \/ Work!ToolTeams(r, got) \/ Work!ToolProject(r, got) \/ Work!ToolSprints(r, got)
    \/ Work!ToolTeam(r, got) \/ Work!ToolTeamProjects(r, got)
    \/ Work!ListMembers(r, got) \/ Work!ReadTaskOrg(r, got) \/ Work!ReadComments(r, got)

LEMMA WorkPlain ==
  ASSUME WorkInv, Work!Record, NEW r \in Requests, NEW got, PlainQuery(r, got)
  PROVE  WorkInv'
<1>1. CASE \/ Work!ListTasks(r, got) \/ Work!GetTask(r, got) \/ Work!GetProjectTasks(r, got) \/ Work!ListSprints(r, got)
           \/ Work!GetLabels(r, got) \/ Work!GetViews(r, got) \/ Work!GetAssignees(r, got)
           \/ Work!ToolProjects(r, got) \/ Work!ToolTeams(r, got)
  BY <1>1, WorkQueries DEF Work!ListTasks, Work!GetTask, Work!GetProjectTasks, Work!ListSprints,
     Work!GetLabels, Work!GetViews,
     Work!GetAssignees, Work!ToolProjects, Work!ToolTeams
<1>2. CASE \/ Work!ReadSprint(r, got) \/ Work!ReadProject(r, got) \/ Work!ReadTeam(r, got)
           \/ Work!ToolProject(r, got) \/ Work!ToolTeam(r, got)
  BY <1>2, WorkFinds DEF Work!ReadSprint, Work!ReadProject, Work!ReadTeam, Work!ToolProject, Work!ToolTeam,
     WorkMoves
<1>3. CASE Work!ReadProjectSprints(r, got) \/ Work!ToolSprints(r, got)
  BY <1>3, WorkSkims DEF Work!ReadProjectSprints, Work!ToolSprints, WorkMoves
<1>4. CASE Work!ReadSprintTasks(r, got) \/ Work!CountProjects(r, got) \/ Work!ToolTeamProjects(r, got)
  BY <1>4, WorkLasts DEF Work!ReadSprintTasks, Work!CountProjects, Work!ToolTeamProjects
<1>5. CASE Work!ListMembers(r, got) \/ Work!ReadComments(r, got)
  BY <1>5, WorkAnswered DEF Work!ListMembers, Work!ReadComments, Work!local, Work!Active
<1>6. CASE Work!ReadTeams(r, got)
  <2>1. /\ pc[r] = "teams" /\ UNCHANGED <<Work!tables, req, number, todo>>
        /\ Work!Goto(r, "project_counts") \/ \E a : Work!Reply(r, a)
    BY <1>6 DEF Work!ReadTeams, Work!local
  <2>2. Work!Active(r) /\ pc[r] # "gate" /\ <<pc[r], "project_counts">> \in WorkMoves
    BY <2>1 DEF Work!Active, WorkMoves
  <2> QED BY <2>1, <2>2, WorkAnswered, WorkNextQuery
<1>7. CASE Work!ReadTaskOrg(r, got)
  <2>1. /\ pc[r] = "task_org" /\ UNCHANGED <<Work!tables, req, number, todo>>
        /\ Work!Goto(r, "comments") \/ \E a : Work!Reply(r, a)
    BY <1>7 DEF Work!ReadTaskOrg
  <2>2. Work!Active(r) /\ pc[r] # "gate" /\ <<pc[r], "comments">> \in WorkMoves
    BY <2>1 DEF Work!Active, WorkMoves
  <2> QED BY <2>1, <2>2, WorkAnswered, WorkNextQuery
<1> QED BY <1>1, <1>2, <1>3, <1>4, <1>5, <1>6, <1>7 DEF PlainQuery

LEMMA WorkDisconnect ==
  ASSUME WorkInv, Work!Record, NEW r \in Requests, Work!Disconnect(r)
  PROVE  WorkInv'
BY WorkAnswered DEF Work!Disconnect, Work!local

-----------------------------------------------------------------------------
(* Members and roles. *)

LEMMA WorkGate ==
  ASSUME WorkInv, Work!Record, NEW r \in Requests, NEW got, Work!Gate(r, got)
  PROVE  WorkInv'
<1>1. /\ WorkStage(r) /\ WorkDomains /\ WorkRows /\ pc[r] = "gate" /\ Work!Active(r)
      /\ UNCHANGED <<Work!tables, req, number, todo>>
  BY DEF WorkInv, Work!Gate, Work!local, Work!Active
<1>2. \/ \E a : a # "ok" /\ Work!Reply(r, a)
      \/ /\ Work!Goto(r, "members")
         /\ \E m \in members : m.of = req[r].on /\ m.user = req[r].actor
  BY DEF Work!Gate, Work!MembersOf
<1>3. CASE \E a : a # "ok" /\ Work!Reply(r, a)
  BY <1>1, <1>3, WorkAnswered
<1>4. CASE /\ Work!Goto(r, "members")
           /\ \E m \in members : m.of = req[r].on /\ m.user = req[r].actor
  <2>1. /\ WorkAlone(r) /\ pc'[r] = "members" /\ answer'[r] = answer[r] /\ shown'[r] = shown[r]
        /\ req'[r] = req[r] /\ number'[r] = number[r]
    BY <1>1, <1>4, WorkWent
  <2>2. WorkRows' /\ sprints' = sprints /\ members' = members
    BY <1>1, WorkQuiet
  <2>3. WorkStage(r)'
    BY <1>1, <2>1 DEF WorkStage, Work!Active, ProjectPhases, ToolPhases, ListPhases, TeamPhases, SprintPhases
  <2>4. PICK m \in members' : m.of = req[r].on /\ m.user = req'[r].actor
    BY <1>4, <2>1, <2>2
  <2>5. <<m.of, m.role>> \in held'[r]
    BY <1>1, <2>1, <2>4, WorkRecord
  <2>6. Credited(r)' /\ Counted(r)' /\ Numbered(r)'
    BY <1>1, <2>1, <2>4, <2>5 DEF Credited, Counted, Numbered, WorkStage
  <2> QED BY <2>1, <2>2, <2>3, <2>6, WorkStep
<1> QED BY <1>2, <1>3, <1>4

\* The role shown is one of the caller's rows.
LEMMA WorkRole ==
  ASSUME WorkInv, Work!Record, NEW r \in Requests, NEW at \in {"project_members", "tool_members"}, NEW got,
         Work!AnswerRole(r, at, got)
  PROVE  WorkInv'
<1> DEFINE S == Work!Rows(got, Work!MembersOf(req[r].on))
           role == Work!UserRole(req[r].actor, S)
<1>1. /\ WorkStage(r) /\ WorkDomains /\ WorkRows /\ pc[r] = at /\ Work!Active(r)
      /\ UNCHANGED <<Work!tables, req, number, todo>>
  BY DEF WorkInv, Work!AnswerRole, Work!local, Work!Active
<1>2. Work!Reply(r, "error") \/ Work!Show(r, "ok", {<<req[r].on, role>>})
  BY DEF Work!AnswerRole
<1>3. CASE Work!Reply(r, "error")
  BY <1>1, <1>3, WorkAnswered
<1>4. CASE Work!Show(r, "ok", {<<req[r].on, role>>})
  <2>1. /\ WorkAlone(r) /\ pc'[r] = "done" /\ answer'[r] = "ok" /\ shown'[r] = {<<req[r].on, role>>}
        /\ req'[r] = req[r] /\ number'[r] = number[r]
    <3> HIDE DEF role
    <3> QED BY <1>1, <1>4 DEF Work!Show, WorkDomains, WorkAlone
  <2>2. WorkRows' /\ sprints' = sprints /\ members' = members
    BY <1>1, WorkQuiet
  <2>3. req[r].op \in {"get_project", "get_project_tool"}
    BY <1>1 DEF WorkStage, ProjectPhases, ToolPhases
  <2>4. role = "viewer" \/ <<req[r].on, role>> \in held'[r]
    <3>1. CASE \E m \in S : m.user = req[r].actor
      <4>1. PICK m \in S : m.user = req[r].actor /\ role = m.role
        BY <3>1 DEF Work!UserRole
      <4>2. m \in members' /\ m.of = req[r].on /\ m.user = req'[r].actor
        BY <2>1, <2>2, <4>1 DEF Work!Rows, Work!MembersOf
      <4> QED BY <1>1, <2>1, <4>1, <4>2, WorkRecord
    <3>2. CASE ~ \E m \in S : m.user = req[r].actor
      BY <3>2 DEF Work!UserRole
    <3> QED BY <3>1, <3>2
  <2>5. WorkStage(r)'
    BY <1>1, <2>1 DEF WorkStage, Work!Active, ProjectPhases, ToolPhases, ListPhases, TeamPhases, SprintPhases
  <2>6. Credited(r)'
    <3> HIDE DEF role
    <3> QED BY <2>1, <2>3, <2>4 DEF Credited
  <2>7. Counted(r)' /\ Numbered(r)'
    BY <2>1, <2>3 DEF Counted, Numbered
  <2> QED BY <2>1, <2>2, <2>5, <2>6, <2>7, WorkStep
<1> QED BY <1>2, <1>3, <1>4
-----------------------------------------------------------------------------
(* The counts. *)

LEMMA WorkCards ==
  ASSUME IsFiniteSet(tasks), NEW p
  PROVE  /\ Cardinality(Work!Open(p)) \in Nat /\ Cardinality(Work!Completed(p)) \in Nat
         /\ Cardinality(Work!Completed(p)) <= Cardinality(Work!Open(p))
<1>1. Work!Open(p) \in SUBSET tasks /\ Work!Completed(p) \in SUBSET Work!Open(p)
  BY DEF Work!Open, Work!Completed
<1>2. IsFiniteSet(Work!Open(p))
  BY <1>1, FS_Subset
<1>3. IsFiniteSet(Work!Completed(p)) /\ Cardinality(Work!Completed(p)) <= Cardinality(Work!Open(p))
  BY <1>1, <1>2, FS_Subset
<1> QED BY <1>2, <1>3, FS_CardinalityType

LEMMA WorkNextCount ==
  ASSUME WorkDomains, NEW r \in Requests, NEW left, NEW s, Work!NextCount(r, left, s), UNCHANGED <<req, number>>
  PROVE  /\ WorkAlone(r) /\ shown'[r] = s /\ todo'[r] = left /\ req'[r] = req[r] /\ number'[r] = number[r]
         /\ \/ pc'[r] = "done" /\ answer'[r] = "ok"
            \/ pc'[r] = "count_all" /\ answer'[r] = answer[r]
<1>1. /\ DOMAIN todo' = Requests /\ DOMAIN shown' = Requests /\ DOMAIN pc' = Requests /\ DOMAIN answer' = Requests
      /\ todo'[r] = left /\ shown'[r] = s
      /\ pc'[r] = IF left = {} THEN "done" ELSE "count_all"
      /\ answer'[r] = IF left = {} THEN "ok" ELSE answer[r]
      /\ \A q \in Requests \ {r} : /\ pc'[q] = pc[q] /\ answer'[q] = answer[q]
                                   /\ todo'[q] = todo[q] /\ shown'[q] = shown[q]
  BY DEF WorkDomains, Work!NextCount
<1> QED BY <1>1 DEF WorkDomains, WorkAlone

\* The next project is counted, or the list is answered.
LEMMA WorkGoesOn ==
  ASSUME WorkInv, Work!Record, NEW r \in Requests, NEW left, NEW s, Work!NextCount(r, left, s),
         pc[r] \in ListPhases, UNCHANGED <<Work!tables, req, number>>,
         \A row \in s : row[3] > row[2] => unsteady'[r]
  PROVE  WorkInv'
<1>1. WorkStage(r) /\ WorkDomains /\ WorkRows /\ req[r].op = "list_projects"
  BY DEF WorkInv, WorkStage
<1>2. /\ WorkAlone(r) /\ shown'[r] = s /\ todo'[r] = left /\ req'[r] = req[r] /\ number'[r] = number[r]
      /\ \/ pc'[r] = "done" /\ answer'[r] = "ok"
         \/ pc'[r] = "count_all" /\ answer'[r] = answer[r]
  BY <1>1, WorkNextCount
<1>3. WorkStage(r)'
  BY <1>1, <1>2 DEF WorkStage, Work!Active, ProjectPhases, ToolPhases, ListPhases, TeamPhases, SprintPhases
<1>4. Credited(r)' /\ Numbered(r)'
  BY <1>1, <1>2 DEF Credited, Numbered
<1>5. Counted(r)'
  BY <1>1, <1>2 DEF Counted
<1> QED BY <1>1, <1>2, <1>3, <1>4, <1>5, WorkQuiet, WorkStep

LEMMA WorkReadProjects ==
  ASSUME WorkInv, Work!Record, NEW r \in Requests, NEW got, Work!ReadProjects(r, got)
  PROVE  WorkInv'
<1>1. pc[r] = "projects" /\ pc[r] \in ListPhases /\ Work!Active(r) /\ UNCHANGED <<Work!tables, req, number>>
  BY DEF Work!ReadProjects, ListPhases, Work!Active
<1>2. (UNCHANGED todo /\ \E a : Work!Reply(r, a)) \/ \E left : Work!NextCount(r, left, {})
  BY DEF Work!ReadProjects
<1>3. CASE UNCHANGED todo /\ \E a : Work!Reply(r, a)
  BY <1>1, <1>3, WorkAnswered
<1>4. CASE \E left : Work!NextCount(r, left, {})
  BY <1>1, <1>4, WorkGoesOn
<1> QED BY <1>2, <1>3, <1>4

\* An answer that leaves a number or rows behind.
LEMMA WorkGaveUp ==
  ASSUME WorkInv, Work!Record, NEW r \in Requests, NEW a, Work!Active(r), Work!Reply(r, a), pc[r] # "gate",
         UNCHANGED <<Work!tables, req>>, WorkDomains', number'[r] \in Nat,
         \A q \in Requests \ {r} : number'[q] = number[q] /\ todo'[q] = todo[q]
  PROVE  WorkInv'
<1>1. WorkStage(r) /\ WorkDomains /\ WorkRows
  BY DEF WorkInv
<1>2. WorkAlone(r) /\ pc'[r] = "done" /\ shown'[r] = {} /\ req'[r] = req[r]
  BY <1>1 DEF WorkDomains, Work!Reply, Work!Show, WorkAlone
<1>3. Closes(r)
  BY <1>1, <1>2 DEF WorkStage, Closes
<1> QED BY <1>1, <1>2, <1>3, WorkQuiet, WorkClosing

LEMMA WorkCountAll ==
  ASSUME WorkInv, Work!Record, NEW r \in Requests, NEW got, Work!CountAll(r, got)
  PROVE  WorkInv'
<1> DEFINE n == Work!CountOf(got, Work!Open(Counting(r)))
<1>1. /\ WorkStage(r) /\ WorkDomains /\ WorkRows /\ Counted(r) /\ pc[r] = "count_all" /\ Work!Active(r)
      /\ UNCHANGED <<Work!tables, req, todo>> /\ number' = [number EXCEPT ![r] = n]
      /\ Work!Reply(r, "error") \/ Work!Goto(r, "count_done")
  BY DEF WorkInv, Work!CountAll, Work!Active, Counting
<1>2. n \in Nat
  BY <1>1, WorkCards, WorkCardinality DEF Work!CountOf, WorkRows
<1> HIDE DEF n
<1>3. /\ DOMAIN number' = Requests /\ number'[r] = n /\ DOMAIN todo' = Requests /\ DOMAIN req' = Requests
      /\ \A q \in Requests \ {r} : number'[q] = number[q] /\ todo'[q] = todo[q]
  BY <1>1 DEF WorkDomains
<1>4. CASE Work!Reply(r, "error")
  <2>1. WorkDomains'
    BY <1>1, <1>3, <1>4 DEF WorkDomains, Work!Reply, Work!Show
  <2> QED BY <1>1, <1>2, <1>3, <1>4, <2>1, WorkGaveUp
<1>5. CASE Work!Goto(r, "count_done")
  <2>1. /\ WorkAlone(r) /\ pc'[r] = "count_done" /\ req'[r] = req[r] /\ answer'[r] = answer[r]
        /\ shown'[r] = shown[r] /\ todo'[r] = todo[r]
    BY <1>1, <1>3, <1>5 DEF WorkDomains, Work!Goto, WorkAlone
  <2>2. WorkRows' /\ sprints' = sprints /\ tasks' = tasks
    BY <1>1, WorkQuiet
  <2>3. WorkStage(r)'
    BY <1>1, <1>2, <1>3, <2>1 DEF WorkStage, Work!Active, ProjectPhases, ToolPhases, ListPhases,
       TeamPhases, SprintPhases
  <2>4. Credited(r)' /\ Numbered(r)' /\ answer'[r] = "none"
    BY <1>1, <2>1 DEF Credited, Numbered, WorkStage
  <2>5. Cardinality(Work!Open(Counting(r))) \in Nat /\ (Work!Open(Counting(r)))' = Work!Open(Counting(r))
    BY <1>1, <2>1, <2>2, WorkCards DEF WorkRows, Work!Open, Counting
  <2>6. Counted(r)'
    BY <1>1, <1>2, <1>3, <2>1, <2>4, <2>5, WorkRecord DEF Counted
  <2> QED BY <2>1, <2>2, <2>3, <2>4, <2>6, WorkStep
<1> QED BY <1>1, <1>4, <1>5

LEMMA WorkCountDone ==
  ASSUME WorkInv, Work!Record, NEW r \in Requests, NEW got, Work!CountDone(r, got)
  PROVE  WorkInv'
<1> DEFINE p == Counting(r)
           n == Work!CountOf(got, Work!Completed(p))
           row == <<p, number[r], n>>
<1>1. /\ WorkStage(r) /\ Counted(r) /\ WorkRows /\ pc[r] = "count_done" /\ pc[r] \in ListPhases /\ Work!Active(r)
      /\ UNCHANGED <<Work!tables, req, number>>
  BY DEF WorkInv, Work!CountDone, Work!Active, ListPhases
<1>2. \/ Work!Reply(r, "error") /\ UNCHANGED todo
      \/ Work!NextCount(r, todo[r] \ {p}, shown[r] \cup {row})
  BY DEF Work!CountDone, Counting
<1>3. CASE Work!Reply(r, "error") /\ UNCHANGED todo
  BY <1>1, <1>3, WorkAnswered
<1>4. CASE Work!NextCount(r, todo[r] \ {p}, shown[r] \cup {row})
  <2>1. n \in Nat /\ Cardinality(Work!Open(p)) \in Nat /\ n <= Cardinality(Work!Open(p)) /\ number[r] \in Nat
    BY <1>1, WorkCards, WorkCardinality DEF WorkRows, Work!CountOf, WorkStage
  <2>2. unsteady[r] \/ n <= number[r]
    BY <1>1, <2>1 DEF Counted
  <2>3. ASSUME NEW x \in shown[r] \cup {row}, x[3] > x[2] PROVE unsteady'[r]
    <3>1. unsteady[r]
      BY <1>1, <2>1, <2>2, <2>3 DEF Counted
    <3> QED BY <3>1, WorkRecord
  <2> HIDE DEF row, p
  <2> QED BY <1>1, <1>4, <2>3, WorkGoesOn
<1> QED BY <1>2, <1>3, <1>4

LEMMA WorkTeamProjects ==
  ASSUME WorkInv, Work!Record, NEW r \in Requests, NEW got, Work!ReadTeamProjects(r, got)
  PROVE  WorkInv'
<1>1. /\ WorkStage(r) /\ WorkDomains /\ pc[r] = "team_projects" /\ Work!Active(r) /\ pc[r] # "gate"
      /\ UNCHANGED <<Work!tables, req, number>> /\ DOMAIN todo' = Requests /\ number'[r] \in Nat
      /\ \A q \in Requests \ {r} : number'[q] = number[q] /\ todo'[q] = todo[q]
      /\ (\E a : Work!Reply(r, a)) \/ Work!Goto(r, "team_tasks")
  BY DEF WorkInv, WorkStage, WorkDomains, Work!ReadTeamProjects, Work!Active
<1>2. CASE \E a : Work!Reply(r, a)
  <2>1. WorkDomains'
    BY <1>1, <1>2 DEF WorkDomains, Work!Reply, Work!Show
  <2> QED BY <1>1, <1>2, <2>1, WorkGaveUp
<1>3. CASE Work!Goto(r, "team_tasks")
  <2>1. WorkAlone(r) /\ Proceeds(r)
    BY <1>1, <1>3 DEF WorkDomains, Work!Goto, WorkAlone, Proceeds, WorkMoves
  <2> QED BY <1>1, <2>1, WorkProceeding
<1> QED BY <1>1, <1>2, <1>3

\* One query: the completed are among the open.
LEMMA WorkTeamTasks ==
  ASSUME WorkInv, Work!Record, NEW r \in Requests, NEW got, Work!ReadTeamTasks(r, got)
  PROVE  WorkInv'
<1> DEFINE s == {<<p, Cardinality(Work!Rows(got, Work!Open(p))), Cardinality(Work!Rows(got, Work!Completed(p)))>> : p \in todo[r]}
<1>1. /\ WorkStage(r) /\ WorkDomains /\ WorkRows /\ pc[r] = "team_tasks" /\ Work!Active(r)
      /\ UNCHANGED <<Work!tables, req, number, todo>>
  BY DEF WorkInv, Work!ReadTeamTasks, Work!Active, Work!local
<1>2. (\E a : Work!Reply(r, a)) \/ Work!Show(r, "ok", s)
  BY WorkCardinality DEF Work!ReadTeamTasks
<1>3. CASE \E a : Work!Reply(r, a)
  BY <1>1, <1>3, WorkAnswered
<1>4. CASE Work!Show(r, "ok", s)
  <2>1. \A x \in s : ~(x[3] > x[2])
    <3> SUFFICES ASSUME NEW p \in todo[r]
                 PROVE  ~(Cardinality(Work!Rows(got, Work!Completed(p))) > Cardinality(Work!Rows(got, Work!Open(p))))
      OBVIOUS
    <3>1. CASE got = "ok"
      BY <1>1, <3>1, WorkCards DEF Work!Rows, WorkRows
    <3>2. CASE got # "ok"
      BY <3>2, FS_EmptySet DEF Work!Rows
    <3> QED BY <3>1, <3>2
  <2> HIDE DEF s
  <2>2. /\ WorkAlone(r) /\ pc'[r] = "done" /\ answer'[r] = "ok" /\ shown'[r] = s
        /\ req'[r] = req[r] /\ number'[r] = number[r]
    BY <1>1, <1>4 DEF Work!Show, WorkDomains, WorkAlone
  <2>3. req[r].op = "get_team"
    BY <1>1 DEF WorkStage, TeamPhases
  <2>4. WorkStage(r)'
    BY <1>1, <2>2 DEF WorkStage, Work!Active, ProjectPhases, ToolPhases, ListPhases, TeamPhases, SprintPhases
  <2>5. Credited(r)' /\ Counted(r)' /\ Numbered(r)'
    BY <2>1, <2>2, <2>3 DEF Credited, Counted, Numbered
  <2> QED BY <1>1, <2>2, <2>4, <2>5, WorkQuiet, WorkStep
<1> QED BY <1>2, <1>3, <1>4
-----------------------------------------------------------------------------
(* The numbers of sprints. *)

\* A finite set of naturals has a greatest element.
LEMMA FiniteMax ==
  ASSUME NEW S, S \subseteq Nat, IsFiniteSet(S), S # {}
  PROVE  \E m \in S : \A y \in S : y <= m
<1> DEFINE T == {U \in SUBSET S : U # {} /\ ~ \E m \in U : \A y \in U : y <= m}
           R == StrictSubsetOrdering(S)
<1> SUFFICES ASSUME T # {} PROVE FALSE
  OBVIOUS
<1>1. T \subseteq FiniteSubsetsOf(S) /\ IsWellFoundedOn(R, FiniteSubsetsOf(S))
  BY FS_FiniteSubsetsOfFinite, FS_StrictSubsetOrderingWellFounded
<1>2. PICK U \in T : \A V \in T : ~ (<<V, U>> \in R)
  <2> HIDE DEF T, R
  <2> QED BY <1>1, WFMin
<1>3. PICK x \in U : TRUE
  OBVIOUS
<1> DEFINE V == U \ {x}
<1>4. <<V, U>> \in R
  BY <1>3 DEF StrictSubsetOrdering
<1>5. V \notin T
  BY <1>2, <1>4
<1>6. CASE V = {}
  <2>1. U = {x} /\ x \in Nat
    BY <1>3, <1>6
  <2> QED BY <2>1
<1>7. CASE \E m \in V : \A y \in V : y <= m
  <2>1. PICK m \in V : \A y \in V : y <= m
    BY <1>7
  <2>2. m \in Nat /\ x \in Nat /\ V \subseteq Nat
    BY <1>3
  <2>3. CASE x <= m
    BY <2>1, <2>3
  <2>4. CASE ~(x <= m)
    <3>1. \A y \in U : y <= x
      BY <2>1, <2>2, <2>4
    <3> QED BY <1>3, <3>1
  <2> QED BY <2>3, <2>4
<1> QED BY <1>5, <1>6, <1>7

LEMMA WorkNumbers ==
  ASSUME NEW S, IsFiniteSet(S), \A s \in S : s.number \in Nat
  PROVE  /\ Work!NextNumber(S) \in Nat \ {0}
         /\ \A s \in S : s.number < Work!NextNumber(S)
<1> DEFINE N == {s.number : s \in S}
           f == [s \in S |-> s.number]
           M == N \cup {0}
<1>1. f \in Surjection(S, N)
  BY DEF Surjection
<1>2. IsFiniteSet(N)
  <2> HIDE DEF N, f
  <2> QED BY <1>1, FS_Surjection
<1>3. IsFiniteSet(M) /\ M \subseteq Nat /\ 0 \in M /\ M # {}
  BY <1>2, FS_AddElement
<1>4. PICK m \in M : \A y \in M : y <= m
  <2> HIDE DEF M
  <2> QED BY <1>3, FiniteMax
<1>5. Work!Max(M) \in M /\ \A y \in M : Work!Max(M) >= y
  <2>1. \A y \in M : m >= y
    BY <1>3, <1>4
  <2> HIDE DEF M
  <2> QED BY <2>1 DEF Work!Max
<1>6. Work!NextNumber(S) = Work!Max(M) + 1
  BY DEF Work!NextNumber
<1>7. \A s \in S : s.number \in M
  OBVIOUS
<1> HIDE DEF M
<1>8. Work!Max(M) \in Nat
  BY <1>3, <1>5
<1>9. Work!NextNumber(S) \in Nat \ {0}
  BY <1>6, <1>8
<1>10. ASSUME NEW s \in S PROVE s.number < Work!NextNumber(S)
  <2>1. s.number \in Nat /\ Work!Max(M) >= s.number
    BY <1>5, <1>7
  <2> QED BY <1>6, <1>8, <2>1
<1> QED BY <1>9, <1>10

LEMMA WorkLookUp ==
  ASSUME WorkInv, Work!Record, NEW r \in Requests, NEW got, Work!LookUpNumber(r, got)
  PROVE  WorkInv'
<1> DEFINE S == {s \in sprints : s.project = req[r].on}
           n == Work!NextNumber(Work!Rows(got, S))
<1>1. /\ WorkStage(r) /\ WorkDomains /\ WorkRows /\ pc[r] = "next_number" /\ Work!Active(r)
      /\ UNCHANGED <<Work!tables, req, todo>> /\ number' = [number EXCEPT ![r] = n]
      /\ Work!Reply(r, "error") \/ Work!Goto(r, "insert_sprint")
  BY DEF WorkInv, Work!LookUpNumber, Work!Active
<1>2. /\ n \in Nat \ {0} /\ Work!NextNumber(S) \in Nat
      /\ \A s \in S : s.number < Work!NextNumber(S)
  <2>1. S \in SUBSET sprints /\ Work!Rows(got, S) \in SUBSET sprints
    BY DEF Work!Rows
  <2>2. IsFiniteSet(S) /\ IsFiniteSet(Work!Rows(got, S))
    <3> HIDE DEF S
    <3> QED BY <1>1, <2>1, FS_Subset DEF WorkRows
  <2>3. \A s \in sprints : s.number \in Nat
    BY <1>1 DEF WorkRows, Work!TypeOK
  <2>4. (\A s \in S : s.number \in Nat) /\ \A s \in Work!Rows(got, S) : s.number \in Nat
    BY <2>1, <2>3
  <2> HIDE DEF S
  <2> QED BY <2>2, <2>4, WorkNumbers
<1>3. req[r].op = "create_sprint" /\ req[r].on \in ProjectIds
  BY <1>1, WorkAssumption DEF WorkStage, SprintPhases
<1> HIDE DEF n
<1>4. /\ DOMAIN number' = Requests /\ number'[r] = n /\ DOMAIN todo' = Requests /\ DOMAIN req' = Requests
      /\ \A q \in Requests \ {r} : number'[q] = number[q] /\ todo'[q] = todo[q]
  BY <1>1 DEF WorkDomains
<1>5. CASE Work!Reply(r, "error")
  <2>1. WorkDomains'
    BY <1>1, <1>4, <1>5 DEF WorkDomains, Work!Reply, Work!Show
  <2> QED BY <1>1, <1>2, <1>4, <1>5, <2>1, WorkGaveUp
<1>6. CASE Work!Goto(r, "insert_sprint")
  <2>1. /\ WorkAlone(r) /\ pc'[r] = "insert_sprint" /\ req'[r] = req[r] /\ answer'[r] = answer[r]
    BY <1>1, <1>4, <1>6 DEF WorkDomains, Work!Goto, WorkAlone
  <2>2. WorkRows' /\ sprints' = sprints
    BY <1>1, WorkQuiet
  <2>3. WorkStage(r)' /\ answer'[r] = "none"
    BY <1>1, <1>2, <1>3, <1>4, <2>1 DEF WorkStage, Work!Active, ProjectPhases, ToolPhases, ListPhases,
       TeamPhases, SprintPhases
  <2>4. Credited(r)' /\ Counted(r)'
    BY <2>1, <2>3 DEF Credited, Counted
  <2>5. req[r].on \in guessed' \/ n = Work!NextNumber(S)
    <3>1. Work!Creating(r, req[r].on)
      BY <1>1, <1>3 DEF Work!Creating
    <3> QED BY <1>1, <1>3, <1>4, <2>1, <3>1 DEF Work!Record
  <2>6. Numbered(r)'
    BY <1>2, <1>4, <2>1, <2>2, <2>5 DEF Numbered
  <2> QED BY <2>1, <2>2, <2>3, <2>4, <2>6, WorkStep
<1> QED BY <1>1, <1>5, <1>6

LEMMA WorkInsertSprint ==
  ASSUME WorkInv, Work!Record, NEW r \in Requests, NEW reply, Work!InsertSprint(r, reply)
  PROVE  WorkInv'
<1>1. /\ WorkStage(r) /\ WorkRows /\ pc[r] = "insert_sprint" /\ Work!Active(r)
      /\ UNCHANGED <<tasks, projects, teams, members, Work!extras, req, number, todo>>
      /\ \E a : Work!Reply(r, a)
  BY DEF WorkInv, Work!InsertSprint, Work!Active, Work!local
<1>2. sprints' = sprints \/ Inserts(r)
  BY <1>1 DEF Work!InsertSprint, Work!Stored, Work!Free, Inserts
<1>3. WorkAlone(r) /\ Closes(r)
  BY <1>1, WorkClosed
<1>4. IsFiniteSet(sprints') /\ \A s \in sprints' : s.id \in SprintIds /\ s.number \in Nat \ {0}
  <2>1. CASE sprints' = sprints
    BY <1>1, <2>1 DEF WorkRows, Work!TypeOK
  <2>2. CASE Inserts(r)
    <3>1. PICK i \in SprintIds : sprints' = sprints \cup {[id |-> i, project |-> req[r].on, number |-> number[r]]}
      BY <2>2 DEF Inserts
    <3>2. IsFiniteSet(sprints')
      BY <1>1, <3>1, FS_AddElement DEF WorkRows
    <3>3. number[r] \in Nat \ {0}
      BY <1>1 DEF WorkStage
    <3> QED BY <1>1, <3>1, <3>2, <3>3 DEF WorkRows, Work!TypeOK
  <2> QED BY <1>2, <2>1, <2>2
<1>5. WorkRows'
  BY <1>1, <1>4 DEF WorkRows, Work!TypeOK, TaskRow, Work!extras
<1> QED BY <1>2, <1>3, <1>5, WorkClosing

-----------------------------------------------------------------------------
(* The other writes. *)

LEMMA WorkOneCall ==
  ASSUME WorkInv, Work!Record, NEW r \in Requests, NEW op, NEW reply, NEW a, Work!OneCall(r, op, reply, a),
         WorkRows', sprints' \subseteq sprints
  PROVE  WorkInv'
<1>1. /\ pc[r] = "call" /\ Work!Active(r) /\ UNCHANGED <<req, number, todo>> /\ \E b : Work!Reply(r, b)
  BY DEF Work!OneCall, Work!local, Work!Active
<1>2. WorkAlone(r) /\ Closes(r)
  BY <1>1, WorkClosed
<1> QED BY <1>2, WorkClosing

LEMMA WorkTaskWrites ==
  ASSUME WorkInv, Work!Record, NEW r \in Requests, NEW reply,
         Work!CreateTask(r, reply) \/ Work!UpdateTask(r, reply) \/ Work!DeleteTask(r, reply)
  PROVE  WorkInv'
<1>1. WorkRows /\ UNCHANGED <<sprints, projects, teams, members, Work!extras>>
  BY DEF WorkInv, Work!CreateTask, Work!UpdateTask, Work!DeleteTask
<1>2. ASSUME IsFiniteSet(tasks'),
             \A t \in tasks' : /\ TaskRow(t)
                               /\ t.id \in TaskIds /\ t.done \in BOOLEAN /\ t.archived \in BOOLEAN
      PROVE  WorkRows' /\ sprints' = sprints
  BY <1>1, <1>2 DEF WorkRows, Work!TypeOK, TaskRow, Work!extras
<1>3. /\ IsFiniteSet(tasks)
      /\ \A t \in tasks : /\ TaskRow(t)
                          /\ t.id \in TaskIds /\ t.done \in BOOLEAN /\ t.archived \in BOOLEAN
  BY <1>1 DEF WorkRows, Work!TypeOK
<1>c. pc[r] = "call" /\ req[r].op \in {"create_task", "update_task"} =>
        \A column \in DOMAIN Changes[req[r].arg] \cap {"done", "archived"} : Changes[req[r].arg][column] \in BOOLEAN
  BY WorkAssumption, Zenon DEF WorkInv, WorkStage
<1>4. CASE Work!CreateTask(r, reply)
  <2>1. PICK i \in TaskIds :
            \/ tasks' = tasks
            \/ tasks' = tasks \cup {Work!Created(i, req[r].on, Changes[req[r].arg])}
    BY <1>4 DEF Work!CreateTask, Work!Free, Work!Stored
  <2>2. IsFiniteSet(tasks')
    BY <1>3, <2>1, FS_AddElement
  <2> DEFINE change == Changes[req[r].arg]
             x == Work!Created(i, req[r].on, change)
  <2>c. /\ "done" \in DOMAIN change => change["done"] \in BOOLEAN
    BY <1>4, <1>c DEF Work!CreateTask, Work!OneCall
  <2> HIDE DEF change
  <2>3. \A t \in tasks' : /\ TaskRow(t)
                          /\ t.id \in TaskIds /\ t.done \in BOOLEAN /\ t.archived \in BOOLEAN
    <3>1. TaskRow(x) /\ x.id = i /\ x.archived = FALSE /\ x.done = Work!Given(change, "done", FALSE)
      BY DEF TaskRow, Work!Created
    <3>2. x.done \in BOOLEAN /\ x.archived \in BOOLEAN
      <4>1. Work!Given(change, "done", FALSE) \in BOOLEAN
        BY <2>c, Zenon DEF Work!Given
      <4> QED BY <3>1, <4>1, Zenon
    <3>3. \A t \in tasks' : t \in tasks \/ t = x
      BY <2>1 DEF change
    <3> HIDE DEF x
    <3> QED BY <1>3, <3>1, <3>2, <3>3
  <2> QED BY <1>2, <1>4, <2>2, <2>3, WorkOneCall DEF Work!CreateTask
<1>5. CASE Work!UpdateTask(r, reply)
  <2> DEFINE change == Changes[req[r].arg]
             S == Work!Rowed(tasks, req[r].on)
             U == {Work!Updated(t, change) : t \in S}
             f == [t \in S |-> Work!Updated(t, change)]
  <2>1. tasks' = tasks \/ tasks' = (tasks \ S) \cup U
    BY <1>5 DEF Work!UpdateTask, Work!Stored
  <2>c. \A column \in DOMAIN change \cap {"done", "archived"} : change[column] \in BOOLEAN
    BY <1>5, <1>c DEF Work!UpdateTask, Work!OneCall
  <2> HIDE DEF change
  <2>2. S \in SUBSET tasks /\ f \in Surjection(S, U)
    BY DEF Work!Rowed, Surjection
  <2>3. IsFiniteSet(U) /\ IsFiniteSet(tasks \ S)
    <3>1. IsFiniteSet(S)
      BY <1>3, <2>2, FS_Subset
    <3> HIDE DEF S, U, f
    <3> QED BY <1>3, <2>2, <3>1, FS_Surjection, FS_Difference
  <2>4. IsFiniteSet(tasks')
    <3> HIDE DEF S, U
    <3> QED BY <1>3, <2>1, <2>3, FS_Union
  <2>5. ASSUME NEW t \in S
        PROVE  LET u == Work!Updated(t, change)
               IN  TaskRow(u) /\ u.id \in TaskIds /\ u.done \in BOOLEAN /\ u.archived \in BOOLEAN
    <3> DEFINE u == Work!Updated(t, change)
    <3>1. TaskRow(t) /\ t.id \in TaskIds /\ t.done \in BOOLEAN /\ t.archived \in BOOLEAN
      BY <1>3, <2>2
    <3>2. /\ TaskRow(u) /\ u.id = t.id
          /\ u.done = Work!Given(change, "done", t.done) /\ u.archived = Work!Given(change, "archived", t.archived)
      BY DEF Work!Updated, TaskRow
    <3> HIDE DEF u
    <3>3. Work!Given(change, "done", t.done) \in BOOLEAN /\ Work!Given(change, "archived", t.archived) \in BOOLEAN
      <4>1. /\ "done" \in DOMAIN change => change["done"] \in BOOLEAN
            /\ "archived" \in DOMAIN change => change["archived"] \in BOOLEAN
        BY <2>c, Zenon
      <4> QED BY <3>1, <4>1, Zenon DEF Work!Given
    <3>4. u.done \in BOOLEAN /\ u.archived \in BOOLEAN
      BY <3>2, <3>3, Zenon
    <3> QED BY <3>1, <3>2, <3>4 DEF u
  <2>6. \A t \in tasks' : /\ TaskRow(t)
                          /\ t.id \in TaskIds /\ t.done \in BOOLEAN /\ t.archived \in BOOLEAN
    BY <1>3, <2>1, <2>5
  <2>7. WorkRows' /\ sprints' \subseteq sprints
    BY <1>2, <2>4, <2>6
  <2> QED BY <1>5, <2>7, WorkOneCall DEF Work!UpdateTask
<1>6. CASE Work!DeleteTask(r, reply)
  <2>1. tasks' \in SUBSET tasks
    BY <1>6 DEF Work!DeleteTask, Work!Stored
  <2>2. IsFiniteSet(tasks')
    BY <1>3, <2>1, FS_Subset
  <2> QED BY <1>2, <1>3, <1>6, <2>1, <2>2, WorkOneCall DEF Work!DeleteTask
<1> QED BY <1>4, <1>5, <1>6

LEMMA WorkBoardWrites ==
  ASSUME WorkInv, Work!Record, NEW r \in Requests, NEW reply,
         \/ Work!UpdateSprint(r, reply) \/ Work!DeleteSprint(r, reply)
         \/ Work!CreateProject(r, reply) \/ Work!CreateTeam(r, reply)
         \/ Work!AddProjectMember(r, reply) \/ Work!AddTeamMember(r, reply)
  PROVE  WorkInv'
<1>1. WorkRows /\ IsFiniteSet(sprints)
  BY DEF WorkInv, WorkRows
<1>2. CASE Work!UpdateSprint(r, reply)
  BY <1>1, <1>2, WorkQuiet, WorkOneCall DEF Work!UpdateSprint
<1>3. CASE Work!DeleteSprint(r, reply)
  <2>1. sprints' \in SUBSET sprints
    BY <1>3 DEF Work!DeleteSprint, Work!Stored
  <2>2. IsFiniteSet(sprints')
    BY <1>1, <2>1, FS_Subset
  <2>3. WorkRows'
    BY <1>1, <1>3, <2>1, <2>2 DEF Work!DeleteSprint, Work!extras, WorkRows, Work!TypeOK, TaskRow
  <2> QED BY <1>3, <2>1, <2>3, WorkOneCall DEF Work!DeleteSprint
<1>4. CASE Work!CreateProject(r, reply)
  <2>1. \A p \in projects' : p.id \in ProjectIds
    BY <1>1, <1>4 DEF Work!CreateProject, Work!Free, Work!Stored, WorkRows, Work!TypeOK
  <2>2. WorkRows' /\ sprints' = sprints
    BY <1>1, <1>4, <2>1 DEF Work!CreateProject, Work!extras, WorkRows, Work!TypeOK, TaskRow
  <2> QED BY <1>4, <2>2, WorkOneCall DEF Work!CreateProject
<1>5. CASE Work!CreateTeam(r, reply)
  <2>1. WorkRows' /\ sprints' = sprints
    BY <1>1, <1>5 DEF Work!CreateTeam, Work!extras, WorkRows, Work!TypeOK, TaskRow
  <2> QED BY <1>5, <2>1, WorkOneCall DEF Work!CreateTeam
<1>6. CASE Work!AddProjectMember(r, reply) \/ Work!AddTeamMember(r, reply)
  <2>1. PICK op : Work!AddMember(r, op, reply)
    BY <1>6 DEF Work!AddProjectMember, Work!AddTeamMember
  <2>2. \A m, n \in members' : m.of = n.of /\ m.user = n.user => m = n
    BY <1>1, <2>1 DEF Work!AddMember, Work!Merged, Work!Stored, WorkRows, Work!TypeOK
  <2>3. WorkRows' /\ sprints' = sprints
    BY <1>1, <2>1, <2>2 DEF Work!AddMember, Work!extras, WorkRows, Work!TypeOK, TaskRow
  <2> QED BY <2>1, <2>3, WorkOneCall DEF Work!AddMember
<1> QED BY <1>2, <1>3, <1>4, <1>5, <1>6

LEMMA WorkExtraWrites ==
  ASSUME WorkInv, Work!Record, NEW r \in Requests, NEW reply,
         \/ Work!CreateLabel(r, reply) \/ Work!DeleteLabel(r, reply)
         \/ Work!SaveView(r, reply) \/ Work!DeleteView(r, reply) \/ Work!InsertComment(r, reply)
  PROVE  WorkInv'
<1>1. WorkRows
  BY DEF WorkInv
<1>2. /\ UNCHANGED <<tasks, sprints, projects, teams, members>>
      /\ comments' = comments \/ Work!InsertComment(r, reply)
      /\ views' = views \/ Work!SaveView(r, reply) \/ Work!DeleteView(r, reply)
  BY DEF Work!CreateLabel, Work!DeleteLabel, Work!SaveView, Work!DeleteView, Work!InsertComment, Work!boards
<1>3. \A c \in comments' : c.id \in CommentIds
  BY <1>1, <1>2 DEF Work!InsertComment, Work!Free, Work!Stored, WorkRows, Work!TypeOK
<1>4. \A v, w \in views' : v.user = w.user /\ v.name = w.name => v = w
  <2>1. CASE Work!SaveView(r, reply)
    BY <1>1, <2>1 DEF Work!SaveView, Work!Stored, WorkRows, Work!TypeOK
  <2>2. CASE Work!DeleteView(r, reply)
    BY <1>1, <2>2 DEF Work!DeleteView, Work!Stored, WorkRows, Work!TypeOK
  <2> QED BY <1>1, <1>2, <2>1, <2>2 DEF WorkRows, Work!TypeOK
<1>5. WorkRows' /\ sprints' = sprints
  BY <1>1, <1>2, <1>3, <1>4 DEF WorkRows, Work!TypeOK, TaskRow
<1>6. CASE Work!InsertComment(r, reply)
  <2>1. /\ pc[r] = "comments" /\ Work!Active(r) /\ UNCHANGED <<req, number, todo>> /\ \E a : Work!Reply(r, a)
    BY <1>6 DEF Work!InsertComment, Work!local, Work!Active
  <2>2. WorkAlone(r) /\ Closes(r)
    BY <2>1, WorkClosed
  <2> QED BY <1>5, <2>2, WorkClosing
<1>7. CASE \/ Work!CreateLabel(r, reply) \/ Work!DeleteLabel(r, reply) \/ Work!SaveView(r, reply) \/ Work!DeleteView(r, reply)
  BY <1>5, <1>7, WorkOneCall DEF Work!CreateLabel, Work!DeleteLabel, Work!SaveView, Work!DeleteView
<1> QED BY <1>6, <1>7

-----------------------------------------------------------------------------
LEMMA WorkInit == Work!Init => WorkInv
<1> SUFFICES ASSUME Work!Init PROVE WorkInv
  OBVIOUS
<1>1. PICK T \in WorkTables :
        /\ tasks = T.tasks /\ sprints = T.sprints /\ projects = T.projects
        /\ teams = T.teams /\ members = T.members
  BY DEF Work!Init
<1>2. WorkRows /\ Work!SprintNumbersApart
  BY <1>1, WorkAssumption DEF Work!Init, WorkRows, Work!TypeOK, TaskRow, Work!SprintNumbersApart
<1>3. WorkDomains
  BY DEF Work!Init, WorkDomains
<1>4. ASSUME NEW r \in Requests
      PROVE  WorkStage(r) /\ Credited(r) /\ Counted(r) /\ Numbered(r)
  BY DEF Work!Init, WorkStage, Credited, Counted, Numbered, Work!Active, ProjectPhases, ToolPhases, ListPhases,
         TeamPhases, SprintPhases
<1> QED BY <1>2, <1>3, <1>4 DEF WorkInv

LEMMA WorkNext == WorkInv /\ Work!Next => WorkInv'
<1> SUFFICES ASSUME WorkInv, Work!Record, NEW r \in Requests, Work!Step(r) PROVE WorkInv'
  BY DEF Work!Next
<1>1. CASE \E k \in WorkInputs : Work!Submit(r, k)
  BY <1>1, WorkSubmit
<1>2. CASE Work!Disconnect(r)
  BY <1>2, WorkDisconnect
<1>3. ASSUME NEW reply \in Work!Replies,
        \/ Work!CreateTask(r, reply) \/ Work!UpdateTask(r, reply) \/ Work!DeleteTask(r, reply)
        \/ Work!UpdateSprint(r, reply) \/ Work!DeleteSprint(r, reply) \/ Work!InsertSprint(r, reply)
        \/ Work!CreateProject(r, reply) \/ Work!CreateTeam(r, reply) \/ Work!AddProjectMember(r, reply) \/ Work!AddTeamMember(r, reply)
        \/ Work!CreateLabel(r, reply) \/ Work!DeleteLabel(r, reply)
        \/ Work!SaveView(r, reply) \/ Work!DeleteView(r, reply) \/ Work!InsertComment(r, reply)
      PROVE  WorkInv'
  BY <1>3, WorkTaskWrites, WorkBoardWrites, WorkExtraWrites, WorkInsertSprint
<1>4. ASSUME NEW got \in Work!Got,
        \/ PlainQuery(r, got) \/ Work!LookUpNumber(r, got)
        \/ Work!ReadProjects(r, got) \/ Work!CountAll(r, got) \/ Work!CountDone(r, got)
        \/ Work!ReadProjectMembers(r, got) \/ Work!ToolMembers(r, got)
        \/ Work!ReadTeamProjects(r, got) \/ Work!ReadTeamTasks(r, got) \/ Work!Gate(r, got)
      PROVE  WorkInv'
  <2>1. CASE Work!ReadProjectMembers(r, got) \/ Work!ToolMembers(r, got)
    BY <2>1, WorkRole DEF Work!ReadProjectMembers, Work!ToolMembers
  <2> QED BY <1>4, <2>1, WorkPlain, WorkLookUp, WorkReadProjects, WorkCountAll, WorkCountDone,
             WorkTeamProjects, WorkTeamTasks, WorkGate
<1>5. \/ \E k \in WorkInputs : Work!Submit(r, k)
      \/ Work!Disconnect(r)
      \/ \E reply \in Work!Replies :
        \/ Work!CreateTask(r, reply) \/ Work!UpdateTask(r, reply) \/ Work!DeleteTask(r, reply)
        \/ Work!UpdateSprint(r, reply) \/ Work!DeleteSprint(r, reply) \/ Work!InsertSprint(r, reply)
        \/ Work!CreateProject(r, reply) \/ Work!CreateTeam(r, reply) \/ Work!AddProjectMember(r, reply) \/ Work!AddTeamMember(r, reply)
        \/ Work!CreateLabel(r, reply) \/ Work!DeleteLabel(r, reply)
        \/ Work!SaveView(r, reply) \/ Work!DeleteView(r, reply) \/ Work!InsertComment(r, reply)
      \/ \E got \in Work!Got :
        \/ PlainQuery(r, got) \/ Work!LookUpNumber(r, got)
        \/ Work!ReadProjects(r, got) \/ Work!CountAll(r, got) \/ Work!CountDone(r, got)
        \/ Work!ReadProjectMembers(r, got) \/ Work!ToolMembers(r, got)
        \/ Work!ReadTeamProjects(r, got) \/ Work!ReadTeamTasks(r, got) \/ Work!Gate(r, got)
  BY DEF Work!Step, PlainQuery
<1> QED BY <1>1, <1>2, <1>3, <1>4, <1>5

LEMMA WorkStutter == WorkInv /\ UNCHANGED Work!workVars => WorkInv'
<1> SUFFICES ASSUME WorkInv, UNCHANGED Work!workVars PROVE WorkInv'
  OBVIOUS
<1>1. UNCHANGED <<Work!tables, pc, req, answer, number, todo, shown, held, unsteady, guessed>>
  BY DEF Work!workVars, Work!local, Work!witness
<1>2. WorkRows' /\ sprints' = sprints /\ tasks' = tasks
  BY <1>1, WorkQuiet DEF WorkInv
<1>3. WorkDomains' /\ Work!SprintNumbersApart'
  BY <1>1, <1>2 DEF WorkInv, WorkDomains, Work!SprintNumbersApart
<1>4. ASSUME NEW r \in Requests
      PROVE  WorkStage(r)' /\ Credited(r)' /\ Counted(r)' /\ Numbered(r)'
  <2>1. WorkStage(r) /\ Credited(r) /\ Counted(r) /\ Numbered(r)
    BY DEF WorkInv
  <2>2. WorkStage(r)' /\ Credited(r)' /\ Numbered(r)'
    BY <1>1, <1>2, <2>1 DEF WorkStage, Credited, Numbered, Work!Active
  <2>3. Counted(r)'
    BY <1>1, <1>2, <2>1 DEF Counted, Counting, Work!Open
  <2> QED BY <2>2, <2>3
<1> QED BY <1>2, <1>3, <1>4 DEF WorkInv

LEMMA WorkSafe == WorkInv => Work!TypeOK /\ Work!SprintNumbersApart /\ Work!RoleWasHeld /\ Work!CountsAddUp
BY DEF WorkInv, WorkRows, Credited, Counted, Work!RoleWasHeld, Work!CountsAddUp

-----------------------------------------------------------------------------
(* CrmSettings.  The inductive invariant.                                  *)

\* Ids have been given out, those of sections long deleted too.
CrmRows ==
    /\ nextId \in Nat \ {0}
    /\ \A f \in fields : f.id \in 1 .. nextId - 1
    /\ \A s \in sections : s.id \in 1 .. nextId - 1
    /\ \A l \in layout : l[1] \in 1 .. nextId - 1
    /\ \A r \in Requests : \A s \in placed[r].sections : s.id \in 1 .. nextId - 1
    /\ records \subseteq RecordIds

CrmDomains ==
    /\ DOMAIN pc = Requests /\ DOMAIN req = Requests /\ DOMAIN answer = Requests
    /\ DOMAIN known = Requests /\ DOMAIN placed = Requests /\ DOMAIN latest = Crm!Replacements
    /\ \A r \in Requests :
        /\ known[r] = [parents |-> known[r].parents, sections |-> known[r].sections, fields |-> known[r].fields]
        /\ placed[r] = [fields |-> placed[r].fields, sections |-> placed[r].sections]

\* Which handler a request at a call is in.
PipelinePhases == {"pipeline_ids", "drop_stages", "drop_pipelines", "insert_pipelines", "insert_stages"}
DropPhases == {"field_ids", "section_ids", "drop_layout", "drop_sections", "drop_options", "drop_fields"}
FieldPhases == DropPhases \cup {"insert_fields", "insert_sections", "insert_layout"}
CrmStage(r) ==
    /\ pc[r] # "done" => answer[r] = "none"
    /\ pc[r] \in PipelinePhases => req[r].op = "set_pipelines"
    /\ pc[r] \in FieldPhases =>
        req[r] \in CrmInputs /\ req[r].op = "set_fields" /\ req[r].arg # "too_large"
    /\ pc[r] = "call" => req[r].op \notin Crm!Replacements
    /\ r \in marred => pc[r] # "idle" /\ req[r].op \in tangled

\* Replacements of a kind that run at once are both marred, and so is the last
\* to arrive as long as another runs.
CrmRivals ==
    /\ \A r, q \in Requests :
        Crm!Active(r) /\ Crm!Active(q) /\ r # q /\ req[r].op = req[q].op /\ req[r].op \in Crm!Replacements => r \in marred
    /\ \A r \in Requests : Crm!Active(r) /\ req[r].op \in Crm!Replacements =>
        latest[req[r].op] = r \/ {r, latest[req[r].op]} \subseteq marred
    /\ \A op \in Crm!Replacements : latest[op] \in Requests => req[latest[op]].op = op /\ pc[latest[op]] # "idle"

\* What a replacement of pipelines without a mishap of its own finds.
PipelinesInForce(P) ==
    /\ pipelines = Crm!NewPipelines(P)
    /\ Crm!NewStages(P) \subseteq stages
    /\ "set_pipelines" \notin tangled => stages = Crm!NewStages(P)
PipelineStage(r) == r \notin marred =>
    /\ pc[r] \in {"drop_stages", "drop_pipelines"} => known[r].parents = pipelines
    /\ pc[r] = "insert_pipelines" => pipelines = {}
    /\ pc[r] = "insert_stages" => pipelines = Crm!NewPipelines(Crm!Payload(r))
    /\ pc[r] \in {"drop_pipelines", "insert_pipelines", "insert_stages"} /\ "set_pipelines" \notin tangled =>
        stages = {}
    /\ latest["set_pipelines"] = r /\ answer[r] = "ok" => PipelinesInForce(Crm!Payload(r))
StagesPlaced == "set_pipelines" \notin tangled => \A s \in stages : s[1] \in pipelines

\* And one of fields.
FieldIds == {f.id : f \in fields}
SectionIds == {s.id : s \in sections}
Lists(P) ==
    /\ Len(P.fields) \in Nat /\ DOMAIN P.fields = 1 .. Len(P.fields)
    /\ Len(P.sections) \in Nat /\ DOMAIN P.sections = 1 .. Len(P.sections)
FieldsAsked(P) ==
    /\ Crm!RowPerEntry(fields, Crm!Labelled(P))
    /\ \A f \in fields : f.key = P.fields[f.order].key
SectionsAsked(P) ==
    /\ Crm!RowPerEntry(sections, DOMAIN P.sections)
    /\ \A s \in sections : s.name = Crm!SectionName(P.sections[s.order])
    /\ \A s, t \in sections : s.id = t.id => s = t
FieldsInForce(P) ==
    /\ Lists(P) /\ FieldsAsked(P) /\ SectionsAsked(P)
    /\ {l \in layout : l[1] \in SectionIds} = Crm!LayoutRows(P, fields, sections)
FieldStage(r) == r \notin marred =>
    /\ pc[r] \in {"drop_options", "drop_fields", "insert_fields", "insert_sections"} => sections = {}
    /\ pc[r] = "insert_fields" => fields = {}
    /\ pc[r] \in {"insert_sections", "insert_layout"} => fields = placed[r].fields /\ FieldsAsked(Crm!Payload(r))
    /\ pc[r] = "insert_layout" =>
        /\ sections = placed[r].sections /\ SectionsAsked(Crm!Payload(r))
        /\ \A l \in layout : l[1] \notin SectionIds
    /\ "set_fields" \notin tangled =>
        /\ pc[r] \in {"section_ids", "drop_layout", "drop_sections", "drop_options"} => known[r].fields = FieldIds
        /\ pc[r] = "drop_layout" => known[r].sections = SectionIds
        /\ pc[r] \in {"drop_sections", "drop_options", "drop_fields"} => layout = {}
        /\ pc[r] = "drop_fields" => options = {}
    /\ latest["set_fields"] = r /\ answer[r] = "ok" => FieldsInForce(Crm!Payload(r))
LayoutPlaced == "set_fields" \notin tangled =>
    /\ \A l \in layout : l[1] \in SectionIds /\ l[2] \in FieldIds
    /\ options \subseteq FieldIds

CrmInv ==
    /\ CrmRows /\ CrmDomains /\ CrmRivals /\ StagesPlaced /\ LayoutPlaced
    /\ \A r \in Requests : CrmStage(r) /\ PipelineStage(r) /\ FieldStage(r)

-----------------------------------------------------------------------------
(* Steps, as the requests see them.                                        *)

\* Nothing of the other requests changes.
CrmAlone(r) ==
    /\ CrmDomains'
    /\ \A q \in Requests \ {r} :
        /\ pc'[q] = pc[q] /\ req'[q] = req[q] /\ answer'[q] = answer[q]
        /\ known'[q] = known[q] /\ placed'[q] = placed[q]

\* The request goes on or is answered; what went wrong is remembered.
CrmGoes(r) ==
    /\ CrmAlone(r) /\ Crm!Active(r) /\ req'[r] = req[r] /\ pc'[r] # "idle"
    /\ pc'[r] # "done" => answer'[r] = answer[r]
CrmMars(r, reply) ==
    /\ latest' = latest
    /\ reply = "ok" => marred' = marred /\ tangled' = tangled
    /\ reply # "ok" => marred' = marred \cup {r} /\ tangled' = tangled \cup {req[r].op}

PipelineMove(r, reply) ==
    /\ CrmGoes(r) /\ CrmMars(r, reply) /\ UNCHANGED <<Crm!fieldTables, records>>
    /\ pc[r] \in PipelinePhases /\ pc'[r] \in PipelinePhases \cup {"done"} /\ placed'[r] = placed[r]
FieldMove(r, reply) ==
    /\ CrmGoes(r) /\ CrmMars(r, reply) /\ UNCHANGED Crm!pipelineTables
    /\ pc[r] \in FieldPhases /\ pc'[r] \in FieldPhases \cup {"done"}

LEMMA PipelineFrame ==
  ASSUME NEW q \in Requests, PipelineStage(q), UNCHANGED Crm!pipelineTables,
         pc'[q] = pc[q], req'[q] = req[q], answer'[q] = answer[q], known'[q] = known[q],
         q \notin marred' => q \notin marred,
         "set_pipelines" \notin tangled' => "set_pipelines" \notin tangled,
         latest'["set_pipelines"] = q => latest["set_pipelines"] = q
  PROVE  PipelineStage(q)'
BY DEF PipelineStage, PipelinesInForce, Crm!pipelineTables, Crm!Payload

LEMMA FieldFrame ==
  ASSUME NEW q \in Requests, FieldStage(q), UNCHANGED Crm!fieldTables,
         pc'[q] = pc[q], req'[q] = req[q], answer'[q] = answer[q], known'[q] = known[q], placed'[q] = placed[q],
         q \notin marred' => q \notin marred,
         "set_fields" \notin tangled' => "set_fields" \notin tangled,
         latest'["set_fields"] = q => latest["set_fields"] = q
  PROVE  FieldStage(q)'
<1>1. /\ fields' = fields /\ sections' = sections /\ layout' = layout /\ options' = options
      /\ Crm!Payload(q)' = Crm!Payload(q) /\ FieldIds' = FieldIds /\ SectionIds' = SectionIds
  BY DEF Crm!fieldTables, Crm!Payload, FieldIds, SectionIds
<1>2. \A P : /\ FieldsAsked(P)' <=> FieldsAsked(P)
             /\ SectionsAsked(P)' <=> SectionsAsked(P)
             /\ FieldsInForce(P)' <=> FieldsInForce(P)
  BY <1>1 DEF FieldsAsked, SectionsAsked, FieldsInForce, Crm!RowPerEntry
<1> QED BY <1>1, <1>2 DEF FieldStage

\* Requests of other kinds, and those of this kind that are marred, see nothing
\* of a replacement's steps.
LEMMA CrmRivalsKept ==
  ASSUME CrmInv, NEW r \in Requests, CrmGoes(r), latest' = latest, marred \subseteq marred'
  PROVE  CrmRivals'
BY DEF CrmInv, CrmRivals, CrmGoes, CrmAlone, Crm!Active

LEMMA CrmStageKept ==
  ASSUME CrmInv, NEW r \in Requests, NEW reply, CrmGoes(r), CrmMars(r, reply), NEW q \in Requests,
         q = r => CrmStage(q)'
  PROVE  CrmStage(q)'
BY DEF CrmInv, CrmStage, CrmGoes, CrmAlone, CrmMars

LEMMA PipelineMoves ==
  ASSUME CrmInv, NEW r \in Requests, NEW reply, PipelineMove(r, reply),
         reply = "ok" => StagesPlaced' /\ PipelineStage(r)'
  PROVE  CrmInv'
<1>1. /\ CrmGoes(r) /\ CrmAlone(r) /\ CrmMars(r, reply) /\ CrmStage(r) /\ req[r].op = "set_pipelines" /\ Crm!Active(r)
      /\ marred \subseteq marred' /\ tangled \subseteq tangled' /\ latest' = latest
      /\ "set_fields" \notin tangled' <=> "set_fields" \notin tangled
      /\ fields' = fields /\ sections' = sections /\ layout' = layout /\ options' = options /\ nextId' = nextId
      /\ records' = records
  BY DEF PipelineMove, CrmInv, CrmGoes, CrmMars, CrmStage, Crm!fieldTables
<1>2. CrmRows' /\ CrmDomains' /\ CrmRivals' /\ LayoutPlaced'
  BY <1>1, CrmRivalsKept DEF CrmInv, CrmRows, PipelineMove, CrmAlone, LayoutPlaced, SectionIds, FieldIds
<1>3. CrmStage(r)'
  BY <1>1 DEF PipelineMove, CrmGoes, CrmMars, CrmStage, PipelinePhases, FieldPhases, DropPhases
<1>4. StagesPlaced' /\ PipelineStage(r)'
  BY <1>1 DEF CrmMars, StagesPlaced, PipelineStage
<1>5. latest["set_fields"] # r /\ FieldStage(r)
  BY <1>1 DEF CrmInv, CrmRivals, Crm!Replacements
<1>6. FieldStage(r)'
  BY <1>1, <1>5 DEF PipelineMove, FieldStage, PipelinePhases
<1>7. ASSUME NEW q \in Requests, q # r
      PROVE  PipelineStage(q)' /\ FieldStage(q)'
  <2>1. FieldStage(q)'
    BY <1>1, <1>7, FieldFrame DEF CrmInv, PipelineMove, CrmAlone
  <2>2. CASE q \in marred
    BY <1>1, <2>1, <2>2 DEF PipelineStage
  <2>3. CASE q \notin marred
    <3>1. latest["set_pipelines"] # q /\ pc[q] \notin PipelinePhases
      BY <1>1, <1>7, <2>3 DEF CrmInv, CrmRivals, CrmStage, Crm!Replacements, Crm!Active, PipelinePhases
    <3> QED BY <1>1, <1>7, <2>1, <3>1 DEF CrmAlone, PipelineStage, PipelinePhases
  <2> QED BY <2>2, <2>3
<1> QED BY <1>1, <1>2, <1>3, <1>4, <1>6, <1>7, CrmStageKept DEF CrmInv

LEMMA FieldMoves ==
  ASSUME CrmInv, NEW r \in Requests, NEW reply, FieldMove(r, reply), CrmRows',
         reply = "ok" => LayoutPlaced' /\ FieldStage(r)'
  PROVE  CrmInv'
<1>1. /\ CrmGoes(r) /\ CrmAlone(r) /\ CrmMars(r, reply) /\ CrmStage(r) /\ req[r].op = "set_fields" /\ Crm!Active(r)
      /\ marred \subseteq marred' /\ tangled \subseteq tangled' /\ latest' = latest
      /\ "set_pipelines" \notin tangled' <=> "set_pipelines" \notin tangled
      /\ pipelines' = pipelines /\ stages' = stages
  BY DEF FieldMove, CrmInv, CrmGoes, CrmMars, CrmStage, Crm!pipelineTables
<1>2. CrmDomains' /\ CrmRivals' /\ StagesPlaced'
  BY <1>1, CrmRivalsKept DEF CrmInv, CrmAlone, StagesPlaced
<1>3. CrmStage(r)'
  BY <1>1 DEF FieldMove, CrmGoes, CrmMars, CrmStage, PipelinePhases, FieldPhases, DropPhases
<1>4. LayoutPlaced' /\ FieldStage(r)'
  BY <1>1 DEF CrmMars, LayoutPlaced, FieldStage
<1>5. latest["set_pipelines"] # r /\ PipelineStage(r)
  BY <1>1 DEF CrmInv, CrmRivals, Crm!Replacements
<1>6. PipelineStage(r)'
  BY <1>1, <1>5 DEF FieldMove, PipelineStage, FieldPhases, DropPhases
<1>7. ASSUME NEW q \in Requests, q # r
      PROVE  PipelineStage(q)' /\ FieldStage(q)'
  <2>1. PipelineStage(q)'
    BY <1>1, <1>7, PipelineFrame DEF CrmInv, FieldMove, CrmAlone
  <2>2. CASE q \in marred
    BY <1>1, <2>1, <2>2 DEF FieldStage
  <2>3. CASE q \notin marred
    <3>1. latest["set_fields"] # q /\ pc[q] \notin FieldPhases
      BY <1>1, <1>7, <2>3 DEF CrmInv, CrmRivals, CrmStage, Crm!Replacements, Crm!Active, FieldPhases, DropPhases
    <3> QED BY <1>1, <1>7, <2>1, <3>1 DEF CrmAlone, FieldStage, FieldPhases, DropPhases
  <2> QED BY <2>2, <2>3
<1> QED BY <1>1, <1>2, <1>3, <1>4, <1>6, <1>7, CrmStageKept DEF CrmInv

-----------------------------------------------------------------------------
(* The steps themselves.                                                   *)

LEMMA CrmMarring ==
  ASSUME NEW r, NEW reply, Crm!Mar(req[r].op, IF reply = "ok" THEN {} ELSE {r}), UNCHANGED latest
  PROVE  CrmMars(r, reply)
BY DEF Crm!Mar, CrmMars

\* What a request has read or been returned, and nothing of another.
CrmNotes(r) ==
    /\ known' = known \/ (\E x : known' = [known EXCEPT ![r].parents = x])
                      \/ (\E x : known' = [known EXCEPT ![r].sections = x])
                      \/ (\E x : known' = [known EXCEPT ![r].fields = x])
    /\ placed' = placed \/ (\E x : placed' = [placed EXCEPT ![r].fields = x])
                        \/ (\E x : placed' = [placed EXCEPT ![r].sections = x])

LEMMA CrmNoted ==
  ASSUME CrmDomains, NEW r \in Requests, CrmNotes(r)
  PROVE  /\ DOMAIN known' = Requests /\ DOMAIN placed' = Requests
         /\ \A q \in Requests :
            /\ known'[q] = [parents |-> known'[q].parents, sections |-> known'[q].sections, fields |-> known'[q].fields]
            /\ placed'[q] = [fields |-> placed'[q].fields, sections |-> placed'[q].sections]
         /\ \A q \in Requests \ {r} : known'[q] = known[q] /\ placed'[q] = placed[q]
<1>1. /\ DOMAIN known' = Requests
      /\ \A q \in Requests :
            known'[q] = [parents |-> known'[q].parents, sections |-> known'[q].sections, fields |-> known'[q].fields]
      /\ \A q \in Requests \ {r} : known'[q] = known[q]
  <2>1. CASE known' = known
    BY <2>1 DEF CrmDomains
  <2>2. ASSUME NEW x, known' = [known EXCEPT ![r].parents = x]
        PROVE  <1>1!1 /\ <1>1!2 /\ <1>1!3
    BY <2>2 DEF CrmDomains
  <2>3. ASSUME NEW x, known' = [known EXCEPT ![r].sections = x]
        PROVE  <1>1!1 /\ <1>1!2 /\ <1>1!3
    BY <2>3 DEF CrmDomains
  <2>4. ASSUME NEW x, known' = [known EXCEPT ![r].fields = x]
        PROVE  <1>1!1 /\ <1>1!2 /\ <1>1!3
    BY <2>4 DEF CrmDomains
  <2> QED BY <2>1, <2>2, <2>3, <2>4 DEF CrmNotes
<1>2. /\ DOMAIN placed' = Requests
      /\ \A q \in Requests : placed'[q] = [fields |-> placed'[q].fields, sections |-> placed'[q].sections]
      /\ \A q \in Requests \ {r} : placed'[q] = placed[q]
  <2>1. CASE placed' = placed
    BY <2>1 DEF CrmDomains
  <2>2. ASSUME NEW x, placed' = [placed EXCEPT ![r].sections = x]
        PROVE  <1>2!1 /\ <1>2!2 /\ <1>2!3
    BY <2>2 DEF CrmDomains
  <2>3. ASSUME NEW x, placed' = [placed EXCEPT ![r].fields = x]
        PROVE  <1>2!1 /\ <1>2!2 /\ <1>2!3
    BY <2>3 DEF CrmDomains
  <2> QED BY <2>1, <2>2, <2>3 DEF CrmNotes
<1> QED BY <1>1, <1>2

\* A step of a request that has arrived.
LEMMA CrmGoing ==
  ASSUME CrmInv, NEW r \in Requests, Crm!Active(r), UNCHANGED <<req, latest>>, CrmNotes(r),
         NEW p, p # "idle", NEW a, Crm!Goto(r, p) \/ Crm!Reply(r, a)
  PROVE  /\ CrmGoes(r)
         /\ pc'[r] \in {p, "done"}
         /\ Crm!Goto(r, p) => pc'[r] = p /\ answer' = answer
         /\ Crm!Reply(r, a) => pc'[r] = "done" /\ answer'[r] = a
<1>1. CrmDomains
  BY DEF CrmInv
<1>2. /\ DOMAIN pc' = Requests /\ DOMAIN answer' = Requests /\ DOMAIN req' = Requests
      /\ \A q \in Requests \ {r} : pc'[q] = pc[q] /\ answer'[q] = answer[q] /\ req'[q] = req[q]
      /\ req'[r] = req[r] /\ DOMAIN latest' = Crm!Replacements
      /\ (pc'[r] = p /\ answer' = answer) \/ (pc'[r] = "done" /\ answer'[r] = a)
  <2>1. CASE Crm!Goto(r, p)
    BY <1>1, <2>1 DEF CrmDomains, Crm!Goto
  <2>2. CASE Crm!Reply(r, a)
    BY <1>1, <2>2 DEF CrmDomains, Crm!Reply
  <2> QED BY <2>1, <2>2
<1>3. Crm!Goto(r, p) => pc'[r] = p /\ answer' = answer
  BY <1>1 DEF CrmDomains, Crm!Goto
<1>4. Crm!Reply(r, a) => pc'[r] = "done" /\ answer'[r] = a
  BY <1>1 DEF CrmDomains, Crm!Reply
<1>5. CrmDomains'
  BY <1>1, <1>2, CrmNoted DEF CrmDomains
<1> QED BY <1>1, <1>2, <1>3, <1>4, <1>5, CrmNoted DEF CrmGoes, CrmAlone

LEMMA PipelineSteps ==
  ASSUME CrmInv, NEW r \in Requests, NEW reply, Crm!PipelineStep(r, reply), CrmMars(r, reply)
  PROVE  CrmInv'
<1> DEFINE P == Crm!Payload(r)
<1>0. /\ PipelineStage(r) /\ StagesPlaced /\ CrmDomains /\ CrmStage(r) /\ latest' = latest
      /\ reply = "ok" => marred' = marred /\ tangled' = tangled
  BY DEF CrmInv, CrmMars
<1>1. CASE Crm!ReadPipelineIds(r, reply)
  <2> DEFINE ids == Crm!Rows(reply, pipelines)
             p == IF ids = {} THEN "insert_pipelines" ELSE Crm!FirstDrop
  <2>1. /\ pc[r] = "pipeline_ids" /\ known' = [known EXCEPT ![r].parents = ids] /\ Crm!Goto(r, p)
        /\ UNCHANGED <<Crm!crmTables, req, placed>> /\ Crm!Active(r)
    BY <1>1 DEF Crm!ReadPipelineIds, Crm!Active
  <2>2. CrmNotes(r) /\ p \in {"insert_pipelines", "drop_stages"} /\ known'[r].parents = ids
    <3>1. CrmNotes(r)
      BY <2>1 DEF CrmNotes
    <3>2. known'[r].parents = ids
      BY <2>1, <1>0 DEF CrmDomains
    <3> QED BY <3>1, <3>2 DEF Crm!FirstDrop
  <2>3. CrmGoes(r) /\ pc'[r] = p /\ answer' = answer
    BY <1>0, <2>1, <2>2, CrmGoing
  <2>4. PipelineMove(r, reply) /\ pipelines' = pipelines /\ stages' = stages
    BY <2>1, <2>2, <2>3 DEF PipelineMove, PipelinePhases, Crm!crmTables, Crm!fieldTables, Crm!pipelineTables
  <2>5. ASSUME reply = "ok" PROVE StagesPlaced' /\ PipelineStage(r)'
    <3>1. ids = pipelines /\ p = IF pipelines = {} THEN "insert_pipelines" ELSE "drop_stages"
      BY <2>5 DEF Crm!Rows, Crm!FirstDrop
    <3>2. "set_pipelines" \notin tangled /\ pipelines = {} => stages = {}
      BY <1>0 DEF StagesPlaced
    <3> QED BY <1>0, <2>1, <2>2, <2>3, <2>4, <2>5, <3>1, <3>2 DEF StagesPlaced, PipelineStage, CrmStage
  <2> QED BY <2>4, <2>5, PipelineMoves
<1>2. CASE Crm!DropStages(r, reply)
  <2>1. /\ pc[r] = "drop_stages" /\ Crm!Active(r) /\ UNCHANGED <<req, latest, known, placed>> /\ Crm!Goto(r, "drop_pipelines")
        /\ UNCHANGED <<Crm!fieldTables, records>> /\ pipelines' = pipelines
        /\ stages' = Crm!Kept(reply, stages, {s \in stages : s[1] \notin known[r].parents})
    BY <1>0, <1>2 DEF Crm!DropStages, Crm!local, Crm!Active
  <2>2. CrmGoes(r) /\ pc'[r] = "drop_pipelines" /\ answer' = answer
    BY <1>0, <2>1, CrmGoing DEF CrmNotes
  <2>3. PipelineMove(r, reply)
    BY <2>1, <2>2 DEF PipelineMove, PipelinePhases
  <2>4. ASSUME reply = "ok" PROVE StagesPlaced' /\ PipelineStage(r)'
    <3>1. stages' = {s \in stages : s[1] \notin known[r].parents}
      BY <2>1, <2>4 DEF Crm!Kept, Crm!Effective
    <3>2. StagesPlaced'
      BY <1>0, <2>1, <2>4, <3>1 DEF StagesPlaced
    <3>3. r \notin marred /\ "set_pipelines" \notin tangled => stages' = {}
      BY <1>0, <2>1, <3>1 DEF StagesPlaced, PipelineStage
    <3> QED BY <1>0, <2>1, <2>2, <2>4, <3>2, <3>3 DEF PipelineStage, CrmStage
  <2> QED BY <2>3, <2>4, PipelineMoves
<1>3. CASE Crm!DropPipelines(r, reply)
  <2>1. /\ pc[r] = "drop_pipelines" /\ Crm!Active(r) /\ UNCHANGED <<req, latest, known, placed>> /\ Crm!Goto(r, "insert_pipelines")
        /\ UNCHANGED <<Crm!fieldTables, records>> /\ stages' = stages
        /\ pipelines' = Crm!Kept(reply, pipelines, pipelines \ known[r].parents)
    BY <1>0, <1>3 DEF Crm!DropPipelines, Crm!local, Crm!Active
  <2>2. CrmGoes(r) /\ pc'[r] = "insert_pipelines" /\ answer' = answer
    BY <1>0, <2>1, CrmGoing DEF CrmNotes
  <2>3. PipelineMove(r, reply)
    BY <2>1, <2>2 DEF PipelineMove, PipelinePhases
  <2>4. ASSUME reply = "ok" PROVE StagesPlaced' /\ PipelineStage(r)'
    <3>1. pipelines' = pipelines \ known[r].parents
      BY <2>1, <2>4 DEF Crm!Kept, Crm!Effective
    <3>2. "set_pipelines" \notin tangled => r \notin marred
      BY <1>0, <2>1 DEF CrmStage, PipelinePhases
    <3>3. "set_pipelines" \notin tangled => stages = {}
      BY <1>0, <2>1, <3>2 DEF PipelineStage
    <3>4. r \notin marred => pipelines' = {}
      BY <1>0, <2>1, <3>1 DEF PipelineStage
    <3> QED BY <1>0, <2>1, <2>2, <2>4, <3>3, <3>4 DEF PipelineStage, StagesPlaced, CrmStage
  <2> QED BY <2>3, <2>4, PipelineMoves
<1>4. CASE Crm!InsertPipelines(r, reply)
  <2>1. /\ pc[r] = "insert_pipelines" /\ Crm!Active(r) /\ UNCHANGED <<req, latest, known, placed>>
        /\ IF reply = "rejected" THEN Crm!Reply(r, "upstream") ELSE Crm!Goto(r, "insert_stages")
        /\ UNCHANGED <<Crm!fieldTables, records>> /\ stages' = stages
        /\ pipelines' = Crm!Kept(reply, pipelines, pipelines \cup Crm!NewPipelines(P))
    BY <1>0, <1>4 DEF Crm!InsertPipelines, Crm!local, Crm!Active
  <2>2. CrmGoes(r) /\ pc'[r] \in {"insert_stages", "done"} /\ (reply = "ok" => pc'[r] = "insert_stages" /\ answer' = answer)
    BY <1>0, <2>1, CrmGoing DEF CrmNotes
  <2>3. PipelineMove(r, reply)
    BY <2>1, <2>2 DEF PipelineMove, PipelinePhases
  <2>4. ASSUME reply = "ok" PROVE StagesPlaced' /\ PipelineStage(r)'
    <3>1. pipelines' = pipelines \cup Crm!NewPipelines(P)
      BY <2>1, <2>4 DEF Crm!Kept, Crm!Effective
    <3>2. StagesPlaced'
      BY <1>0, <2>1, <2>4, <3>1 DEF StagesPlaced
    <3>3. r \notin marred => pipelines' = Crm!NewPipelines(P)
      BY <1>0, <2>1, <3>1 DEF PipelineStage
    <3>4. Crm!Payload(r)' = P
      BY <2>1 DEF Crm!Payload
    <3> QED BY <1>0, <2>1, <2>2, <2>4, <3>2, <3>3, <3>4 DEF PipelineStage, CrmStage
  <2> QED BY <2>3, <2>4, PipelineMoves
<1>5. CASE Crm!InsertStages(r, reply)
  <2>1. /\ pc[r] = "insert_stages" /\ Crm!Active(r) /\ UNCHANGED <<req, latest, known, placed>>
        /\ Crm!Reply(r, IF reply = "rejected" THEN "upstream" ELSE "ok")
        /\ UNCHANGED <<Crm!fieldTables, records>> /\ pipelines' = pipelines
        /\ stages' = Crm!Kept(reply, stages, stages \cup Crm!NewStages(P))
    BY <1>0, <1>5 DEF Crm!InsertStages, Crm!local, Crm!Active
  <2>2. CrmGoes(r) /\ pc'[r] = "done"
    BY <1>0, <2>1, CrmGoing DEF CrmNotes
  <2>3. PipelineMove(r, reply)
    BY <2>1, <2>2 DEF PipelineMove, PipelinePhases
  <2>4. ASSUME reply = "ok" PROVE StagesPlaced' /\ PipelineStage(r)'
    <3>1. stages' = stages \cup Crm!NewStages(P)
      BY <2>1, <2>4 DEF Crm!Kept, Crm!Effective
    <3>2. \A s \in Crm!NewStages(P) : s[1] \in Crm!NewPipelines(P)
      BY DEF Crm!NewStages, Crm!NewPipelines
    <3>3. "set_pipelines" \notin tangled => r \notin marred
      BY <1>0, <2>1 DEF CrmStage, PipelinePhases
    <3>4. StagesPlaced'
      BY <1>0, <2>1, <2>4, <3>1, <3>2, <3>3 DEF StagesPlaced, PipelineStage
    <3>5. Crm!Payload(r)' = P
      BY <2>1 DEF Crm!Payload
    <3>6. r \notin marred => PipelinesInForce(P)'
      BY <1>0, <2>1, <2>4, <3>1, <3>5 DEF PipelineStage, PipelinesInForce
    <3> QED BY <1>0, <2>2, <2>4, <3>4, <3>5, <3>6 DEF PipelineStage
  <2> QED BY <2>3, <2>4, PipelineMoves
<1> QED BY <1>1, <1>2, <1>3, <1>4, <1>5 DEF Crm!PipelineStep

-----------------------------------------------------------------------------
(* Lists and their rows.                                                   *)

\* What a replacement brings are lists.
LEMMA AskedLists ==
  ASSUME NEW r \in Requests, CrmStage(r), pc[r] \in FieldPhases
  PROVE  Lists(Crm!Payload(r))
BY CrmAssumption DEF CrmStage, Crm!Payload, Lists

\* Of rows in the order of a list, one is the last.
LEMMA LastRow ==
  ASSUME NEW S, S # {}, NEW n \in Nat, \A x \in S : x.order \in 1 .. n
  PROVE  \E x \in S : x \in Crm!LastOf(S)
<1> DEFINE N == {x.order : x \in S}
<1>1. N \subseteq 1 .. n /\ N # {}
  OBVIOUS
<1>2. IsFiniteSet(N) /\ N \subseteq Nat
  <2>1. IsFiniteSet(1 .. n)
    BY FS_Interval
  <2> HIDE DEF N
  <2>2. IsFiniteSet(N)
    BY <1>1, <2>1, FS_Subset
  <2> QED BY <1>1, <2>2
<1>3. PICK m \in N : \A y \in N : y <= m
  <2> HIDE DEF N
  <2> QED BY <1>1, <1>2, FiniteMax
<1>4. PICK x \in S : x.order = m
  OBVIOUS
<1>5. \A y \in S : y.order <= x.order
  BY <1>3, <1>4
<1> QED BY <1>5 DEF Crm!LastOf

-----------------------------------------------------------------------------
(* The steps of a replacement of fields.                                   *)

LEMMA FieldDrops ==
  ASSUME CrmInv, NEW r \in Requests, NEW reply, CrmMars(r, reply),
         \/ Crm!ReadFieldIds(r, reply) \/ Crm!ReadSectionIds(r, reply) \/ Crm!DropLayout(r, reply)
         \/ Crm!DropSections(r, reply) \/ Crm!DropOptions(r, reply) \/ Crm!DropFields(r, reply)
  PROVE  CrmInv'
<1>0. /\ FieldStage(r) /\ LayoutPlaced /\ CrmDomains /\ CrmStage(r) /\ CrmRows /\ latest' = latest
      /\ reply = "ok" => marred' = marred /\ tangled' = tangled
  BY DEF CrmInv, CrmMars
<1>a. pc[r] \in FieldPhases /\ "set_fields" \notin tangled => r \notin marred
  BY <1>0 DEF CrmStage
<1>1. CASE Crm!ReadFieldIds(r, reply)
  <2>1. /\ pc[r] = "field_ids" /\ known' = [known EXCEPT ![r].fields = Crm!Rows(reply, FieldIds)] /\ Crm!Goto(r, "section_ids")
        /\ UNCHANGED <<Crm!crmTables, req, placed>> /\ Crm!Active(r)
    BY <1>1 DEF Crm!ReadFieldIds, FieldIds, Crm!Active
  <2>2. CrmNotes(r)
    BY <2>1 DEF CrmNotes
  <2>3. CrmGoes(r) /\ pc'[r] = "section_ids" /\ answer' = answer
    BY <1>0, <2>1, <2>2, CrmGoing
  <2>4. /\ FieldMove(r, reply) /\ CrmRows' /\ fields' = fields /\ sections' = sections
        /\ layout' = layout /\ options' = options
    BY <1>0, <2>1, <2>3 DEF FieldMove, FieldPhases, DropPhases, Crm!crmTables, Crm!fieldTables, CrmRows
  <2>5. ASSUME reply = "ok" PROVE LayoutPlaced' /\ FieldStage(r)'
    <3>1. known'[r].fields = FieldIds
      BY <1>0, <2>1, <2>5 DEF CrmDomains, Crm!Rows
    <3> QED BY <1>0, <2>1, <2>3, <2>4, <2>5, <3>1 DEF LayoutPlaced, FieldStage, CrmStage, FieldIds, SectionIds
  <2> QED BY <2>4, <2>5, FieldMoves
<1>2. CASE Crm!ReadSectionIds(r, reply)
  <2> DEFINE ids == Crm!Rows(reply, SectionIds)
             p == IF ids = {} THEN "drop_sections" ELSE "drop_layout"
  <2>1. /\ pc[r] = "section_ids" /\ known' = [known EXCEPT ![r].sections = ids] /\ Crm!Goto(r, p)
        /\ UNCHANGED <<Crm!crmTables, req, placed>> /\ Crm!Active(r)
    BY <1>2 DEF Crm!ReadSectionIds, SectionIds, Crm!Active
  <2>2. CrmNotes(r) /\ p # "idle" /\ p \in FieldPhases
    <3>1. CrmNotes(r)
      BY <2>1 DEF CrmNotes
    <3> QED BY <3>1 DEF FieldPhases, DropPhases
  <2>3. CrmGoes(r) /\ pc'[r] = p /\ answer' = answer
    BY <1>0, <2>1, <2>2, CrmGoing
  <2>4. /\ FieldMove(r, reply) /\ CrmRows' /\ fields' = fields /\ sections' = sections
        /\ layout' = layout /\ options' = options
    BY <1>0, <2>1, <2>2, <2>3 DEF FieldMove, FieldPhases, DropPhases, Crm!crmTables, Crm!fieldTables, CrmRows
  <2>5. ASSUME reply = "ok" PROVE LayoutPlaced' /\ FieldStage(r)'
    <3>1. known'[r].sections = SectionIds /\ known'[r].fields = known[r].fields
      BY <1>0, <2>1, <2>5 DEF CrmDomains, Crm!Rows
    <3>2. p = IF SectionIds = {} THEN "drop_sections" ELSE "drop_layout"
      BY <2>5 DEF Crm!Rows
    <3>3. "set_fields" \notin tangled /\ SectionIds = {} => layout = {}
      BY <1>0 DEF LayoutPlaced
    <3>4. FieldIds' = FieldIds /\ SectionIds' = SectionIds
      BY <2>4 DEF FieldIds, SectionIds
    <3>5. LayoutPlaced'
      BY <1>0, <2>4, <2>5, <3>4 DEF LayoutPlaced
    <3> QED BY <1>0, <2>1, <2>3, <2>4, <2>5, <3>1, <3>2, <3>3, <3>4, <3>5 DEF FieldStage, CrmStage
  <2> QED BY <2>4, <2>5, FieldMoves
<1>3. CASE Crm!DropLayout(r, reply)
  <2>1. /\ pc[r] = "drop_layout" /\ Crm!Active(r) /\ UNCHANGED <<req, latest, known, placed>> /\ Crm!Goto(r, "drop_sections")
        /\ UNCHANGED <<Crm!pipelineTables, fields, sections, options, nextId, records>>
        /\ layout' = Crm!Kept(reply, layout, {l \in layout : l[1] \notin known[r].sections})
    BY <1>0, <1>3 DEF Crm!DropLayout, Crm!local, Crm!Active
  <2>2. CrmGoes(r) /\ pc'[r] = "drop_sections" /\ answer' = answer
    BY <1>0, <2>1, CrmGoing DEF CrmNotes
  <2>3. FieldMove(r, reply)
    BY <2>1, <2>2 DEF FieldMove, FieldPhases, DropPhases
  <2>4. CrmRows'
    <3>1. layout' \subseteq layout
      BY <2>1 DEF Crm!Kept
    <3> QED BY <1>0, <2>1, <3>1 DEF CrmRows
  <2>5. ASSUME reply = "ok" PROVE LayoutPlaced' /\ FieldStage(r)'
    <3>1. layout' = {l \in layout : l[1] \notin known[r].sections}
      BY <2>1, <2>5 DEF Crm!Kept, Crm!Effective
    <3>2. FieldIds' = FieldIds /\ SectionIds' = SectionIds
      BY <2>1 DEF FieldIds, SectionIds
    <3>3. LayoutPlaced'
      BY <1>0, <2>1, <2>5, <3>1, <3>2 DEF LayoutPlaced
    <3>4. "set_fields" \notin tangled => layout' = {}
      BY <1>0, <1>a, <2>1, <3>1 DEF LayoutPlaced, FieldStage, FieldPhases, DropPhases
    <3> QED BY <1>0, <2>1, <2>2, <2>5, <3>2, <3>3, <3>4 DEF FieldStage, CrmStage
  <2> QED BY <2>3, <2>4, <2>5, FieldMoves
<1>4. CASE Crm!DropSections(r, reply)
  <2> DEFINE p == IF known[r].fields = {} THEN "drop_fields" ELSE "drop_options"
  <2>1. /\ pc[r] = "drop_sections" /\ Crm!Active(r) /\ UNCHANGED <<req, latest, known, placed>> /\ Crm!Goto(r, p)
        /\ UNCHANGED <<Crm!pipelineTables, fields, layout, options, nextId, records>>
        /\ sections' = Crm!Kept(reply, sections, {})
    BY <1>0, <1>4 DEF Crm!DropSections, Crm!local, Crm!Active
  <2>2. CrmGoes(r) /\ pc'[r] = p /\ answer' = answer
    BY <1>0, <2>1, CrmGoing DEF CrmNotes
  <2>3. FieldMove(r, reply)
    BY <2>1, <2>2 DEF FieldMove, FieldPhases, DropPhases
  <2>4. CrmRows'
    <3>1. sections' \subseteq sections
      BY <2>1 DEF Crm!Kept
    <3> QED BY <1>0, <2>1, <3>1 DEF CrmRows
  <2>5. ASSUME reply = "ok" PROVE LayoutPlaced' /\ FieldStage(r)'
    <3>1. sections' = {} /\ FieldIds' = FieldIds
      BY <2>1, <2>5 DEF Crm!Kept, Crm!Effective, FieldIds
    <3>2. "set_fields" \notin tangled => layout = {} /\ known[r].fields = FieldIds
      BY <1>0, <1>a, <2>1 DEF FieldStage, FieldPhases, DropPhases
    <3>3. "set_fields" \notin tangled /\ known[r].fields = {} => options = {}
      BY <1>0, <3>2 DEF LayoutPlaced
    <3>4. LayoutPlaced'
      BY <1>0, <2>1, <2>5, <3>1, <3>2 DEF LayoutPlaced
    <3> QED BY <1>0, <2>1, <2>2, <2>5, <3>1, <3>2, <3>3, <3>4 DEF FieldStage, CrmStage
  <2> QED BY <2>3, <2>4, <2>5, FieldMoves
<1>5. CASE Crm!DropOptions(r, reply)
  <2>1. /\ pc[r] = "drop_options" /\ Crm!Active(r) /\ UNCHANGED <<req, latest, known, placed>> /\ Crm!Goto(r, "drop_fields")
        /\ UNCHANGED <<Crm!pipelineTables, fields, sections, layout, nextId, records>>
        /\ options' = Crm!Kept(reply, options, options \ known[r].fields)
    BY <1>0, <1>5 DEF Crm!DropOptions, Crm!local, Crm!Active
  <2>2. CrmGoes(r) /\ pc'[r] = "drop_fields" /\ answer' = answer
    BY <1>0, <2>1, CrmGoing DEF CrmNotes
  <2>3. FieldMove(r, reply)
    BY <2>1, <2>2 DEF FieldMove, FieldPhases, DropPhases
  <2>4. CrmRows'
    BY <1>0, <2>1 DEF CrmRows
  <2>5. ASSUME reply = "ok" PROVE LayoutPlaced' /\ FieldStage(r)'
    <3>1. options' = options \ known[r].fields
      BY <2>1, <2>5 DEF Crm!Kept, Crm!Effective
    <3>2. FieldIds' = FieldIds /\ SectionIds' = SectionIds
      BY <2>1 DEF FieldIds, SectionIds
    <3>3. LayoutPlaced'
      BY <1>0, <2>1, <2>5, <3>1, <3>2 DEF LayoutPlaced
    <3>4. "set_fields" \notin tangled => options' = {}
      BY <1>0, <1>a, <2>1, <3>1 DEF LayoutPlaced, FieldStage, FieldPhases, DropPhases
    <3> QED BY <1>0, <2>1, <2>2, <2>5, <3>2, <3>3, <3>4 DEF FieldStage, CrmStage
  <2> QED BY <2>3, <2>4, <2>5, FieldMoves
<1>6. CASE Crm!DropFields(r, reply)
  <2>1. /\ pc[r] = "drop_fields" /\ Crm!Active(r) /\ UNCHANGED <<req, latest, known, placed>> /\ Crm!Goto(r, "insert_fields")
        /\ UNCHANGED <<Crm!pipelineTables, sections, layout, options, nextId, records>>
        /\ fields' = Crm!Kept(reply, fields, {})
    BY <1>0, <1>6 DEF Crm!DropFields, Crm!local, Crm!Active
  <2>2. CrmGoes(r) /\ pc'[r] = "insert_fields" /\ answer' = answer
    BY <1>0, <2>1, CrmGoing DEF CrmNotes
  <2>3. FieldMove(r, reply)
    BY <2>1, <2>2 DEF FieldMove, FieldPhases, DropPhases
  <2>4. CrmRows'
    <3>1. fields' \subseteq fields
      BY <2>1 DEF Crm!Kept
    <3> QED BY <1>0, <2>1, <3>1 DEF CrmRows
  <2>5. ASSUME reply = "ok" PROVE LayoutPlaced' /\ FieldStage(r)'
    <3>1. fields' = {}
      BY <2>1, <2>5 DEF Crm!Kept, Crm!Effective
    <3>2. "set_fields" \notin tangled => layout = {} /\ options = {}
      BY <1>0, <1>a, <2>1 DEF FieldStage, FieldPhases, DropPhases
    <3>3. LayoutPlaced'
      BY <1>0, <2>1, <2>5, <3>1, <3>2 DEF LayoutPlaced
    <3> QED BY <1>0, <2>1, <2>2, <2>5, <3>1, <3>3 DEF FieldStage, CrmStage
  <2> QED BY <2>3, <2>4, <2>5, FieldMoves
<1> QED BY <1>1, <1>2, <1>3, <1>4, <1>5, <1>6

LEMMA FieldInserts ==
  ASSUME CrmInv, NEW r \in Requests, NEW reply, CrmMars(r, reply), Crm!InsertFields(r, reply)
  PROVE  CrmInv'
<1> DEFINE P == Crm!Payload(r)
           rows == Crm!FieldRows(P)
           a == Crm!Refusal(reply)
<1>1. /\ FieldStage(r) /\ LayoutPlaced /\ CrmDomains /\ CrmStage(r) /\ CrmRows /\ latest' = latest
      /\ reply = "ok" => marred' = marred /\ tangled' = tangled
  BY DEF CrmInv, CrmMars
<1>2. /\ pc[r] = "insert_fields" /\ pc[r] \in FieldPhases /\ Crm!Active(r)
      /\ fields' = Crm!Kept(reply, fields, fields \cup rows)
      /\ nextId' = nextId + Len(P.fields) + 1
      /\ placed' = [placed EXCEPT ![r].fields = Crm!Rows(reply, rows)]
      /\ IF Crm!Success(reply) THEN Crm!Goto(r, "insert_sections") ELSE Crm!Reply(r, a)
      /\ UNCHANGED <<Crm!pipelineTables, sections, layout, options, records, req, known>>
  BY DEF Crm!InsertFields, Crm!Active, FieldPhases
<1>3. CrmNotes(r) /\ placed'[r].fields = Crm!Rows(reply, rows) /\ placed'[r].sections = placed[r].sections
  <2>1. CrmNotes(r)
    BY <1>2 DEF CrmNotes
  <2> QED BY <1>1, <1>2, <2>1 DEF CrmDomains
<1>4. /\ CrmGoes(r) /\ pc'[r] \in {"insert_sections", "done"}
      /\ reply = "ok" => pc'[r] = "insert_sections" /\ answer' = answer
  BY <1>1, <1>2, <1>3, CrmGoing DEF Crm!Success
<1>5. FieldMove(r, reply)
  BY <1>2, <1>4 DEF FieldMove, FieldPhases
<1>6. Lists(P) /\ nextId \in Nat \ {0} /\ P' = P
  BY <1>1, <1>2, AskedLists DEF CrmRows, Crm!Payload
<1> HIDE DEF P
<1>7. /\ \A f \in rows : /\ f.order \in Crm!Labelled(P) /\ f.order \in 1 .. Len(P.fields)
                         /\ f = [id |-> nextId + f.order, key |-> P.fields[f.order].key, order |-> f.order]
      /\ \A i \in Crm!Labelled(P) : \E f \in rows : f.order = i
  <2> DEFINE row(i) == [id |-> nextId + i, key |-> P.fields[i].key, order |-> i]
  <2>1. rows = {row(i) : i \in Crm!Labelled(P)}
    BY DEF Crm!FieldRows
  <2>2. \A i : row(i).order = i
    OBVIOUS
  <2>3. \A i \in Crm!Labelled(P) : i \in 1 .. Len(P.fields)
    BY <1>6 DEF Crm!Labelled, Lists
  <2>4. \A f \in rows : \E i \in Crm!Labelled(P) : f = row(i)
    BY <2>1
  <2>5. \A i \in Crm!Labelled(P) : row(i) \in rows
    BY <2>1
  <2> HIDE DEF row, rows
  <2>6. \A f \in rows : f.order \in Crm!Labelled(P) /\ f = row(f.order)
    BY <2>2, <2>4
  <2>7. \A i \in Crm!Labelled(P) : \E f \in rows : f.order = i
    BY <2>2, <2>5
  <2> QED BY <2>3, <2>6, <2>7 DEF row
<1> HIDE DEF rows
<1>8. CrmRows'
  <2>1. \A f \in rows : f.id \in 1 .. nextId' - 1
    <3> SUFFICES ASSUME NEW f \in rows PROVE f.id \in 1 .. nextId' - 1
      OBVIOUS
    <3>1. f.id = nextId + f.order /\ f.order \in 1 .. Len(P.fields)
      BY <1>7
    <3> QED BY <1>2, <1>6, <3>1 DEF Lists
  <2>2. nextId' \in Nat \ {0} /\ 1 .. nextId - 1 \subseteq 1 .. nextId' - 1
    BY <1>2, <1>6 DEF Lists
  <2>3. fields' \subseteq fields \cup rows
    BY <1>2 DEF Crm!Kept
  <2>4. \A q \in Requests : placed'[q].sections = placed[q].sections
    BY <1>3, <1>4 DEF CrmGoes, CrmAlone
  <2>5. \A f \in fields' : f.id \in 1 .. nextId' - 1
    BY <1>1, <2>1, <2>2, <2>3 DEF CrmRows
  <2>6. /\ \A s \in sections' : s.id \in 1 .. nextId' - 1
        /\ \A l \in layout' : l[1] \in 1 .. nextId' - 1
        /\ \A q \in Requests : \A s \in placed'[q].sections : s.id \in 1 .. nextId' - 1
    BY <1>1, <1>2, <2>2, <2>4 DEF CrmRows
  <2> QED BY <1>1, <1>2, <2>2, <2>5, <2>6 DEF CrmRows
<1>9. ASSUME reply = "ok" PROVE LayoutPlaced' /\ FieldStage(r)'
  <2>1. fields' = fields \cup rows /\ placed'[r].fields = rows
    BY <1>2, <1>3, <1>9 DEF Crm!Kept, Crm!Effective, Crm!Rows
  <2>2. FieldIds \subseteq FieldIds' /\ SectionIds' = SectionIds
    BY <1>2, <2>1 DEF FieldIds, SectionIds
  <2>3. LayoutPlaced'
    BY <1>1, <1>2, <1>9, <2>2 DEF LayoutPlaced
  <2>4. r \notin marred => fields' = rows /\ sections' = {}
    BY <1>1, <1>2, <2>1 DEF FieldStage
  <2>5. Crm!RowPerEntry(rows, Crm!Labelled(P)) /\ \A f \in rows : f.key = P.fields[f.order].key
    <3>1. {f.order : f \in rows} = Crm!Labelled(P)
      BY <1>7
    <3>2. ASSUME NEW x \in rows, NEW y \in rows, x.order = y.order PROVE x = y
      <4>1. /\ x = [id |-> nextId + x.order, key |-> P.fields[x.order].key, order |-> x.order]
            /\ y = [id |-> nextId + y.order, key |-> P.fields[y.order].key, order |-> y.order]
        BY <1>7
      <4> QED BY <3>2, <4>1
    <3>3. \A f \in rows : f.key = P.fields[f.order].key
      BY <1>7
    <3> QED BY <3>1, <3>2, <3>3 DEF Crm!RowPerEntry
  <2>6. r \notin marred => FieldsAsked(P)'
    BY <1>6, <2>4, <2>5 DEF FieldsAsked
  <2> QED BY <1>1, <1>2, <1>4, <1>9, <2>1, <2>3, <2>4, <2>6 DEF FieldStage, CrmStage, P
<1> QED BY <1>5, <1>8, <1>9, FieldMoves

LEMMA SectionInserts ==
  ASSUME CrmInv, NEW r \in Requests, NEW reply, CrmMars(r, reply), Crm!InsertSections(r, reply)
  PROVE  CrmInv'
<1> DEFINE P == Crm!Payload(r)
           rows == Crm!SectionRows(P)
           a == Crm!Refusal(reply)
<1>1. /\ FieldStage(r) /\ LayoutPlaced /\ CrmDomains /\ CrmStage(r) /\ CrmRows /\ latest' = latest
      /\ reply = "ok" => marred' = marred /\ tangled' = tangled
  BY DEF CrmInv, CrmMars
<1>2. /\ pc[r] = "insert_sections" /\ pc[r] \in FieldPhases /\ Crm!Active(r)
      /\ sections' = Crm!Kept(reply, sections, sections \cup rows)
      /\ nextId' = nextId + Len(P.sections) + 1
      /\ placed' = [placed EXCEPT ![r].sections = Crm!Rows(reply, rows)]
      /\ IF Crm!Success(reply) THEN Crm!Goto(r, "insert_layout") ELSE Crm!Reply(r, a)
      /\ UNCHANGED <<Crm!pipelineTables, fields, layout, options, records, req, known>>
  BY DEF Crm!InsertSections, Crm!Active, FieldPhases
<1>3. CrmNotes(r) /\ placed'[r].sections = Crm!Rows(reply, rows) /\ placed'[r].fields = placed[r].fields
  <2>1. CrmNotes(r)
    BY <1>2 DEF CrmNotes
  <2> QED BY <1>1, <1>2, <2>1 DEF CrmDomains
<1>4. /\ CrmGoes(r) /\ pc'[r] \in {"insert_layout", "done"}
      /\ reply = "ok" => pc'[r] = "insert_layout" /\ answer' = answer
  BY <1>1, <1>2, <1>3, CrmGoing DEF Crm!Success
<1>5. FieldMove(r, reply)
  BY <1>2, <1>4 DEF FieldMove, FieldPhases
<1>6. Lists(P) /\ nextId \in Nat \ {0} /\ P' = P
  BY <1>1, <1>2, AskedLists DEF CrmRows, Crm!Payload
<1> HIDE DEF P
<1>7. /\ \A s \in rows : /\ s.order \in DOMAIN P.sections /\ s.order \in 1 .. Len(P.sections)
                         /\ s = [id |-> nextId + s.order, name |-> Crm!SectionName(P.sections[s.order]), order |-> s.order]
      /\ \A i \in DOMAIN P.sections : \E s \in rows : s.order = i
  <2> DEFINE row(i) == [id |-> nextId + i, name |-> Crm!SectionName(P.sections[i]), order |-> i]
  <2>1. rows = {row(i) : i \in DOMAIN P.sections}
    BY DEF Crm!SectionRows
  <2>2. \A i : row(i).order = i
    OBVIOUS
  <2>3. \A i \in DOMAIN P.sections : i \in 1 .. Len(P.sections)
    BY <1>6 DEF Lists
  <2>4. \A s \in rows : \E i \in DOMAIN P.sections : s = row(i)
    BY <2>1
  <2>5. \A i \in DOMAIN P.sections : row(i) \in rows
    BY <2>1
  <2> HIDE DEF row, rows
  <2>6. \A s \in rows : s.order \in DOMAIN P.sections /\ s = row(s.order)
    BY <2>2, <2>4
  <2>7. \A i \in DOMAIN P.sections : \E s \in rows : s.order = i
    BY <2>2, <2>5
  <2> QED BY <2>3, <2>6, <2>7 DEF row
<1> HIDE DEF rows
<1>8. /\ \A s \in rows : s.id \in 1 .. nextId' - 1 /\ s.id >= nextId
      /\ \A s, t \in rows : s.id = t.id \/ s.order = t.order => s = t
  <2>1. ASSUME NEW s \in rows PROVE s.id \in 1 .. nextId' - 1 /\ s.id >= nextId
    <3>1. s.id = nextId + s.order /\ s.order \in 1 .. Len(P.sections)
      BY <1>7
    <3> QED BY <1>2, <1>6, <3>1 DEF Lists
  <2>2. ASSUME NEW s \in rows, NEW t \in rows, s.id = t.id \/ s.order = t.order PROVE s = t
    <3>1. /\ s = [id |-> nextId + s.order, name |-> Crm!SectionName(P.sections[s.order]), order |-> s.order]
          /\ t = [id |-> nextId + t.order, name |-> Crm!SectionName(P.sections[t.order]), order |-> t.order]
          /\ s.order \in Nat /\ t.order \in Nat /\ s.id = nextId + s.order /\ t.id = nextId + t.order
      BY <1>6, <1>7 DEF Lists
    <3>2. s.order = t.order
      BY <1>6, <2>2, <3>1
    <3> QED BY <3>1, <3>2
  <2> QED BY <2>1, <2>2
<1>9. CrmRows'
  <2>1. nextId' \in Nat \ {0} /\ 1 .. nextId - 1 \subseteq 1 .. nextId' - 1
    BY <1>2, <1>6 DEF Lists
  <2>2. sections' \subseteq sections \cup rows /\ placed'[r].sections \subseteq rows
    <3>1. sections' \subseteq sections \cup rows
      BY <1>2 DEF Crm!Kept
    <3>2. placed'[r].sections \subseteq rows
      BY <1>3 DEF Crm!Rows
    <3> QED BY <3>1, <3>2
  <2>3. \A q \in Requests \ {r} : placed'[q] = placed[q]
    BY <1>4 DEF CrmGoes, CrmAlone
  <2>4. \A s \in sections' : s.id \in 1 .. nextId' - 1
    BY <1>1, <1>8, <2>1, <2>2 DEF CrmRows
  <2>5. \A q \in Requests : \A s \in placed'[q].sections : s.id \in 1 .. nextId' - 1
    BY <1>1, <1>8, <2>1, <2>2, <2>3 DEF CrmRows
  <2>6. /\ \A f \in fields' : f.id \in 1 .. nextId' - 1
        /\ \A l \in layout' : l[1] \in 1 .. nextId' - 1
    BY <1>1, <1>2, <2>1 DEF CrmRows
  <2> QED BY <1>1, <1>2, <2>1, <2>4, <2>5, <2>6 DEF CrmRows
<1>10. ASSUME reply = "ok" PROVE LayoutPlaced' /\ FieldStage(r)'
  <2>1. sections' = sections \cup rows /\ placed'[r].sections = rows
    BY <1>2, <1>3, <1>10 DEF Crm!Kept, Crm!Effective, Crm!Rows
  <2>2. SectionIds \subseteq SectionIds' /\ FieldIds' = FieldIds
    BY <1>2, <2>1 DEF FieldIds, SectionIds
  <2>3. LayoutPlaced'
    BY <1>1, <1>2, <1>10, <2>2 DEF LayoutPlaced
  <2>4. r \notin marred => /\ sections' = rows
                           /\ fields' = placed'[r].fields /\ FieldsAsked(P)
    BY <1>1, <1>2, <1>3, <2>1 DEF FieldStage, P
  <2>5. r \notin marred => SectionsAsked(P)'
    <3>1. {s.order : s \in rows} = DOMAIN P.sections
      BY <1>7
    <3>2. Crm!RowPerEntry(rows, DOMAIN P.sections)
      BY <1>8, <3>1 DEF Crm!RowPerEntry
    <3>3. \A s \in rows : s.name = Crm!SectionName(P.sections[s.order])
      BY <1>7
    <3> QED BY <1>6, <1>8, <2>4, <3>2, <3>3 DEF SectionsAsked
  <2>6. r \notin marred => \A l \in layout' : l[1] \notin SectionIds'
    <3>1. \A l \in layout' : l[1] \in 1 .. nextId - 1
      BY <1>1, <1>2 DEF CrmRows
    <3>2. r \notin marred => \A i \in SectionIds' : ~(i \in 1 .. nextId - 1)
      BY <1>6, <1>8, <2>4 DEF SectionIds
    <3> QED BY <3>1, <3>2
  <2>7. FieldsAsked(P) => FieldsAsked(P)'
    BY <1>2, <1>6 DEF FieldsAsked
  <2> QED BY <1>1, <1>2, <1>4, <1>10, <2>1, <2>3, <2>4, <2>5, <2>6, <2>7 DEF FieldStage, CrmStage, P
<1> QED BY <1>5, <1>9, <1>10, FieldMoves

LEMMA LayoutInserts ==
  ASSUME CrmInv, NEW r \in Requests, NEW reply, CrmMars(r, reply), Crm!InsertLayout(r, reply)
  PROVE  CrmInv'
<1> DEFINE P == Crm!Payload(r)
           rows == Crm!LayoutRows(P, placed[r].fields, placed[r].sections)
<1>1. /\ FieldStage(r) /\ LayoutPlaced /\ CrmDomains /\ CrmStage(r) /\ CrmRows /\ latest' = latest
      /\ reply = "ok" => marred' = marred /\ tangled' = tangled
  BY DEF CrmInv, CrmMars
<1>2. /\ pc[r] = "insert_layout" /\ pc[r] \in FieldPhases /\ Crm!Active(r)
      /\ layout' = Crm!Kept(reply, layout, layout \cup rows) /\ Crm!Reply(r, "ok")
      /\ UNCHANGED <<Crm!pipelineTables, fields, sections, options, nextId, records, req, known, placed>>
  BY DEF Crm!InsertLayout, Crm!Active, FieldPhases, Crm!local
<1>3. CrmGoes(r) /\ pc'[r] = "done" /\ answer'[r] = "ok"
  BY <1>1, <1>2, CrmGoing DEF CrmNotes
<1>4. FieldMove(r, reply)
  BY <1>2, <1>3 DEF FieldMove, FieldPhases
<1>5. \A l \in rows : /\ \E s \in placed[r].sections : s.id = l[1]
                      /\ \E f \in placed[r].fields : f.id = l[2]
  BY DEF Crm!LayoutRows, Crm!ByName, Crm!ByKey, Crm!LastOf
<1>6. CrmRows'
  <2>1. layout' \subseteq layout \cup rows
    BY <1>2 DEF Crm!Kept
  <2> HIDE DEF rows
  <2> QED BY <1>1, <1>2, <1>5, <2>1 DEF CrmRows
<1>7. ASSUME reply = "ok" PROVE LayoutPlaced' /\ FieldStage(r)'
  <2>1. layout' = layout \cup rows /\ FieldIds' = FieldIds /\ SectionIds' = SectionIds /\ P' = P
    BY <1>2, <1>7 DEF Crm!Kept, Crm!Effective, FieldIds, SectionIds, Crm!Payload
  <2>2. r \notin marred =>
            /\ fields = placed[r].fields /\ sections = placed[r].sections
            /\ FieldsAsked(P) /\ SectionsAsked(P) /\ \A l \in layout : l[1] \notin SectionIds
    BY <1>1, <1>2 DEF FieldStage
  <2>a. Lists(P)
    BY <1>1, <1>2, AskedLists
  <2>3. "set_fields" \notin tangled => r \notin marred
    BY <1>1, <1>2 DEF CrmStage
  <2>4. r \notin marred => \A l \in rows : l[1] \in SectionIds /\ l[2] \in FieldIds
    BY <1>5, <2>2 DEF SectionIds, FieldIds
  <2> HIDE DEF P
  <2>5. LayoutPlaced'
    <3> HIDE DEF rows
    <3> QED BY <1>1, <1>2, <1>7, <2>1, <2>3, <2>4 DEF LayoutPlaced
  <2>6. r \notin marred => {l \in layout' : l[1] \in SectionIds'} = Crm!LayoutRows(P, fields', sections')
    <3>1. r \notin marred => rows = Crm!LayoutRows(P, fields', sections')
      BY <1>2, <2>2
    <3> HIDE DEF rows
    <3> QED BY <2>1, <2>2, <2>4, <3>1
  <2>7. r \notin marred => FieldsAsked(P)' /\ SectionsAsked(P)'
    BY <1>2, <2>1, <2>2 DEF FieldsAsked, SectionsAsked
  <2>8. r \notin marred => FieldsInForce(P)'
    BY <2>1, <2>a, <2>6, <2>7 DEF FieldsInForce
  <2> QED BY <1>1, <1>3, <1>7, <2>5, <2>8 DEF FieldStage, P
<1> QED BY <1>4, <1>6, <1>7, FieldMoves

-----------------------------------------------------------------------------
(* Arrivals, the handlers of one call, and clients that leave.             *)

LEMMA CrmArrives ==
  ASSUME CrmInv, NEW r \in Requests, NEW k \in CrmInputs, Crm!Arrive(r, k)
  PROVE  CrmInv'
<1> DEFINE p == CASE k.op = "set_pipelines" -> "pipeline_ids"
                  [] k.op = "set_fields" -> "field_ids"
                  [] OTHER -> "call"
<1>1. /\ pc[r] = "idle" /\ req' = [req EXCEPT ![r] = k] /\ UNCHANGED <<Crm!crmTables, known, placed>>
      /\ IF Crm!Unacceptable(k) THEN Crm!Reply(r, "bad_request") ELSE Crm!Goto(r, p)
      /\ CrmDomains /\ CrmRows /\ CrmRivals /\ CrmStage(r)
  BY DEF CrmInv, Crm!Arrive, Crm!Submit, Crm!local
<1>2. \/ p = "pipeline_ids" /\ k.op = "set_pipelines"
      \/ p = "field_ids" /\ k.op = "set_fields"
      \/ p = "call" /\ k.op \notin Crm!Replacements
  BY DEF Crm!Replacements
<1> HIDE DEF p
<1>3. /\ Crm!Unacceptable(k) => pc'[r] = "done" /\ answer'[r] = "bad_request"
      /\ ~Crm!Unacceptable(k) => pc'[r] = p /\ answer'[r] = "none"
      /\ DOMAIN pc' = Requests /\ DOMAIN answer' = Requests
      /\ \A q \in Requests \ {r} : pc'[q] = pc[q] /\ answer'[q] = answer[q]
  <2>1. CASE Crm!Unacceptable(k)
    BY <1>1, <2>1 DEF CrmDomains, Crm!Reply
  <2>2. CASE ~Crm!Unacceptable(k)
    BY <1>1, <2>2 DEF CrmDomains, Crm!Goto, CrmStage
  <2> QED BY <2>1, <2>2
<1>4. /\ DOMAIN req' = Requests /\ req'[r] = k /\ \A q \in Requests \ {r} : req'[q] = req[q]
      /\ fields' = fields /\ sections' = sections /\ layout' = layout /\ options' = options /\ nextId' = nextId
      /\ records' = records /\ pipelines' = pipelines /\ stages' = stages
  BY <1>1 DEF CrmDomains, Crm!crmTables, Crm!pipelineTables, Crm!fieldTables
<1> DEFINE replaces == k.op \in Crm!Replacements /\ ~Crm!Unacceptable(k)
<1>5. /\ replaces => /\ latest' = [latest EXCEPT ![k.op] = r]
                     /\ Crm!Mar(k.op, IF Crm!Rivals(r, k) = {} THEN {} ELSE Crm!Rivals(r, k) \cup {r})
      /\ ~replaces => latest' = latest /\ marred' = marred /\ tangled' = tangled
  BY DEF Crm!Arrive, Crm!witness
<1>6. /\ DOMAIN latest' = Crm!Replacements /\ marred \subseteq marred' /\ tangled \subseteq tangled'
      /\ \A op \in Crm!Replacements : latest'[op] = latest[op] \/ (replaces /\ op = k.op /\ latest'[op] = r)
      /\ replaces => latest'[k.op] = r
      /\ replaces => \A q \in Requests \ {r} : Crm!Active(q) /\ req[q].op = k.op => q \in marred' /\ r \in marred'
      /\ \A q \in marred' \ marred : replaces /\ k.op \in tangled' /\ (q = r \/ (Crm!Active(q) /\ req[q].op = k.op))
  <2>1. CASE replaces
    <3>1. /\ DOMAIN latest' = Crm!Replacements /\ latest'[k.op] = r
          /\ \A op \in Crm!Replacements \ {k.op} : latest'[op] = latest[op]
      BY <1>1, <1>5, <2>1 DEF CrmDomains
    <3>2. /\ marred \subseteq marred' /\ tangled \subseteq tangled'
          /\ \A q \in Requests \ {r} : Crm!Active(q) /\ req[q].op = k.op => q \in marred' /\ r \in marred'
          /\ \A q \in marred' \ marred : k.op \in tangled' /\ (q = r \/ (Crm!Active(q) /\ req[q].op = k.op))
      BY <1>5, <2>1 DEF Crm!Mar, Crm!Rivals
    <3> QED BY <2>1, <3>1, <3>2
  <2>2. CASE ~replaces
    BY <1>1, <1>5, <2>2 DEF CrmDomains
  <2> QED BY <2>1, <2>2
<1>7. CrmRows' /\ CrmDomains' /\ StagesPlaced' /\ LayoutPlaced'
  <2>1. CrmRows' /\ CrmDomains'
    BY <1>1, <1>3, <1>4, <1>6 DEF CrmRows, CrmDomains
  <2> QED BY <1>4, <1>6, <2>1 DEF CrmInv, StagesPlaced, LayoutPlaced, SectionIds, FieldIds
<1>8. r \notin marred /\ \A op \in Crm!Replacements : latest[op] # r
  BY <1>1 DEF CrmStage, CrmRivals
<1>9. CrmRivals'
  <2>1. ASSUME NEW x \in Requests, NEW y \in Requests, x # y, Crm!Active(x)', Crm!Active(y)',
               req'[x].op = req'[y].op, req'[x].op \in Crm!Replacements
        PROVE  x \in marred'
    BY <1>1, <1>3, <1>4, <1>6, <2>1 DEF CrmRivals, Crm!Active
  <2>2. ASSUME NEW x \in Requests, Crm!Active(x)', req'[x].op \in Crm!Replacements
        PROVE  latest'[req'[x].op] = x \/ {x, latest'[req'[x].op]} \subseteq marred'
    <3>1. CASE x = r
      BY <1>3, <1>4, <1>6, <2>2, <3>1 DEF Crm!Active
    <3>2. CASE x # r
      <4>1. /\ Crm!Active(x) /\ req'[x].op = req[x].op
            /\ latest[req[x].op] = x \/ {x, latest[req[x].op]} \subseteq marred
        BY <1>1, <1>3, <1>4, <2>2, <3>2 DEF CrmRivals, Crm!Active
      <4> QED BY <1>6, <2>2, <3>2, <4>1
    <3> QED BY <3>1, <3>2
  <2>3. ASSUME NEW op \in Crm!Replacements, latest'[op] \in Requests
        PROVE  req'[latest'[op]].op = op /\ pc'[latest'[op]] # "idle"
    <3>1. CASE latest'[op] = r
      <4>1. replaces /\ op = k.op
        BY <1>6, <1>8, <3>1
      <4> QED BY <1>2, <1>3, <1>4, <3>1, <4>1
    <3>2. CASE latest'[op] # r
      BY <1>1, <1>3, <1>4, <1>6, <2>3, <3>2 DEF CrmRivals
    <3> QED BY <3>1, <3>2
  <2> QED BY <2>1, <2>2, <2>3 DEF CrmRivals
<1>10. CrmStage(r)' /\ PipelineStage(r)' /\ FieldStage(r)'
  <2>1. CrmStage(r)'
    BY <1>2, <1>3, <1>4, <1>6, <1>8 DEF CrmStage, PipelinePhases, FieldPhases, DropPhases,
       Crm!Replacements, Crm!Unacceptable
  <2> QED BY <1>2, <1>3, <2>1 DEF PipelineStage, FieldStage
<1>11. ASSUME NEW q \in Requests, q # r
       PROVE  CrmStage(q)' /\ PipelineStage(q)' /\ FieldStage(q)'
  <2>1. CrmStage(q) /\ PipelineStage(q) /\ FieldStage(q)
    BY DEF CrmInv
  <2>2. CrmStage(q)'
    BY <1>3, <1>4, <1>6, <1>11, <2>1 DEF CrmStage, Crm!Active
  <2>3. \A op \in Crm!Replacements : latest'[op] = q => latest[op] = q
    BY <1>6, <1>11
  <2>4. PipelineStage(q)'
    BY <1>1, <1>3, <1>4, <1>6, <1>11, <2>1, <2>3, PipelineFrame DEF Crm!pipelineTables, Crm!Replacements
  <2>5. FieldStage(q)'
    BY <1>1, <1>3, <1>4, <1>6, <1>11, <2>1, <2>3, FieldFrame DEF Crm!fieldTables, Crm!Replacements
  <2> QED BY <2>2, <2>4, <2>5
<1> QED BY <1>7, <1>9, <1>10, <1>11 DEF CrmInv

\* A request that is answered without touching pipelines or fields.
LEMMA CrmAnswered ==
  ASSUME CrmInv, NEW r \in Requests, NEW a, Crm!Active(r), Crm!Reply(r, a),
         UNCHANGED <<req, known, placed, latest, tangled, marred, Crm!pipelineTables, Crm!fieldTables>>,
         records' \subseteq RecordIds,
         a = "ok" => req[r].op \notin Crm!Replacements
  PROVE  CrmInv'
<1>1. /\ CrmGoes(r) /\ CrmAlone(r) /\ pc'[r] = "done" /\ answer'[r] = a
      /\ CrmDomains' /\ CrmMars(r, "ok")
  BY CrmGoing DEF CrmNotes, CrmGoes, CrmAlone, CrmMars
<1>2. CrmRivals' /\ \A q \in Requests : CrmStage(q)'
  <2>1. CrmStage(r)'
    BY <1>1 DEF CrmInv, CrmStage, CrmGoes, PipelinePhases, FieldPhases, DropPhases
  <2> QED BY <1>1, <2>1, CrmRivalsKept, CrmStageKept
<1>3. CrmRows' /\ StagesPlaced' /\ LayoutPlaced'
  BY DEF CrmInv, CrmRows, StagesPlaced, LayoutPlaced, SectionIds, FieldIds, Crm!pipelineTables, Crm!fieldTables
<1>4. PipelineStage(r)' /\ FieldStage(r)'
  <2>1. a = "ok" => latest["set_pipelines"] # r /\ latest["set_fields"] # r
    BY DEF CrmInv, CrmRivals, Crm!Replacements
  <2> QED BY <1>1, <2>1 DEF PipelineStage, FieldStage
<1>5. ASSUME NEW q \in Requests, q # r
      PROVE  PipelineStage(q)' /\ FieldStage(q)'
  <2>1. PipelineStage(q) /\ FieldStage(q)
    BY DEF CrmInv
  <2> QED BY <1>1, <1>5, <2>1, PipelineFrame, FieldFrame DEF CrmAlone
<1> QED BY <1>1, <1>2, <1>3, <1>4, <1>5 DEF CrmInv

LEMMA CrmOthers ==
  ASSUME CrmInv, NEW r \in Requests, NEW reply, Crm!Others(r, reply), UNCHANGED Crm!witness
  PROVE  CrmInv'
<1>1. UNCHANGED <<latest, tangled, marred>> /\ records \subseteq RecordIds /\ CrmStage(r)
  BY DEF Crm!witness, CrmInv, CrmRows
<1>2. ASSUME NEW op, NEW a, Crm!OneCall(r, op, reply, a)
      PROVE  /\ Crm!Active(r) /\ req[r].op \notin Crm!Replacements /\ UNCHANGED <<req, known, placed>>
             /\ \E b : Crm!Reply(r, b)
  BY <1>1, <1>2 DEF Crm!OneCall, Crm!Active, CrmStage, Crm!local
<1>3. CASE Crm!ListRecords(r, reply) \/ Crm!GetRecord(r, reply) \/ Crm!PatchRecord(r, reply)
  <2>1. PICK op, a : Crm!OneCall(r, op, reply, a)
    BY <1>3 DEF Crm!ListRecords, Crm!GetRecord, Crm!PatchRecord
  <2>2. UNCHANGED <<Crm!pipelineTables, Crm!fieldTables, records>>
    BY <1>3 DEF Crm!ListRecords, Crm!GetRecord, Crm!PatchRecord, Crm!crmTables
  <2> QED BY <1>1, <1>2, <2>1, <2>2, CrmAnswered
<1>4. CASE Crm!CreateRecord(r, reply)
  <2>1. Crm!OneCall(r, "create", reply, "created") /\ UNCHANGED <<Crm!pipelineTables, Crm!fieldTables>>
    BY <1>4 DEF Crm!CreateRecord
  <2>2. records' \subseteq RecordIds
    BY <1>1, <1>4 DEF Crm!CreateRecord, Crm!Kept
  <2> QED BY <1>1, <1>2, <2>1, <2>2, CrmAnswered
<1>5. CASE Crm!DeleteRecord(r, reply)
  <2>1. Crm!OneCall(r, "delete", reply, "ok") /\ UNCHANGED <<Crm!pipelineTables, Crm!fieldTables>>
    BY <1>5 DEF Crm!DeleteRecord
  <2>2. records' \subseteq RecordIds
    BY <1>1, <1>5 DEF Crm!DeleteRecord, Crm!Kept
  <2> QED BY <1>1, <1>2, <2>1, <2>2, CrmAnswered
<1>6. CASE Crm!Dashboard(r) \/ Crm!GetPipelines(r) \/ Crm!GetCustomization(r)
  <2>1. /\ Crm!Active(r) /\ req[r].op \notin Crm!Replacements /\ UNCHANGED <<req, known, placed>>
        /\ Crm!Reply(r, "ok") /\ UNCHANGED <<Crm!pipelineTables, Crm!fieldTables, records>>
    BY <1>1, <1>6 DEF Crm!Dashboard, Crm!GetPipelines, Crm!GetCustomization, Crm!Overview, Crm!Active,
       CrmStage, Crm!local, Crm!crmTables
  <2> QED BY <1>1, <2>1, CrmAnswered
<1> QED BY <1>3, <1>4, <1>5, <1>6 DEF Crm!Others

LEMMA CrmInit ==
  ASSUME Crm!Init
  PROVE  CrmInv
<1>1. PICK T \in CrmTables :
        /\ pipelines = T.pipelines /\ stages = T.stages
        /\ fields = T.fields /\ sections = T.sections /\ layout = T.layout /\ options = T.options
  BY DEF Crm!Init
<1>2. /\ \A s \in stages : s[1] \in pipelines
      /\ \A f \in fields : f.id \in 1..9
      /\ \A s \in sections : s.id \in 1..9
      /\ \A l \in layout : l[1] \in SectionIds /\ l[2] \in FieldIds
      /\ options \subseteq FieldIds
  BY <1>1, CrmAssumption DEF SectionIds, FieldIds
<1>3. /\ nextId = 10 /\ records = {} /\ marred = {}
      /\ latest["set_pipelines"] = "none" /\ latest["set_fields"] = "none" /\ DOMAIN latest = Crm!Replacements
      /\ \A r \in Requests : pc[r] = "idle" /\ answer[r] = "none" /\ placed[r] = [fields |-> {}, sections |-> {}]
  BY DEF Crm!Init, Crm!Replacements
<1>4. CrmRows /\ CrmDomains
  BY <1>2, <1>3 DEF Crm!Init, CrmRows, CrmDomains, SectionIds
<1>5. CrmRivals
  BY <1>3, CrmAssumption DEF CrmRivals, Crm!Active, Crm!Replacements
<1>6. StagesPlaced /\ LayoutPlaced
  BY <1>2 DEF StagesPlaced, LayoutPlaced
<1>7. ASSUME NEW r \in Requests PROVE CrmStage(r) /\ PipelineStage(r) /\ FieldStage(r)
  BY <1>3 DEF CrmStage, PipelineStage, FieldStage, PipelinePhases, FieldPhases, DropPhases
<1> QED BY <1>4, <1>5, <1>6, <1>7 DEF CrmInv

LEMMA CrmNext ==
  ASSUME CrmInv, Crm!Next
  PROVE  CrmInv'
<1>1. PICK r \in Requests :
        \/ \E k \in CrmInputs : Crm!Arrive(r, k)
        \/ \E reply \in Crm!Replies :
            /\ Crm!PipelineStep(r, reply) \/ Crm!FieldStep(r, reply)
            /\ Crm!Mar(req[r].op, IF reply = "ok" THEN {} ELSE {r})
            /\ UNCHANGED latest
        \/ (\E reply \in Crm!Replies : Crm!Others(r, reply)) /\ UNCHANGED Crm!witness
        \/ Crm!Disconnect(r) /\ UNCHANGED Crm!witness
  BY DEF Crm!Next
<1>2. ASSUME NEW k \in CrmInputs, Crm!Arrive(r, k) PROVE CrmInv'
  BY <1>2, CrmArrives
<1>3. ASSUME NEW reply \in Crm!Replies, Crm!PipelineStep(r, reply) \/ Crm!FieldStep(r, reply),
             Crm!Mar(req[r].op, IF reply = "ok" THEN {} ELSE {r}), UNCHANGED latest
      PROVE  CrmInv'
  <2>1. CrmMars(r, reply)
    BY <1>3, CrmMarring
  <2>2. CASE Crm!PipelineStep(r, reply)
    BY <2>1, <2>2, PipelineSteps
  <2>3. CASE Crm!FieldStep(r, reply)
    BY <2>1, <2>3, FieldDrops, FieldInserts, SectionInserts, LayoutInserts DEF Crm!FieldStep
  <2> QED BY <1>3, <2>2, <2>3
<1>4. ASSUME NEW reply \in Crm!Replies, Crm!Others(r, reply), UNCHANGED Crm!witness PROVE CrmInv'
  BY <1>4, CrmOthers
<1>5. ASSUME Crm!Disconnect(r), UNCHANGED Crm!witness PROVE CrmInv'
  <2>1. /\ Crm!Active(r) /\ Crm!Reply(r, "gone") /\ UNCHANGED <<req, known, placed, latest, tangled, marred>>
        /\ UNCHANGED <<Crm!pipelineTables, Crm!fieldTables>> /\ records' = records /\ records \subseteq RecordIds
    BY <1>5 DEF Crm!Disconnect, Crm!witness, Crm!local, Crm!crmTables, CrmInv, CrmRows
  <2> QED BY <2>1, CrmAnswered
<1> QED BY <1>1, <1>2, <1>3, <1>4, <1>5

LEMMA CrmStutter ==
  ASSUME CrmInv, UNCHANGED Crm!crmVars
  PROVE  CrmInv'
<1>1. /\ UNCHANGED <<pipelines, stages, fields, sections, layout, options, nextId, records>>
      /\ UNCHANGED <<pc, req, answer, known, placed, latest, tangled, marred>>
  BY DEF Crm!crmVars, Crm!crmTables, Crm!pipelineTables, Crm!fieldTables, Crm!local, Crm!witness
<1>2. CrmRows' /\ CrmDomains' /\ CrmRivals' /\ StagesPlaced' /\ LayoutPlaced'
  BY <1>1 DEF CrmInv, CrmRows, CrmDomains, CrmRivals, Crm!Active, StagesPlaced, LayoutPlaced, SectionIds,
     FieldIds
<1>3. ASSUME NEW r \in Requests PROVE CrmStage(r)' /\ PipelineStage(r)' /\ FieldStage(r)'
  <2>1. CrmStage(r) /\ PipelineStage(r) /\ FieldStage(r)
    BY DEF CrmInv
  <2>2. CrmStage(r)'
    BY <1>1, <2>1 DEF CrmStage
  <2> QED BY <1>1, <2>1, <2>2, PipelineFrame, FieldFrame DEF Crm!pipelineTables, Crm!fieldTables
<1> QED BY <1>2, <1>3 DEF CrmInv

\* The layout is the one asked for.
LEMMA LaidOut ==
  ASSUME NEW P, FieldsInForce(P)
  PROVE  /\ \A l \in layout, s \in sections : l[1] = s.id =>
                /\ l[3] \in Crm!Slots(P)
                /\ \E f \in fields : /\ f.id = l[2] /\ s.name = Crm!SlotName(P, l[3])
                                     /\ f.key = Crm!SlotKey(P, l[3])
         /\ \A slot \in Crm!Slots(P) : Crm!SlotKey(P, slot) \in Crm!NewKeys(P) =>
                \E s \in sections, f \in fields :
                    /\ <<s.id, f.id, slot>> \in layout
                    /\ s.name = Crm!SlotName(P, slot) /\ f.key = Crm!SlotKey(P, slot)
<1> DEFINE L == Crm!LayoutRows(P, fields, sections)
<1>1. /\ \A l \in layout : l[1] \in SectionIds => l \in L
      /\ L \subseteq layout
  BY DEF FieldsInForce
<1>2. \A l : l \in L <=> \E slot \in Crm!Slots(P) :
                \E s \in Crm!ByName(sections, Crm!SlotName(P, slot)), f \in Crm!ByKey(fields, Crm!SlotKey(P, slot)) :
                    l = <<s.id, f.id, slot>>
  BY DEF Crm!LayoutRows
<1> HIDE DEF L
<1>3. /\ \A n : \A s \in Crm!ByName(sections, n) : s \in sections /\ s.name = n
      /\ \A k : \A f \in Crm!ByKey(fields, k) : f \in fields /\ f.key = k
  BY DEF Crm!ByName, Crm!ByKey, Crm!LastOf
<1>4. ASSUME NEW l \in layout, NEW s \in sections, l[1] = s.id
      PROVE  /\ l[3] \in Crm!Slots(P)
             /\ \E f \in fields : f.id = l[2] /\ s.name = Crm!SlotName(P, l[3]) /\ f.key = Crm!SlotKey(P, l[3])
  <2>1. l \in L
    BY <1>1, <1>4 DEF SectionIds
  <2>2. PICK slot \in Crm!Slots(P) :
                \E t \in Crm!ByName(sections, Crm!SlotName(P, slot)), f \in Crm!ByKey(fields, Crm!SlotKey(P, slot)) :
                    l = <<t.id, f.id, slot>>
    BY <1>2, <2>1
  <2>3. PICK t \in Crm!ByName(sections, Crm!SlotName(P, slot)), f \in Crm!ByKey(fields, Crm!SlotKey(P, slot)) :
                    l = <<t.id, f.id, slot>>
    BY <2>2
  <2>4. l[1] = t.id /\ l[2] = f.id /\ l[3] = slot /\ t \in sections /\ t.name = Crm!SlotName(P, slot)
        /\ f \in fields /\ f.key = Crm!SlotKey(P, slot)
    BY <1>3, <2>3
  <2>5. s = t
    BY <1>4, <2>4 DEF FieldsInForce, SectionsAsked
  <2> QED BY <2>4, <2>5
<1>5. ASSUME NEW slot \in Crm!Slots(P), Crm!SlotKey(P, slot) \in Crm!NewKeys(P)
      PROVE  \E s \in sections, f \in fields :
                    /\ <<s.id, f.id, slot>> \in layout
                    /\ s.name = Crm!SlotName(P, slot) /\ f.key = Crm!SlotKey(P, slot)
  <2> DEFINE key == Crm!SlotKey(P, slot)
             name == Crm!SlotName(P, slot)
             F == {f \in fields : f.key = key}
             S == {s \in sections : s.name = name}
  <2>1. F # {} /\ \A f \in F : f.order \in 1 .. Len(P.fields)
    <3>1. PICK i \in Crm!Labelled(P) : key = P.fields[i].key
      BY <1>5 DEF Crm!NewKeys
    <3> HIDE DEF key
    <3>2. PICK f \in fields : f.order = i
      BY <3>1 DEF FieldsInForce, FieldsAsked, Crm!RowPerEntry
    <3>3. f.key = key
      BY <3>1, <3>2 DEF FieldsInForce, FieldsAsked
    <3> QED BY <3>2, <3>3 DEF FieldsInForce, FieldsAsked, Crm!RowPerEntry, Crm!Labelled, Lists
  <2>2. S # {} /\ \A s \in S : s.order \in 1 .. Len(P.sections)
    <3>1. PICK i \in DOMAIN P.sections : slot[1] = i
      BY <1>5 DEF Crm!Slots
    <3>2. PICK s \in sections : s.order = i
      BY <3>1 DEF FieldsInForce, SectionsAsked, Crm!RowPerEntry
    <3>3. s.name = name
      BY <3>1, <3>2 DEF FieldsInForce, SectionsAsked, Crm!SlotName
    <3> HIDE DEF name
    <3> QED BY <3>2, <3>3 DEF FieldsInForce, SectionsAsked, Crm!RowPerEntry, Lists
  <2> HIDE DEF key, name
  <2>3. PICK f \in F : f \in Crm!LastOf(F)
    <3> HIDE DEF F
    <3> QED BY <2>1, LastRow DEF FieldsInForce, Lists
  <2>4. PICK s \in S : s \in Crm!LastOf(S)
    <3> HIDE DEF S
    <3> QED BY <2>2, LastRow DEF FieldsInForce, Lists
  <2>5. f \in Crm!ByKey(fields, key) /\ s \in Crm!ByName(sections, name)
    BY <2>3, <2>4 DEF Crm!ByKey, Crm!ByName
  <2>6. <<s.id, f.id, slot>> \in L
    BY <1>2, <2>5 DEF key, name
  <2> QED BY <1>1, <2>3, <2>4, <2>6 DEF key, name
<1> QED BY <1>4, <1>5

\* What ReplacementInForce says of fields.
Settled(P) ==
    /\ Crm!RowPerEntry(fields, Crm!Labelled(P))
    /\ \A f \in fields : f.key = P.fields[f.order].key
    /\ Crm!RowPerEntry(sections, DOMAIN P.sections)
    /\ \A s \in sections : s.name = Crm!SectionName(P.sections[s.order])
    /\ \A l \in layout, s \in sections : l[1] = s.id =>
        /\ l[3] \in Crm!Slots(P)
        /\ \E f \in fields : f.id = l[2] /\ s.name = Crm!SlotName(P, l[3]) /\ f.key = Crm!SlotKey(P, l[3])
    /\ \A slot \in Crm!Slots(P) : Crm!SlotKey(P, slot) \in Crm!NewKeys(P) =>
        \E s \in sections, f \in fields :
            /\ <<s.id, f.id, slot>> \in layout
            /\ s.name = Crm!SlotName(P, slot) /\ f.key = Crm!SlotKey(P, slot)

LEMMA CrmSafe ==
  ASSUME CrmInv
  PROVE  Crm!TypeOK /\ Crm!ReplacementInForce /\ Crm!OrphansNeedFault
<1>1. Crm!TypeOK
  BY DEF CrmInv, CrmRows, CrmStage, Crm!TypeOK
<1>2. Crm!OrphansNeedFault
  BY DEF CrmInv, StagesPlaced, LayoutPlaced, SectionIds, FieldIds, Crm!OrphansNeedFault
<1>3. ASSUME NEW r \in Requests \ marred, answer[r] = "ok"
      PROVE  /\ latest["set_pipelines"] = r => PipelinesInForce(Crm!Payload(r))
             /\ latest["set_fields"] = r => FieldsInForce(Crm!Payload(r))
  BY <1>3 DEF CrmInv, PipelineStage, FieldStage
<1>4. Crm!ReplacementInForce
  <2> SUFFICES ASSUME NEW r \in Requests \ marred, answer[r] = "ok"
               PROVE  /\ latest["set_pipelines"] = r => PipelinesInForce(Crm!Payload(r))
                      /\ latest["set_fields"] = r => Settled(Crm!Payload(r))
    BY DEF Crm!ReplacementInForce, PipelinesInForce, Settled
  <2>1. ASSUME NEW P, FieldsInForce(P) PROVE Settled(P)
    BY <2>1, LaidOut DEF FieldsInForce, FieldsAsked, SectionsAsked, Settled
  <2> QED BY <1>3, <2>1
<1> QED BY <1>1, <1>2, <1>4

-----------------------------------------------------------------------------
(* The composition: the family of requests decides whose invariant holds.  *)

RecordsInv == (family = "work" => WorkInv) /\ (family = "crm" => CrmInv)

\* Every state keeps the invariants of WorkItems and of CrmSettings.
LEMMA RecordsInductive == Spec => []RecordsInv
<1>1. Init => RecordsInv
  <2> SUFFICES ASSUME Init PROVE RecordsInv
    OBVIOUS
  <2>1. CASE family = "work"
    BY <2>1, WorkInit DEF Init, RecordsInv
  <2>2. CASE family = "crm"
    BY <2>2, CrmInit DEF Init, RecordsInv
  <2> QED BY <2>1, <2>2 DEF RecordsInv
<1>2. RecordsInv /\ [Next]_vars => RecordsInv'
  <2> SUFFICES ASSUME RecordsInv, [Next]_vars PROVE RecordsInv'
    OBVIOUS
  <2>1. family' = family
    BY DEF Next, vars
  <2>2. CASE family = "work"
    <3>1. Work!Next \/ UNCHANGED Work!workVars
      BY <2>2 DEF Next, vars, workOnly, Work!workVars, Work!tables, Work!boards, Work!extras, Work!local,
         Work!witness
    <3> QED BY <2>1, <2>2, <3>1, WorkNext, WorkStutter DEF RecordsInv
  <2>3. CASE family = "crm"
    <3>1. Crm!Next \/ UNCHANGED Crm!crmVars
      BY <2>3 DEF Next, vars, crmOnly, Crm!crmVars, Crm!crmTables, Crm!pipelineTables, Crm!fieldTables,
                  Crm!local, Crm!witness
    <3> QED BY <2>1, <2>3, <3>1, CrmNext, CrmStutter DEF RecordsInv
  <2> QED BY <2>1, <2>2, <2>3 DEF RecordsInv
<1> QED BY <1>1, <1>2, PTL DEF Spec

\* Rows keep their types and their ids, and only what is done is answered, for
\* any handlers at once, tables and ids: sprints are numbered from one, a user
\* has one membership of a project, a view's name is used once by a user.
THEOREM RecordsTyped == Spec => []TypeOK
<1>1. RecordsInv => TypeOK
  BY WorkSafe, CrmSafe DEF RecordsInv, TypeOK
<1> QED BY <1>1, RecordsInductive, PTL

\* create_exponential_sprint reads the last number and inserts the next in two
\* queries: a number is given twice only where creations of a project overlap
\* or the look-up came to nothing.
THEOREM NumbersStayApart == Spec => []SprintNumbersApart
<1>1. RecordsInv => SprintNumbersApart
  BY WorkSafe DEF RecordsInv, SprintNumbersApart
<1> QED BY <1>1, RecordsInductive, PTL

\* The role an answer credits the caller with was held at some time during the
\* request, however members are added in between.
THEOREM RoleIsHeld == Spec => []RoleWasHeld
<1>1. RecordsInv => RoleWasHeld
  BY WorkSafe DEF RecordsInv, RoleWasHeld
<1> QED BY <1>1, RecordsInductive, PTL

\* The two counts shown of a project contradict each other only if its tasks
\* changed between them or a count failed; those of a team never do.
THEOREM CountsAgree == Spec => []CountsAddUp
<1>1. RecordsInv => CountsAddUp
  BY WorkSafe DEF RecordsInv, CountsAddUp
<1> QED BY <1>1, RecordsInductive, PTL

\* What greenspot_pipelines_post and greenspot_customization_patch answer ok to
\* is in the tables until the next of its kind arrives, whatever other kinds do
\* and earlier ones left behind.
THEOREM ReplacementHolds == Spec => []ReplacementInForce
<1>1. RecordsInv => ReplacementInForce
  BY CrmSafe DEF RecordsInv, ReplacementInForce
<1> QED BY <1>1, RecordsInductive, PTL

\* Their deletes and inserts, cut off after any of them, leave no child without
\* its parent unless a call failed or two of a kind overlapped.
THEOREM NoOrphans == Spec => []OrphansNeedFault
<1>1. RecordsInv => OrphansNeedFault
  BY CrmSafe DEF RecordsInv, OrphansNeedFault
<1> QED BY <1>1, RecordsInductive, PTL
=============================================================================
