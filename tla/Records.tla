------------------------------- MODULE Records -------------------------------
(***************************************************************************)
(* WorkItems and CrmSettings behind one gateway.  They share no table, so  *)
(* a behaviour of both is one of each, and each is looked at by itself: a  *)
(* family of requests, on every table of a few.                            *)
(***************************************************************************)
EXTENDS Naturals, Sequences, FiniteSets

CONSTANTS Requests, WorkInputs, Changes, Admins, TaskIds, SprintIds, ProjectIds, TeamIds, CommentIds,
          LabelIds, ViewIds, OrgId, WorkTables,
          CrmInputs, Payloads, CrmTables, RecordIds, MaxFailed

\* What the tables hold at first has been put there by these handlers without
\* a mishap: ids are of the tables, a project's sprints are numbered apart, a
\* user is a member once.  Requests name a project by an id of its table, and
\* say of a task that it is done or archived, or that it is not.
ASSUME WorkAssumption ==
    /\ \A T \in WorkTables :
        /\ IsFiniteSet(T.tasks) /\ IsFiniteSet(T.sprints)
        /\ \A t \in T.tasks :
            /\ t = [id |-> t.id, project |-> t.project, sprint |-> t.sprint,
                    done |-> t.done, archived |-> t.archived, org |-> t.org]
            /\ t.id \in TaskIds /\ t.done \in BOOLEAN /\ t.archived \in BOOLEAN
        /\ \A s \in T.sprints : s.id \in SprintIds /\ s.number \in Nat \ {0}
        /\ \A s, t \in T.sprints : s.project = t.project /\ s.number = t.number => s = t
        /\ \A p \in T.projects : p.id \in ProjectIds
        /\ \A m, n \in T.members : m.of = n.of /\ m.user = n.user => m = n
    /\ \A k \in WorkInputs :
        /\ k.op = "create_sprint" => k.on \in ProjectIds
        /\ k.op \in {"create_task", "update_task"} => k.arg \in DOMAIN Changes
    /\ \A c \in DOMAIN Changes : \A column \in DOMAIN Changes[c] \cap {"done", "archived"} :
            Changes[c][column] \in BOOLEAN

\* Here every child has its parent, and ids are below those given out next.
\* What a replacement brings are lists.
ASSUME CrmAssumption ==
    /\ "none" \notin Requests
    /\ \A T \in CrmTables :
        /\ \A s \in T.stages : s[1] \in T.pipelines
        /\ \A f \in T.fields : f.id \in 1..9
        /\ \A s \in T.sections : s.id \in 1..9
        /\ \A l \in T.layout : /\ \E s \in T.sections : s.id = l[1]
                             /\ \E f \in T.fields : f.id = l[2]
        /\ T.options \subseteq {f.id : f \in T.fields}
    /\ \A k \in CrmInputs : k.op = "set_fields" /\ k.arg # "too_large" =>
            LET P == Payloads[k.arg]
            IN  /\ Len(P.fields) \in Nat /\ DOMAIN P.fields = 1 .. Len(P.fields)
                /\ Len(P.sections) \in Nat /\ DOMAIN P.sections = 1 .. Len(P.sections)

VARIABLES pc, req, answer,
          tasks, sprints, projects, teams, members, comments, labels, views,
          number, todo, org, shown, held, unsteady, guessed,
          pipelines, stages, fields, sections, layout, options, nextId, records,
          known, placed, latest, tangled, marred, failed,
          family

-----------------------------------------------------------------------------
Work == INSTANCE WorkItems
Crm == INSTANCE CrmSettings

workOnly == <<tasks, sprints, projects, teams, members, comments, labels, views,
              number, todo, org, shown, held, unsteady, guessed>>
crmOnly == <<pipelines, stages, fields, sections, layout, options, nextId, records,
             known, placed, latest, tangled, marred, failed>>

NoCrm ==
    /\ pipelines = {} /\ stages = {} /\ fields = {} /\ sections = {} /\ layout = {} /\ options = {}
    /\ nextId = 0 /\ records = {} /\ known = 0 /\ placed = 0 /\ latest = 0 /\ tangled = {} /\ marred = {} /\ failed = 0
NoWork ==
    /\ tasks = {} /\ sprints = {} /\ projects = {} /\ teams = {} /\ members = {}
    /\ comments = {} /\ labels = {} /\ views = {} /\ number = 0 /\ todo = 0 /\ org = 0 /\ shown = 0
    /\ held = 0 /\ unsteady = 0 /\ guessed = {}

Init ==
    \/ family = "work" /\ Work!Init /\ NoCrm
    \/ family = "crm" /\ Crm!Init /\ NoWork

Next ==
    /\ \/ family = "work" /\ Work!Next
          /\ UNCHANGED crmOnly
       \/ family = "crm" /\ Crm!Next
          /\ UNCHANGED workOnly
    /\ UNCHANGED family

vars == <<workOnly, crmOnly, pc, req, answer, family>>
Spec == Init /\ [][Next]_vars

-----------------------------------------------------------------------------
\* Type invariants of both components.
TypeOK == (family = "work" => Work!TypeOK) /\ (family = "crm" => Crm!TypeOK)

\* WorkItems!SprintNumbersApart: create_exponential_sprint gives two sprints
\* one number only when creations overlap or its look-up comes to nothing.
SprintNumbersApart == family = "work" => Work!SprintNumbersApart

\* WorkItems!RoleWasHeld: get_exponential_project and the members tool only
\* credit the caller with a membership held during the request.
RoleWasHeld == family = "work" => Work!RoleWasHeld

\* WorkItems!CountsAddUp: list_exponential_projects and get_exponential_team
\* show more completed tasks than tasks only when tasks changed between two
\* counts or a count failed.
CountsAddUp == family = "work" => Work!CountsAddUp

\* CrmSettings!ReplacementInForce: what greenspot_pipelines_post and
\* greenspot_customization_patch answer ok to is what the tables hold.
ReplacementInForce == family = "crm" => Crm!ReplacementInForce

\* CrmSettings!OrphansNeedFault: their deletes and inserts leave no child row
\* without its parent unless a call fails or two of them overlap.
OrphansNeedFault == family = "crm" => Crm!OrphansNeedFault
=============================================================================
