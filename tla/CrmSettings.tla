----------------------------- MODULE CrmSettings -----------------------------
(***************************************************************************)
(* GreenSpot, the CRM (gateway/src/lib.rs): deal pipelines with their      *)
(* stages, and the fields, sections and layout of an object type, are      *)
(* replaced as a whole by deleting every row and inserting the new ones,   *)
(* one call after the other, with most replies ignored.  The records       *)
(* themselves are read and written by handlers of one call.                *)
(*                                                                         *)
(* No constraint of the tables is assumed: a call that one refuses is a    *)
(* call answered "rejected".  An insert answers with its rows in the order *)
(* they were sent.  One object type.                                       *)
(***************************************************************************)
EXTENDS Naturals, Sequences

CONSTANTS
    Requests,
    CrmInputs,    \* [op, arg]: the requests that may arrive, see Submit
    Payloads,     \* name of a payload -> its content
    CrmTables,    \* what the tables may hold at first
    RecordIds,    \* bound of the records
    MaxFailed     \* bound of the calls that go wrong

VARIABLES
    pipelines, stages,          \* {id}, {<<pipeline, key>>}
    fields, sections,           \* [id, key, order], [id, name, order]
    layout, options,            \* {<<section, field, slot>>}, {field}
    nextId,
    records,                    \* ids of the rows of a table of contacts, deals, ...
    pc, req, answer,
    known,                      \* ids read before the deletes: [parents, sections, fields]
    placed,                     \* rows the inserts returned: [fields, sections]
    latest,                     \* history: the last replacement of each kind
    tangled,                    \* history: kinds with a failed call or overlapping replacements
    marred,                     \* history: replacements it happened to
    failed                      \* history: calls of replacements that went wrong

pipelineTables == <<pipelines, stages>>
fieldTables == <<fields, sections, layout, options, nextId>>
crmTables == <<pipelineTables, fieldTables, records>>
local == <<known, placed>>
witness == <<latest, tangled, marred, failed>>
crmVars == <<crmTables, pc, req, answer, local, witness>>

NoInput == [op |-> "none", arg |-> "none"]

Init ==
    /\ \E T \in CrmTables :
        /\ pipelines = T.pipelines /\ stages = T.stages
        /\ fields = T.fields /\ sections = T.sections /\ layout = T.layout /\ options = T.options
    /\ nextId = 10
    /\ records = {}
    /\ pc = [r \in Requests |-> "idle"]
    /\ req = [r \in Requests |-> NoInput]
    /\ answer = [r \in Requests |-> "none"]
    /\ known = [r \in Requests |-> [parents |-> {}, sections |-> {}, fields |-> {}]]
    /\ placed = [r \in Requests |-> [fields |-> {}, sections |-> {}]]
    /\ latest = [set_pipelines |-> "none", set_fields |-> "none"]
    /\ tangled = {}
    /\ marred = {}
    /\ failed = 0

-----------------------------------------------------------------------------
(* greenspot_rest_call: "ok", "rejected" (an error status), "unreadable"   *)
(* (2xx that does not parse), and no answer with ("lost") or without       *)
(* ("unsent") effect.                                                      *)

Replies == {"ok", "rejected", "unreadable", "unsent", "lost"}
Effective(reply) == reply \in {"ok", "unreadable", "lost"}
Success(reply) == reply \in {"ok", "unreadable"}
Silent(reply) == reply \in {"unsent", "lost"}

Active(r) == pc[r] \notin {"idle", "done"}
Goto(r, p) == pc' = [pc EXCEPT ![r] = p] /\ UNCHANGED answer
Reply(r, a) == pc' = [pc EXCEPT ![r] = "done"] /\ answer' = [answer EXCEPT ![r] = a]
Refusal(reply) == IF reply = "rejected" THEN "upstream" ELSE "bad_gateway"
Payload(r) == Payloads[req[r].arg]
Rows(reply, S) == IF reply = "ok" THEN S ELSE {}
Kept(reply, old, new) == IF Effective(reply) THEN new ELSE old

Replacements == {"set_pipelines", "set_fields"}

\* A body that is too large, or an unknown customization entity.
Unacceptable(k) == k.arg = "too_large"

Submit(r, k) ==
    /\ pc[r] = "idle"
    /\ req' = [req EXCEPT ![r] = k]
    /\ IF Unacceptable(k) THEN Reply(r, "bad_request")
       ELSE Goto(r, CASE k.op = "set_pipelines" -> "pipeline_ids"
                      [] k.op = "set_fields" -> "field_ids"
                      [] OTHER -> "call")
    /\ UNCHANGED <<crmTables, local>>

-----------------------------------------------------------------------------
(* greenspot_pipelines_post *)

\* Pipelines without id or name are skipped, and stages without a key.
NamedPipelines(P) == {p \in P.pipelines : p.named}
NewPipelines(P) == {p.id : p \in NamedPipelines(P)}
NewStages(P) == UNION {{<<p.id, key>> : key \in p.stages} : p \in NamedPipelines(P)}

\* Mutant: the stages stay.
PipelinesOnly == "drop_pipelines"
FirstDrop == "drop_stages"

\* The ids, none if they cannot be read.
ReadPipelineIds(r, reply) ==
    /\ pc[r] = "pipeline_ids"
    /\ LET ids == Rows(reply, pipelines)
       IN  /\ known' = [known EXCEPT ![r].parents = ids]
           /\ Goto(r, IF ids = {} THEN "insert_pipelines" ELSE FirstDrop)
    /\ UNCHANGED <<crmTables, req, placed>>

\* Neither reply is looked at.
DropStages(r, reply) ==
    /\ pc[r] = "drop_stages"
    /\ stages' = Kept(reply, stages, {s \in stages : s[1] \notin known[r].parents})
    /\ Goto(r, "drop_pipelines")
    /\ UNCHANGED <<pipelines, fieldTables, records, req, local>>

DropPipelines(r, reply) ==
    /\ pc[r] = "drop_pipelines"
    /\ pipelines' = Kept(reply, pipelines, pipelines \ known[r].parents)
    /\ Goto(r, "insert_pipelines")
    /\ UNCHANGED <<stages, fieldTables, records, req, local>>

\* An error status ends the request; no answer does not.  Nothing is sent
\* when there is nothing to insert.
InsertPipelines(r, reply) ==
    /\ pc[r] = "insert_pipelines"
    /\ NewPipelines(Payload(r)) = {} => reply = "ok"
    /\ pipelines' = Kept(reply, pipelines, pipelines \cup NewPipelines(Payload(r)))
    /\ IF reply = "rejected" THEN Reply(r, "upstream") ELSE Goto(r, "insert_stages")
    /\ UNCHANGED <<stages, fieldTables, records, req, local>>

InsertStages(r, reply) ==
    /\ pc[r] = "insert_stages"
    /\ NewStages(Payload(r)) = {} => reply = "ok"
    /\ stages' = Kept(reply, stages, stages \cup NewStages(Payload(r)))
    /\ Reply(r, IF reply = "rejected" THEN "upstream" ELSE "ok")
    /\ UNCHANGED <<pipelines, fieldTables, records, req, local>>

-----------------------------------------------------------------------------
(* greenspot_customization_patch *)

ReadFieldIds(r, reply) ==
    /\ pc[r] = "field_ids"
    /\ known' = [known EXCEPT ![r].fields = Rows(reply, {f.id : f \in fields})]
    /\ Goto(r, "section_ids")
    /\ UNCHANGED <<crmTables, req, placed>>

ReadSectionIds(r, reply) ==
    /\ pc[r] = "section_ids"
    /\ LET ids == Rows(reply, {s.id : s \in sections})
       IN  /\ known' = [known EXCEPT ![r].sections = ids]
           /\ Goto(r, IF ids = {} THEN "drop_sections" ELSE "drop_layout")
    /\ UNCHANGED <<crmTables, req, placed>>

DropLayout(r, reply) ==
    /\ pc[r] = "drop_layout"
    /\ layout' = Kept(reply, layout, {l \in layout : l[1] \notin known[r].sections})
    /\ Goto(r, "drop_sections")
    /\ UNCHANGED <<pipelineTables, fields, sections, options, nextId, records, req, local>>

\* Sections and fields of the object type, those read or not.
DropSections(r, reply) ==
    /\ pc[r] = "drop_sections"
    /\ sections' = Kept(reply, sections, {})
    /\ Goto(r, IF known[r].fields = {} THEN "drop_fields" ELSE "drop_options")
    /\ UNCHANGED <<pipelineTables, fields, layout, options, nextId, records, req, local>>

DropOptions(r, reply) ==
    /\ pc[r] = "drop_options"
    /\ options' = Kept(reply, options, options \ known[r].fields)
    /\ Goto(r, "drop_fields")
    /\ UNCHANGED <<pipelineTables, fields, sections, layout, nextId, records, req, local>>

DropFields(r, reply) ==
    /\ pc[r] = "drop_fields"
    /\ fields' = Kept(reply, fields, {})
    /\ Goto(r, "insert_fields")
    /\ UNCHANGED <<pipelineTables, sections, layout, options, nextId, records, req, local>>

\* Fields without key or label are skipped; a section without name is called
\* "section".  Two of a key or a name are two rows.
Labelled(P) == {i \in DOMAIN P.fields : P.fields[i].labelled}
NewKeys(P) == {P.fields[i].key : i \in Labelled(P)}
SectionName(s) == IF s.name = "none" THEN "section" ELSE s.name
FieldRows(P) == {[id |-> nextId + i, key |-> P.fields[i].key, order |-> i] : i \in Labelled(P)}
SectionRows(P) ==
    {[id |-> nextId + i, name |-> SectionName(P.sections[i]), order |-> i] : i \in DOMAIN P.sections}

\* Anything but success ends the request; the rows returned give the ids.
InsertFields(r, reply) ==
    /\ pc[r] = "insert_fields"
    /\ LET rows == FieldRows(Payload(r))
       IN  /\ rows = {} => reply = "ok"
           /\ fields' = Kept(reply, fields, fields \cup rows)
           /\ nextId' = nextId + Len(Payload(r).fields) + 1
           /\ placed' = [placed EXCEPT ![r].fields = Rows(reply, rows)]
    /\ IF Success(reply) THEN Goto(r, "insert_sections") ELSE Reply(r, Refusal(reply))
    /\ UNCHANGED <<pipelineTables, sections, layout, options, records, req, known>>

InsertSections(r, reply) ==
    /\ pc[r] = "insert_sections"
    /\ LET rows == SectionRows(Payload(r))
       IN  /\ rows = {} => reply = "ok"
           /\ sections' = Kept(reply, sections, sections \cup rows)
           /\ nextId' = nextId + Len(Payload(r).sections) + 1
           /\ placed' = [placed EXCEPT ![r].sections = Rows(reply, rows)]
    /\ IF Success(reply) THEN Goto(r, "insert_layout") ELSE Reply(r, Refusal(reply))
    /\ UNCHANGED <<pipelineTables, fields, layout, options, records, req, known>>

\* The j-th of the fieldIds of the i-th section, and what it refers to.
Slots(P) == UNION {{<<i, j>> : j \in DOMAIN P.sections[i].fields} : i \in DOMAIN P.sections}
SlotName(P, slot) == SectionName(P.sections[slot[1]])
SlotKey(P, slot) == P.sections[slot[1]].fields[slot[2]]

\* section_id_by_name, field_id_by_key: of several rows, the last.
LastOf(S) == {x \in S : \A y \in S : y.order <= x.order}
ByName(S, n) == LastOf({s \in S : s.name = n})
ByKey(F, k) == LastOf({f \in F : f.key = k})

\* Mutant: the n-th of fieldIds is the n-th field.
ByPosition(P, F, S) ==
    UNION {{<<s.id, f.id, slot>> : s \in ByName(S, SlotName(P, slot)), f \in {g \in F : g.order = slot[2]}} :
           slot \in Slots(P)}
\* What is not found is left out.
LayoutRows(P, F, S) ==
    UNION {{<<s.id, f.id, slot>> : s \in ByName(S, SlotName(P, slot)), f \in ByKey(F, SlotKey(P, slot))} :
           slot \in Slots(P)}

\* Whatever comes of it, the settings are answered.
InsertLayout(r, reply) ==
    /\ pc[r] = "insert_layout"
    /\ LET rows == LayoutRows(Payload(r), placed[r].fields, placed[r].sections)
       IN  /\ rows = {} => reply = "ok"
           /\ layout' = Kept(reply, layout, layout \cup rows)
    /\ Reply(r, "ok")
    /\ UNCHANGED <<pipelineTables, fields, sections, options, nextId, records, req, local>>

-----------------------------------------------------------------------------
(* The other handlers: lists, gets, the dashboard, and the records.        *)

\* An error is passed on.
OneCall(r, op, reply, a) ==
    /\ pc[r] = "call" /\ req[r].op = op
    /\ Reply(r, IF Success(reply) THEN a ELSE Refusal(reply))
    /\ UNCHANGED <<req, local>>

ListRecords(r, reply) == OneCall(r, "list", reply, "ok") /\ UNCHANGED crmTables
\* A record that is not there is answered ok with a null item, here and below.
GetRecord(r, reply) == OneCall(r, "get", reply, "ok") /\ UNCHANGED crmTables

\* Several calls, of which what could be read is shown.
Overview(r, op) ==
    /\ pc[r] = "call" /\ req[r].op = op
    /\ Reply(r, "ok")
    /\ UNCHANGED <<crmTables, req, local>>

Dashboard(r) == Overview(r, "dashboard")
GetPipelines(r) == Overview(r, "pipelines")
GetCustomization(r) == Overview(r, "customization")

CreateRecord(r, reply) ==
    /\ OneCall(r, "create", reply, "created")
    /\ \E i \in RecordIds \ records : records' = Kept(reply, records, records \cup {i})
    /\ UNCHANGED <<pipelineTables, fieldTables>>

PatchRecord(r, reply) == OneCall(r, "patch", reply, "ok") /\ UNCHANGED crmTables

DeleteRecord(r, reply) ==
    /\ OneCall(r, "delete", reply, "ok")
    /\ records' = Kept(reply, records, records \ {req[r].arg})
    /\ UNCHANGED <<pipelineTables, fieldTables>>

\* The client leaves; the handler is dropped at an await.
Disconnect(r) == Active(r) /\ Reply(r, "gone") /\ UNCHANGED <<crmTables, req, local>>

-----------------------------------------------------------------------------
PipelineStep(r, reply) ==
    \/ ReadPipelineIds(r, reply) \/ DropStages(r, reply) \/ DropPipelines(r, reply)
    \/ InsertPipelines(r, reply) \/ InsertStages(r, reply)

FieldStep(r, reply) ==
    \/ ReadFieldIds(r, reply) \/ ReadSectionIds(r, reply)
    \/ DropLayout(r, reply) \/ DropSections(r, reply) \/ DropOptions(r, reply) \/ DropFields(r, reply)
    \/ InsertFields(r, reply) \/ InsertSections(r, reply) \/ InsertLayout(r, reply)

Others(r, reply) ==
    \/ ListRecords(r, reply) \/ GetRecord(r, reply)
    \/ CreateRecord(r, reply) \/ PatchRecord(r, reply) \/ DeleteRecord(r, reply)
    \/ Dashboard(r) \/ GetPipelines(r) \/ GetCustomization(r)

\* What is remembered of a replacement.
Rivals(r, k) == {o \in Requests \ {r} : Active(o) /\ req[o].op = k.op}
Mar(op, S) ==
    /\ marred' = marred \cup S
    /\ tangled' = IF S = {} THEN tangled ELSE tangled \cup {op}

Arrive(r, k) ==
    /\ Submit(r, k)
    /\ IF k.op \in Replacements /\ ~Unacceptable(k)
       THEN /\ latest' = [latest EXCEPT ![k.op] = r]
            /\ Mar(k.op, IF Rivals(r, k) = {} THEN {} ELSE Rivals(r, k) \cup {r})
            /\ UNCHANGED failed
       ELSE UNCHANGED witness

Next ==
    \E r \in Requests :
        \/ \E k \in CrmInputs : Arrive(r, k)
        \/ \E reply \in Replies :
            /\ PipelineStep(r, reply) \/ FieldStep(r, reply)
            /\ failed' = IF reply = "ok" THEN failed ELSE failed + 1
            /\ failed' <= MaxFailed
            /\ Mar(req[r].op, IF reply = "ok" THEN {} ELSE {r})
            /\ UNCHANGED latest
        \/ (\E reply \in Replies : Others(r, reply)) /\ UNCHANGED witness
        \/ Disconnect(r) /\ UNCHANGED witness

-----------------------------------------------------------------------------
TypeOK ==
    /\ \A f \in fields : f.id \in 1 .. nextId - 1
    /\ \A s \in sections : s.id \in 1 .. nextId - 1
    /\ records \subseteq RecordIds
    /\ \A r \in Requests : answer[r] # "none" => pc[r] = "done"

\* One row for each entry.
RowPerEntry(S, entries) ==
    /\ {x.order : x \in S} = entries
    /\ \A x, y \in S : x.order = y.order => x = y

\* A replacement answered ok, the last of its kind to arrive, all of whose
\* calls went well and beside which none of its kind ran, holds what was asked
\* for, whatever earlier ones left behind: the pipelines, each with its stages,
\* or the fields and the sections, in their order, and in a section of the name
\* asked for a field of the key asked for.  Stages are only those asked for as
\* long as no earlier replacement went wrong: a stage that lost its pipeline
\* comes back with it.
\*
\* What this does not promise, and the code does not do although it answers ok:
\* a reference that is not the key of a field of the payload is dropped, so
\* also the definition ids greenspot_customization_get shows as fieldIds (799,
\* 829), which the patch looks up as keys (953-954); and the fields of sections
\* of one name all go to the last of these (942-951).
ReplacementInForce ==
    \A r \in Requests \ marred : answer[r] = "ok" =>
        /\ latest["set_pipelines"] = r =>
            /\ pipelines = NewPipelines(Payload(r))
            /\ NewStages(Payload(r)) \subseteq stages
            /\ "set_pipelines" \notin tangled => stages = NewStages(Payload(r))
        /\ latest["set_fields"] = r =>
            LET P == Payload(r)
                Fits(slot, s, f) == s.name = SlotName(P, slot) /\ f.key = SlotKey(P, slot)
            IN  /\ RowPerEntry(fields, Labelled(P))
                /\ \A f \in fields : f.key = P.fields[f.order].key
                /\ RowPerEntry(sections, DOMAIN P.sections)
                /\ \A s \in sections : s.name = SectionName(P.sections[s.order])
                /\ \A l \in layout, s \in sections : l[1] = s.id =>
                        l[3] \in Slots(P) /\ \E f \in fields : f.id = l[2] /\ Fits(l[3], s, f)
                /\ \A slot \in Slots(P) : SlotKey(P, slot) \in NewKeys(P) =>
                        \E s \in sections, f \in fields : <<s.id, f.id, slot>> \in layout /\ Fits(slot, s, f)

\* The order of deletes and inserts never leaves a child without its parent,
\* not even in between or when the client leaves: a stage without pipeline, a
\* layout row without section or field or an option without field takes a
\* failed call or overlapping replacements.
OrphansNeedFault ==
    /\ "set_pipelines" \notin tangled => \A s \in stages : s[1] \in pipelines
    /\ "set_fields" \notin tangled =>
        /\ \A l \in layout : /\ \E s \in sections : s.id = l[1]
                             /\ \E f \in fields : f.id = l[2]
        /\ options \subseteq {f.id : f \in fields}
=============================================================================
