----------------------------- MODULE ToolRouter -----------------------------
(***************************************************************************)
(* The tool execution runtime of the gateway (gateway/src/tool_router.rs): *)
(* ToolRouter::execute, the three tokio semaphores of ToolRuntime and the  *)
(* audit events a call leaves behind.                                      *)
(*                                                                         *)
(* Calls is the set of request slots: a slot carries one invocation at a   *)
(* time and is reused afterwards, so behaviours are unbounded.  Every      *)
(* action is one stretch of execute() between two points where another     *)
(* task can observe or change shared state: an .await, a semaphore         *)
(* operation or a drop of permits.                                         *)
(***************************************************************************)
EXTENDS Naturals, FiniteSets, Sequences

CONSTANTS
    Calls,          \* concurrent invocations of POST /mcp/invoke
    Tools,          \* tool names a client can ask for
    Inputs,         \* the requests clients send
    Supported,      \* supported_tool_names(): the tools implemented
    Allowlist,      \* cfg.tools: tool -> "enabled" | "disabled" | "absent"
    DefaultAllow,   \* cfg.default_policy = Allow
    max_concurrent, \* per-tool max_concurrent, 0 included
    max_concurrent_global,
    max_queue,
    NeedsBearer,    \* tools whose HttpRequest has require_bearer = true
    EnvBearer       \* the two fallback variables, in the order they are read

ASSUME CallsFinite == IsFiniteSet(Calls)

\* An invocation: its tool, whether validate_args accepts its parameters and
\* whether an Authorization header or a cookie came with it.
Requests == [tool : Tools, argsValid : BOOLEAN, credential : BOOLEAN]

ASSUME ConfigAssumption ==
    /\ Inputs \subseteq Requests
    /\ Supported \subseteq Tools
    /\ NeedsBearer \subseteq Supported
    /\ Allowlist \in [Tools -> {"enabled", "disabled", "absent"}]
    /\ DefaultAllow \in BOOLEAN
    /\ max_concurrent \in [Tools -> Nat]
    /\ max_concurrent_global \in Nat
    /\ max_queue \in Nat
    /\ EnvBearer \in [{"exponential", "service_role"} -> {"unset", "blank", "set"}]

VARIABLES
    pc,         \* where the invocation of a slot stands in execute()
    req,        \* its tool, whether its arguments validate, its credential
    queue,      \* free permits of ToolRuntime.queue
    global,     \* free permits of ToolRuntime.global
    per_tool,   \* free permits of ToolRuntime.per_tool
    ahead,      \* the waiters in front of a call in the semaphore it waits on
    cancelled,  \* the CancellationToken of the call has fired
    outcome,    \* what the call will report: reject reason or Outcome
    audit       \* tool.* and egress events emitted for the invocation

vars == <<pc, req, queue, global, per_tool, ahead, cancelled, outcome, audit>>
permits == <<queue, global, per_tool>>

-----------------------------------------------------------------------------
(* Configuration: ToolRuntime::new and resolve_tool.                       *)

\* The permits a per-tool semaphore is built with: a configured 0 becomes 1.
PerToolPermits(t) == IF max_concurrent[t] = 0 THEN 1 ELSE max_concurrent[t]

\* "ok", or the reject reason of resolve_tool.
resolve_tool(t) ==
    CASE t \notin Supported -> "tool_not_implemented"
      [] t \in Supported /\ Allowlist[t] = "disabled" -> "disabled"
      [] t \in Supported /\ Allowlist[t] = "absent" /\ ~DefaultAllow ->
            "tool_not_in_allowlist"
      [] OTHER -> "ok"

\* The environment fallback: the second variable is read only when the first
\* is unset, so a blank first variable hides the second.
FallbackBearer ==
    IF EnvBearer["exponential"] # "unset"
    THEN EnvBearer["exponential"] = "set"
    ELSE EnvBearer["service_role"] = "set"

\* Authorization header, forwarded cookie or fallback present, when needed.
HasUpstreamCredential(r) ==
    r.tool \in NeedsBearer => r.credential \/ FallbackBearer

\* Mutant: the allowlist is not consulted.
ArgsAndBearerOnly(r) ==
    CASE ~r.argsValid -> "args_validation_failed"
      [] r.argsValid /\ ~HasUpstreamCredential(r) -> "missing_upstream_bearer"
      [] OTHER -> "ok"
\* The reason a request is refused before admission, in the order of
\* execute(); "ok" when it goes on to the queue.
PreflightReason(r) ==
    CASE resolve_tool(r.tool) # "ok" -> resolve_tool(r.tool)
      [] resolve_tool(r.tool) = "ok" /\ ~r.argsValid -> "args_validation_failed"
      [] resolve_tool(r.tool) = "ok" /\ r.argsValid /\ ~HasUpstreamCredential(r) ->
            "missing_upstream_bearer"
      [] OTHER -> "ok"

EgressErrors == {"HostNotAllowed", "PrivateIpBlocked", "RequestBodyTooLarge",
                 "InvalidUrl", "HttpTimeout", "OtherEgress"}

\* The error_kind of a failed dispatch.
classify_egress_error(e) ==
    CASE e \in {"HostNotAllowed", "PrivateIpBlocked"} -> "egress_blocked"
      [] e \in {"RequestBodyTooLarge", "InvalidUrl"} -> "validation_error"
      [] e = "HttpTimeout" -> "timeout"
      [] OTHER -> "runtime_error"

PreflightReasons == {"tool_not_implemented", "disabled", "tool_not_in_allowlist",
                     "args_validation_failed", "missing_upstream_bearer"}
\* Cancelled while waiting: rejected with reason "cancelled", here
\* "wait_cancelled" to tell it from the failure kind.
WaitReasons == {"queue_timeout", "wait_cancelled"}
FailureKinds == {"timeout", "cancelled", "egress_blocked", "validation_error",
                 "runtime_error"}
RejectReasons == PreflightReasons \cup WaitReasons \cup {"queue_full"}
Outcomes == {"none", "success"} \cup RejectReasons \cup FailureKinds

-----------------------------------------------------------------------------
(* Who holds what.                                                         *)

Phases == {"idle", "received", "wait_global", "wait_tool", "refused", "running",
           "finished", "released", "reporting", "answered"}

\* A slot with no invocation in it.
NoRequest == [tool |-> "none", argsValid |-> FALSE, credential |-> FALSE]

\* The phases in which a call holds a permit of each semaphore.
QueuePhases == {"wait_global", "wait_tool", "refused", "running", "finished", "released"}
GlobalPhases == {"wait_tool", "running", "finished"}
ToolPhases == {"running", "finished"}

QueueHolders == {c \in Calls : pc[c] \in QueuePhases}
GlobalHolders == {c \in Calls : pc[c] \in GlobalPhases}
ToolHolders(t) == {c \in Calls : pc[c] \in ToolPhases /\ req[c].tool = t}

GlobalWaiters == {c \in Calls : pc[c] = "wait_global"}
ToolWaiters(t) == {c \in Calls : pc[c] = "wait_tool" /\ req[c].tool = t}

\* tokio semaphores are fair: c joins behind the waiters in front and leaves
\* the line of everyone who was behind it.
Requeue(c, front) ==
    ahead' = [d \in Calls |-> IF d = c THEN front ELSE ahead[d] \ {c}]

\* The permits given back by dropping acquire_fut: the global one when the
\* call was already waiting for its tool.
\* Mutant: acquire_fut leaks the global permit it already holds.
LeakedByWaiter(c) == 0
HeldByWaiter(c) == IF pc[c] = "wait_tool" THEN 1 ELSE 0

-----------------------------------------------------------------------------
Init ==
    /\ pc = [c \in Calls |-> "idle"]
    /\ req = [c \in Calls |-> NoRequest]
    /\ queue = max_queue
    /\ global = max_concurrent_global
    /\ per_tool = [t \in Tools |-> PerToolPermits(t)]
    /\ ahead = [c \in Calls |-> {}]
    /\ cancelled = [c \in Calls |-> FALSE]
    /\ outcome = [c \in Calls |-> "none"]
    /\ audit = [c \in Calls |-> <<>>]

\* A request reaches the handler of POST /mcp/invoke.
Receive(c, r) ==
    /\ pc[c] = "idle"
    /\ pc' = [pc EXCEPT ![c] = "received"]
    /\ req' = [req EXCEPT ![c] = r]
    /\ UNCHANGED <<permits, ahead, cancelled, outcome, audit>>

\* The invocation is over: its locals go out of scope, the slot is free.
Vacate(c) ==
    /\ pc' = [pc EXCEPT ![c] = "idle"]
    /\ req' = [req EXCEPT ![c] = NoRequest]
    /\ cancelled' = [cancelled EXCEPT ![c] = FALSE]
    /\ outcome' = [outcome EXCEPT ![c] = "none"]
    /\ audit' = [audit EXCEPT ![c] = <<>>]

\* The token of the caller fires; execute() looks at it only while waiting
\* for permits and while dispatching.
FireCancel(c) ==
    /\ pc[c] \notin {"idle", "answered"}
    /\ ~cancelled[c]
    /\ cancelled' = [cancelled EXCEPT ![c] = TRUE]
    /\ UNCHANGED <<pc, req, permits, ahead, outcome, audit>>

\* The emit_ functions: events are appended to the trail of the call.
Emit(c, events) == audit' = [audit EXCEPT ![c] = @ \o events]

\* emit_rejected and return.
Reject(c, reason) ==
    /\ outcome' = [outcome EXCEPT ![c] = reason]
    /\ Emit(c, <<"rejected">>)
    /\ pc' = [pc EXCEPT ![c] = "answered"]

\* Steps 1, 2 and 2.5: resolve, validate, upstream credential.
RejectPreflight(c) ==
    /\ pc[c] = "received"
    /\ PreflightReason(req[c]) # "ok"
    /\ Reject(c, PreflightReason(req[c]))
    /\ UNCHANGED <<req, permits, ahead, cancelled>>

\* Step 3: try_acquire on the admission queue fails.
\* Mutant: the admission test lets one call too many in.
QueueHasRoomOffByOne == queue + 1 > 0
QueueHasRoom == queue > 0

RejectQueueFull(c) ==
    /\ pc[c] = "received"
    /\ PreflightReason(req[c]) = "ok"
    /\ ~QueueHasRoom
    /\ Reject(c, "queue_full")
    /\ UNCHANGED <<req, permits, ahead, cancelled>>

\* Step 3: admitted; the call joins the line of the global semaphore.
Admit(c) ==
    /\ pc[c] = "received"
    /\ PreflightReason(req[c]) = "ok"
    /\ QueueHasRoom
    /\ queue' = queue - 1
    /\ pc' = [pc EXCEPT ![c] = "wait_global"]
    /\ Requeue(c, GlobalWaiters)
    /\ UNCHANGED <<req, global, per_tool, cancelled, outcome, audit>>

\* Step 4, first half: the global permit; the call joins its tool's line.
AcquireGlobal(c) ==
    /\ pc[c] = "wait_global"
    /\ ahead[c] = {}
    /\ global > 0
    /\ global' = global - 1
    /\ pc' = [pc EXCEPT ![c] = "wait_tool"]
    /\ Requeue(c, ToolWaiters(req[c].tool))
    /\ UNCHANGED <<req, queue, per_tool, cancelled, outcome, audit>>

\* Step 4, second half, and step 5: the tool permit, then emit_start.
\* Mutant: the tool semaphore is not consulted.
ToolPermitIgnored(c) == pc[c] = "wait_tool" /\ ahead[c] = {}
ToolPermitFree(c) ==
    /\ pc[c] = "wait_tool"
    /\ ahead[c] = {}
    /\ per_tool[req[c].tool] > 0

AcquireTool(c) ==
    /\ ToolPermitFree(c)
    /\ per_tool' = [per_tool EXCEPT ![req[c].tool] = @ - 1]
    /\ pc' = [pc EXCEPT ![c] = "running"]
    /\ Emit(c, <<"start">>)
    /\ Requeue(c, {})
    /\ UNCHANGED <<req, queue, global, cancelled, outcome>>

\* The select! of step 4 gives up: acquire_fut is dropped with what it holds,
\* then the reject branch runs while the queue permit is still held.
AbandonWait(c, reason) ==
    /\ pc[c] \in {"wait_global", "wait_tool"}
    /\ global' = global + HeldByWaiter(c)
    /\ pc' = [pc EXCEPT ![c] = "refused"]
    /\ outcome' = [outcome EXCEPT ![c] = reason]
    /\ Requeue(c, {})
    /\ UNCHANGED <<req, queue, per_tool, cancelled, audit>>

\* Mutant: the timer covers the wait for the global permit only.
TimerOnGlobalOnly(c) == pc[c] = "wait_global"
QueueTimerArmed(c) == pc[c] \in {"wait_global", "wait_tool"}

QueueTimeout(c) == QueueTimerArmed(c) /\ AbandonWait(c, "queue_timeout")
CancelWait(c) == cancelled[c] /\ AbandonWait(c, "wait_cancelled")

\* The reject branch: emit_rejected, then the queue permit goes out of scope.
RejectWaiter(c) ==
    /\ pc[c] = "refused"
    /\ Emit(c, <<"rejected">>)
    /\ queue' = queue + 1
    /\ pc' = [pc EXCEPT ![c] = "answered"]
    /\ UNCHANGED <<req, global, per_tool, ahead, cancelled, outcome>>

\* Step 6: dispatch returns, times out, or is cancelled.
Finish(c, o) ==
    /\ pc[c] = "running"
    /\ pc' = [pc EXCEPT ![c] = "finished"]
    /\ outcome' = [outcome EXCEPT ![c] = o]
    /\ UNCHANGED <<req, permits, ahead, cancelled, audit>>

DispatchOk(c) == Finish(c, "success")
DispatchErr(c, e) == Finish(c, classify_egress_error(e))
ToolTimeout(c) == Finish(c, "timeout")
CancelRunning(c) == cancelled[c] /\ Finish(c, "cancelled")

\* drop(permits), then drop(queue_permit), both before the final event.
FreeToolPermit(c) == [per_tool EXCEPT ![req[c].tool] = @ + 1]

DropPermits(c) ==
    /\ pc[c] = "finished"
    /\ global' = global + 1
    /\ per_tool' = FreeToolPermit(c)
    /\ pc' = [pc EXCEPT ![c] = "released"]
    /\ UNCHANGED <<req, queue, ahead, cancelled, outcome, audit>>

\* Mutant: the place in the queue is not given back.
KeepQueuePermit(c) ==
    /\ pc[c] = "released"
    /\ pc' = [pc EXCEPT ![c] = "reporting"]
    /\ UNCHANGED <<req, permits, ahead, cancelled, outcome, audit>>

DropQueuePermit(c) ==
    /\ pc[c] = "released"
    /\ queue' = queue + 1
    /\ pc' = [pc EXCEPT ![c] = "reporting"]
    /\ UNCHANGED <<req, global, per_tool, ahead, cancelled, outcome, audit>>

\* The events of the final match on Outcome.
\* Mutant: a blocked egress is reported without the failure event.
BlockedWithoutFailure(o) ==
    CASE o = "success" -> <<"success">>
      [] o = "egress_blocked" -> <<"egress_blocked">>
      [] OTHER -> <<"failure">>
TerminalEvents(o) ==
    CASE o = "success" -> <<"success">>
      [] o = "egress_blocked" -> <<"egress_blocked", "failure">>
      [] OTHER -> <<"failure">>

Report(c) ==
    /\ pc[c] = "reporting"
    /\ Emit(c, TerminalEvents(outcome[c]))
    /\ pc' = [pc EXCEPT ![c] = "answered"]
    /\ UNCHANGED <<req, permits, ahead, cancelled, outcome>>

\* The reply is written.
Reply(c) ==
    /\ pc[c] = "answered"
    /\ Vacate(c)
    /\ UNCHANGED <<permits, ahead>>

\* The client disconnects: the handler future is dropped at an await, its
\* permits are released by their destructors and nothing is emitted.
Disconnect(c) ==
    /\ pc[c] \in {"wait_global", "wait_tool", "running"}
    /\ queue' = queue + 1
    /\ global' = global + IF pc[c] = "running" THEN 1 ELSE HeldByWaiter(c)
    /\ per_tool' = IF pc[c] = "running" THEN FreeToolPermit(c) ELSE per_tool
    /\ Requeue(c, {})
    /\ Vacate(c)

\* One step of the invocation in slot c.
Step(c) ==
    \/ RejectPreflight(c) \/ RejectQueueFull(c) \/ Admit(c)
    \/ AcquireGlobal(c) \/ AcquireTool(c)
    \/ QueueTimeout(c) \/ CancelWait(c) \/ RejectWaiter(c)
    \/ DispatchOk(c) \/ (\E e \in EgressErrors : DispatchErr(c, e))
    \/ ToolTimeout(c) \/ CancelRunning(c)
    \/ DropPermits(c) \/ DropQueuePermit(c) \/ Report(c) \/ Reply(c)

Next ==
    \E c \in Calls :
        \/ \E r \in Inputs : Receive(c, r)
        \/ FireCancel(c)
        \/ Step(c)
        \/ Disconnect(c)

Spec == Init /\ [][Next]_vars

-----------------------------------------------------------------------------
(* Fairness.  A task that can run is polled, and a tokio timer that is     *)
(* armed fires; nothing makes a tool return or a permit become free.       *)

TaskSteps(c) ==
    \/ RejectPreflight(c) \/ RejectQueueFull(c) \/ Admit(c) \/ RejectWaiter(c)
    \/ DropPermits(c) \/ DropQueuePermit(c) \/ Report(c)

\* A tool ends, be it by its own timeout.
LiveSpec == Spec /\ \A c \in Calls : WF_vars(TaskSteps(c)) /\ WF_vars(ToolTimeout(c))

\* What else a waiting call can rely on: its queue timer, or, should that
\* never fire, permits that are taken when it is their turn.
TimersFire == \A c \in Calls : WF_vars(QueueTimeout(c))
PermitsTaken == \A c \in Calls : WF_vars(AcquireGlobal(c)) /\ WF_vars(AcquireTool(c))

-----------------------------------------------------------------------------
(* The router as a bounded service.  A call executes from the moment both  *)
(* permits are held until they are dropped; "released" still occupies its  *)
(* place in the queue but no longer executes.                              *)

ServiceState(p) ==
    CASE p = "idle" -> "idle"
      [] p = "received" -> "offered"
      [] p \in {"wait_global", "wait_tool", "refused"} -> "admitted"
      [] p \in {"running", "finished"} -> "executing"
      [] p \in {"released", "reporting"} -> "closing"
      [] p = "answered" -> "answered"

Service == INSTANCE ToolService WITH
    NoTool <- "none",
    Cap <- [t \in Tools |-> PerToolPermits(t)],
    MaxRunning <- max_concurrent_global,
    MaxAdmitted <- max_queue,
    state <- [c \in Calls |-> ServiceState(pc[c])],
    tool <- [c \in Calls |-> req[c].tool]

\* execute() with its three semaphores implements the bounded service: no
\* interleaving admits or starts a call the bounds forbid.
ImplementsService == Service!SSpec

-----------------------------------------------------------------------------
(* Properties.                                                             *)

TypeOK ==
    /\ pc \in [Calls -> Phases]
    /\ req \in [Calls -> Requests \cup {NoRequest}]
    /\ \A c \in Calls : pc[c] # "idle" => req[c] \in Requests
    /\ queue \in Nat /\ global \in Nat /\ per_tool \in [Tools -> Nat]
    /\ ahead \in [Calls -> SUBSET Calls]
    /\ cancelled \in [Calls -> BOOLEAN]
    /\ outcome \in [Calls -> Outcomes]
    /\ audit \in [Calls -> Seq({"rejected", "start", "success", "failure",
                                "egress_blocked"})]

\* No path through execute() - refusal, timer, cancellation, disconnect or
\* completion - leaks a permit or gives one back twice: the free permits of
\* each semaphore and the calls that hold one always add up to its size.
PermitsConserved ==
    /\ queue + Cardinality(QueueHolders) = max_queue
    /\ global + Cardinality(GlobalHolders) = max_concurrent_global
    /\ \A t \in Tools : per_tool[t] + Cardinality(ToolHolders(t)) = PerToolPermits(t)

\* Strengthening of the two properties below that a step preserves: what is
\* known of a call in every phase of execute().
PhaseInv ==
    \A c \in Calls :
        /\ pc[c] \in QueuePhases \cup {"reporting"} => PreflightReason(req[c]) = "ok"
        /\ pc[c] \in {"idle", "received", "wait_global", "wait_tool", "refused"} =>
                audit[c] = <<>>
        /\ pc[c] = "refused" => outcome[c] \in WaitReasons
        /\ pc[c] \in {"running", "finished", "released", "reporting"} =>
                audit[c] = <<"start">>
        /\ pc[c] \in {"finished", "released", "reporting"} =>
                outcome[c] \in {"success"} \cup FailureKinds

\* At most max_queue calls are admitted, at most max_concurrent_global tools
\* execute, and at most its own cap of each tool.
Executing(t) == {c \in Calls : pc[c] = "running" /\ req[c].tool = t}
ConcurrencyCaps ==
    /\ Cardinality(QueueHolders) <= max_queue
    /\ Cardinality({c \in Calls : pc[c] = "running"}) <= max_concurrent_global
    /\ \A t \in Tools : Cardinality(Executing(t)) <= PerToolPermits(t)

\* Only a request that passed every check of steps 1 to 2.5 is ever executed:
\* its tool is implemented and allowed, its arguments are valid, and what must
\* be forwarded upstream is there.
OnlyVettedToolsRun ==
    \A c \in Calls : pc[c] \in {"running", "finished", "released", "reporting"} =>
        /\ req[c].tool \in Supported
        /\ Allowlist[req[c].tool] # "disabled"
        /\ Allowlist[req[c].tool] = "absent" => DefaultAllow
        /\ req[c].argsValid
        /\ HasUpstreamCredential(req[c])

\* An answered call left exactly the audit trail its answer calls for: one
\* rejection and nothing else, or a start followed by one terminal event.  A
\* call cancelled while it waits counts as a rejection, which is what the code
\* records; CancellationIsFailure is what the documentation says of it.
AuditMatchesAnswer ==
    \A c \in Calls : pc[c] = "answered" =>
        audit[c] = CASE outcome[c] \in RejectReasons -> <<"rejected">>
                     [] outcome[c] = "success" -> <<"start", "success">>
                     [] outcome[c] = "egress_blocked" ->
                            <<"start", "egress_blocked", "failure">>
                     [] OTHER -> <<"start", "failure">>

\* Backpressure is never spurious: a call is refused with queue_full only in
\* a state where max_queue other calls are admitted.
QueueFullIsTrue ==
    [][\A c \in Calls : outcome'[c] = "queue_full" /\ outcome[c] # "queue_full" =>
            Cardinality(QueueHolders \ {c}) = max_queue]_vars

\* docs/TOOL_EXECUTION.md on the two semaphores: "This prevents ... a single
\* tool from starving all others".  A tool whose own cap is below the global
\* one never occupies every global permit while another tool's call, whose
\* tool permit is free, waits for one.
NoToolStarvesOthers ==
    \A c \in GlobalWaiters, t \in Tools :
        ~ /\ t # req[c].tool
          /\ PerToolPermits(t) < max_concurrent_global
          /\ per_tool[req[c].tool] > 0
          /\ global = 0
          /\ \A d \in GlobalHolders : req[d].tool = t

\* docs/TOOL_EXECUTION.md on cancellation: the router will "stop waiting for
\* permits, and/or abort an in-flight tool call with `tool.invoke_failure`
\* error_kind `cancelled`".
CancellationIsFailure ==
    \A c \in Calls : pc[c] = "answered" /\ outcome[c] \in {"cancelled", "wait_cancelled"} =>
        \E i \in DOMAIN audit[c] : audit[c][i] = "failure"

\* Every call that reaches the router is answered, or its client leaves: by
\* the queue timer alone, whatever becomes of the permits, and by the FIFO
\* semaphores alone, should the timer never fire.
EveryCallAnswered ==
    TimersFire \/ PermitsTaken =>
        \A c \in Calls : pc[c] = "received" ~> pc[c] \in {"answered", "idle"}
=============================================================================
