---------------------------- MODULE ToolService -----------------------------
(***************************************************************************)
(* What the tool router promises its callers, without semaphores, timers   *)
(* or audit events: a call is offered, is admitted or refused, executes or *)
(* is refused, and is answered; at most MaxAdmitted calls are in the       *)
(* service, at most MaxRunning execute, at most Cap[t] of them tool t.     *)
(***************************************************************************)
EXTENDS Naturals, FiniteSets

CONSTANTS Calls, Tools, NoTool, Cap, MaxRunning, MaxAdmitted

VARIABLES
    state,  \* "idle" | "offered" | "admitted" | "executing" | "closing" | "answered"
    tool    \* the tool of the call

svars == <<state, tool>>

Admitted == {c \in Calls : state[c] \in {"admitted", "executing"}}
Running == {c \in Calls : state[c] = "executing"}
RunningTool(t) == {c \in Running : tool[c] = t}

SInit ==
    /\ state = [c \in Calls |-> "idle"]
    /\ tool = [c \in Calls |-> NoTool]

Move(c, from, to) ==
    /\ state[c] \in from
    /\ state' = [state EXCEPT ![c] = to]
    /\ tool' = tool

Offer(c, t) ==
    /\ state[c] = "idle"
    /\ state' = [state EXCEPT ![c] = "offered"]
    /\ tool' = [tool EXCEPT ![c] = t]

Accept(c) == Move(c, {"offered"}, "admitted") /\ Cardinality(Admitted) < MaxAdmitted

Execute(c) ==
    /\ Move(c, {"admitted"}, "executing")
    /\ Cardinality(Running) < MaxRunning
    /\ Cardinality(RunningTool(tool[c])) < Cap[tool[c]]

Complete(c) == Move(c, {"executing"}, "closing")

Answer(c) == Move(c, {"offered", "admitted", "closing"}, "answered")

\* The answer is delivered, or the caller goes away while it is served.
Leave(c) ==
    /\ state[c] \in {"admitted", "executing", "answered"}
    /\ state' = [state EXCEPT ![c] = "idle"]
    /\ tool' = [tool EXCEPT ![c] = NoTool]

SNext == \E c \in Calls :
    \/ \E t \in Tools : Offer(c, t)
    \/ Accept(c) \/ Execute(c) \/ Complete(c) \/ Answer(c) \/ Leave(c)

SSpec == SInit /\ [][SNext]_svars
=============================================================================
