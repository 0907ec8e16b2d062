-------------------------- MODULE ToolRouterProofs --------------------------
(***************************************************************************)
(* Proofs about ToolRouter, for every number of calls, every tool set,     *)
(* every configuration of limits and every policy.                         *)
(***************************************************************************)
EXTENDS ToolRouter, FiniteSetTheorems, SequenceTheorems, TLAPS

USE DEF Emit

\* 1 when a call counts, 0 when it does not.
Bit(b) == IF b THEN 1 ELSE 0

\* Two sets of calls that agree outside c differ in size by c alone.
LEMMA CountMove ==
    ASSUME NEW S \in SUBSET Calls, NEW T \in SUBSET Calls, NEW c \in Calls,
           \A d \in Calls \ {c} : d \in S <=> d \in T
    PROVE  /\ Cardinality(S) \in Nat
           /\ Cardinality(T) = Cardinality(S) + Bit(c \in T) - Bit(c \in S)
<1>1. IsFiniteSet(S) /\ IsFiniteSet(T)
    BY CallsFinite, FS_Subset
<1>2. Cardinality(S) \in Nat /\ Cardinality(T) \in Nat
    BY <1>1, FS_CardinalityType
<1>3. CASE c \in S /\ c \notin T
    <2>1. T = S \ {c}
        BY <1>3
    <2>2. QED
        BY <2>1, <1>1, <1>2, <1>3, FS_RemoveElement DEF Bit
<1>4. CASE c \notin S /\ c \in T
    <2>1. T = S \cup {c}
        BY <1>4
    <2>2. QED
        BY <2>1, <1>1, <1>2, <1>4, FS_AddElement DEF Bit
<1>5. CASE (c \in S) = (c \in T)
    <2>1. T = S
        BY <1>5
    <2>2. QED
        BY <2>1, <1>2, <1>5 DEF Bit
<1>6. QED
    BY <1>3, <1>4, <1>5

\* How the holders of each semaphore change when one call changes phase.
LEMMA HoldersMove ==
    ASSUME TypeOK, NEW c \in Calls, NEW p \in Phases,
           pc' = [pc EXCEPT ![c] = p],
           \A d \in Calls \ {c} : req'[d] = req[d]
    PROVE  /\ Cardinality(QueueHolders) \in Nat
           /\ Cardinality(QueueHolders') = Cardinality(QueueHolders)
                    + Bit(p \in QueuePhases) - Bit(pc[c] \in QueuePhases)
           /\ Cardinality(GlobalHolders) \in Nat
           /\ Cardinality(GlobalHolders') = Cardinality(GlobalHolders)
                    + Bit(p \in GlobalPhases) - Bit(pc[c] \in GlobalPhases)
           /\ \A t \in Tools :
                /\ Cardinality(ToolHolders(t)) \in Nat
                /\ Cardinality(ToolHolders(t)') = Cardinality(ToolHolders(t))
                    + Bit(p \in ToolPhases /\ req'[c].tool = t)
                    - Bit(pc[c] \in ToolPhases /\ req[c].tool = t)
<1>1. pc'[c] = p /\ \A d \in Calls \ {c} : pc'[d] = pc[d]
    BY DEF TypeOK
<1>2. /\ Cardinality(QueueHolders) \in Nat
      /\ Cardinality(QueueHolders') = Cardinality(QueueHolders)
                    + Bit(p \in QueuePhases) - Bit(pc[c] \in QueuePhases)
    <2>1. /\ QueueHolders \in SUBSET Calls /\ QueueHolders' \in SUBSET Calls
          /\ \A d \in Calls \ {c} : d \in QueueHolders <=> d \in QueueHolders'
          /\ c \in QueueHolders' <=> p \in QueuePhases
          /\ c \in QueueHolders <=> pc[c] \in QueuePhases
        BY <1>1 DEF QueueHolders
    <2> HIDE DEF QueueHolders
    <2>2. QED
        BY <2>1, CountMove DEF Bit
<1>3. /\ Cardinality(GlobalHolders) \in Nat
      /\ Cardinality(GlobalHolders') = Cardinality(GlobalHolders)
                    + Bit(p \in GlobalPhases) - Bit(pc[c] \in GlobalPhases)
    <2>1. /\ GlobalHolders \in SUBSET Calls /\ GlobalHolders' \in SUBSET Calls
          /\ \A d \in Calls \ {c} : d \in GlobalHolders <=> d \in GlobalHolders'
          /\ c \in GlobalHolders' <=> p \in GlobalPhases
          /\ c \in GlobalHolders <=> pc[c] \in GlobalPhases
        BY <1>1 DEF GlobalHolders
    <2>2. QED
        BY <2>1, CountMove DEF Bit
<1>4. ASSUME NEW t \in Tools
      PROVE  /\ Cardinality(ToolHolders(t)) \in Nat
             /\ Cardinality(ToolHolders(t)') = Cardinality(ToolHolders(t))
                    + Bit(p \in ToolPhases /\ req'[c].tool = t)
                    - Bit(pc[c] \in ToolPhases /\ req[c].tool = t)
    <2>1. /\ ToolHolders(t) \in SUBSET Calls /\ ToolHolders(t)' \in SUBSET Calls
          /\ \A d \in Calls \ {c} : d \in ToolHolders(t) <=> d \in ToolHolders(t)'
          /\ c \in ToolHolders(t)' <=> p \in ToolPhases /\ req'[c].tool = t
          /\ c \in ToolHolders(t) <=> pc[c] \in ToolPhases /\ req[c].tool = t
        BY <1>1 DEF ToolHolders
    <2>2. QED
        BY <2>1, CountMove DEF Bit
<1>5. QED
    BY <1>2, <1>3, <1>4

-----------------------------------------------------------------------------
(* Type correctness.                                                       *)

Events == {"rejected", "start", "success", "failure", "egress_blocked"}

LEMMA TerminalEventsType ==
    ASSUME NEW o PROVE TerminalEvents(o) \in Seq(Events)
<1>1. CASE o = "success"
    BY <1>1 DEF TerminalEvents, Events
<1>2. CASE o = "egress_blocked"
    <2>1. <<"egress_blocked", "failure">> \in Seq(Events)
        BY DEF Events
    <2>2. QED
        BY <1>2, <2>1 DEF TerminalEvents
<1>3. CASE o # "success" /\ o # "egress_blocked"
    <2>1. <<"failure">> \in Seq(Events)
        BY DEF Events
    <2>2. QED
        BY <1>3, <2>1 DEF TerminalEvents
<1>4. QED
    BY <1>1, <1>2, <1>3

\* Giving a tool permit back keeps the counters natural numbers.
LEMMA FreeToolPermitType ==
    ASSUME TypeOK, NEW c \in Calls, pc[c] # "idle"
    PROVE  FreeToolPermit(c) \in [Tools -> Nat]
<1>1. req[c].tool \in Tools
    BY DEF TypeOK, Requests
<1>2. per_tool \in [Tools -> Nat] /\ per_tool[req[c].tool] + 1 \in Nat
    BY <1>1 DEF TypeOK
<1>3. QED
    BY <1>2 DEF FreeToolPermit

LEMMA EgressKind ==
    ASSUME NEW e \in EgressErrors PROVE classify_egress_error(e) \in FailureKinds
BY DEF EgressErrors, classify_egress_error, FailureKinds

LEMMA PreflightReasonType ==
    ASSUME NEW r, PreflightReason(r) # "ok"
    PROVE  PreflightReason(r) \in PreflightReasons
BY DEF PreflightReason, PreflightReasons, resolve_tool

LEMMA OutcomesCover ==
    /\ PreflightReasons \subseteq Outcomes
    /\ WaitReasons \subseteq Outcomes
    /\ FailureKinds \subseteq Outcomes
    /\ {"none", "success", "queue_full"} \subseteq Outcomes
BY DEF Outcomes, RejectReasons

\* Every variable of the router keeps its type; the free-permit counters
\* stay natural numbers because a permit is taken only when one is free.
LEMMA TypeStep == TypeOK /\ [Next]_vars => TypeOK'
<1> SUFFICES ASSUME TypeOK, [Next]_vars PROVE TypeOK'
    OBVIOUS
<1> USE DEF TypeOK, Phases
<1>1. ASSUME NEW c \in Calls, NEW r \in Inputs, Receive(c, r) PROVE TypeOK'
    <2>1. r \in Requests
        BY ConfigAssumption
    <2>2. QED
        BY <1>1, <2>1 DEF Receive, permits
<1>2. ASSUME NEW c \in Calls, FireCancel(c) PROVE TypeOK'
    BY <1>2 DEF FireCancel, permits
<1>3. ASSUME NEW c \in Calls, RejectPreflight(c) PROVE TypeOK'
    <2>1. PreflightReason(req[c]) \in Outcomes
        BY <1>3, PreflightReasonType, OutcomesCover DEF RejectPreflight
    <2>2. QED
        BY <1>3, <2>1 DEF RejectPreflight, Reject, permits
<1>4. ASSUME NEW c \in Calls, RejectQueueFull(c) PROVE TypeOK'
    BY <1>4, OutcomesCover DEF RejectQueueFull, Reject, permits
<1>5. ASSUME NEW c \in Calls, Admit(c) PROVE TypeOK'
    BY <1>5 DEF Admit, Requeue, QueueHasRoom, GlobalWaiters
<1>6. ASSUME NEW c \in Calls, AcquireGlobal(c) PROVE TypeOK'
    BY <1>6 DEF AcquireGlobal, Requeue, ToolWaiters
<1>7. ASSUME NEW c \in Calls, AcquireTool(c) PROVE TypeOK'
    <2>1. req[c].tool \in Tools
        BY <1>7 DEF AcquireTool, ToolPermitFree, Requests
    <2>2. QED
        BY <1>7, <2>1 DEF AcquireTool, ToolPermitFree, Requeue
<1>8. ASSUME NEW c \in Calls, NEW o \in WaitReasons, AbandonWait(c, o) PROVE TypeOK'
    BY <1>8, OutcomesCover DEF AbandonWait, HeldByWaiter, Requeue
<1>9. ASSUME NEW c \in Calls, RejectWaiter(c) PROVE TypeOK'
    BY <1>9 DEF RejectWaiter
<1>10. ASSUME NEW c \in Calls, NEW o \in FailureKinds \cup {"success"}, Finish(c, o)
       PROVE TypeOK'
    BY <1>10, OutcomesCover DEF Finish, permits
<1>11. ASSUME NEW c \in Calls, DropPermits(c) PROVE TypeOK'
    BY <1>11, FreeToolPermitType DEF DropPermits
<1>12. ASSUME NEW c \in Calls, DropQueuePermit(c) PROVE TypeOK'
    BY <1>12 DEF DropQueuePermit
<1>13. ASSUME NEW c \in Calls, Report(c) PROVE TypeOK'
    <2>1. TerminalEvents(outcome[c]) \in Seq(Events)
        BY TerminalEventsType
    <2>2. audit[c] \o TerminalEvents(outcome[c]) \in Seq(Events)
        BY <2>1 DEF Events
    <2>3. QED
        BY <1>13, <2>2 DEF Report, permits, Events
<1>14. ASSUME NEW c \in Calls, Reply(c) PROVE TypeOK'
    BY <1>14, OutcomesCover DEF Reply, Vacate, permits
<1>15. ASSUME NEW c \in Calls, Disconnect(c) PROVE TypeOK'
    <2>1. per_tool' \in [Tools -> Nat]
        BY <1>15, FreeToolPermitType DEF Disconnect
    <2>2. global' \in Nat /\ queue' \in Nat
        BY <1>15 DEF Disconnect, HeldByWaiter
    <2>3. QED
        BY <1>15, <2>1, <2>2, OutcomesCover DEF Disconnect, Vacate, Requeue
<1>16. CASE UNCHANGED vars
    BY <1>16 DEF vars
<1>17. "queue_timeout" \in WaitReasons /\ "wait_cancelled" \in WaitReasons
       /\ "timeout" \in FailureKinds /\ "cancelled" \in FailureKinds
    BY DEF WaitReasons, FailureKinds
<1>18. QED
    BY <1>1, <1>2, <1>3, <1>4, <1>5, <1>6, <1>7, <1>8, <1>9, <1>10, <1>11, <1>12,
       <1>13, <1>14, <1>15, <1>16, <1>17, EgressKind
       DEF Next, Step, QueueTimeout, CancelWait, DispatchOk, DispatchErr,
           ToolTimeout, CancelRunning

LEMMA TypeInit == Init => TypeOK
BY ConfigAssumption, OutcomesCover DEF Init, TypeOK, PerToolPermits, Phases

\* The router stays in its types whatever the clients, timers and tools do.
THEOREM TypeCorrect == Spec => []TypeOK
BY TypeInit, TypeStep, PTL DEF Spec

-----------------------------------------------------------------------------
(* Permits are conserved.  TypeOK and PermitsConserved together are        *)
(* inductive: each phase change moves the call in or out of the holder     *)
(* sets (HoldersMove) exactly as the action moves the counters.            *)

LEMMA ConservedInit == Init => PermitsConserved
<1> SUFFICES ASSUME Init PROVE PermitsConserved
    OBVIOUS
<1>1. QueueHolders = {} /\ GlobalHolders = {} /\ \A t \in Tools : ToolHolders(t) = {}
    BY DEF Init, QueueHolders, GlobalHolders, ToolHolders, QueuePhases, GlobalPhases,
           ToolPhases
<1>2. Cardinality({}) = 0
    BY FS_EmptySet
<1>3. \A t \in Tools : PerToolPermits(t) \in Nat
    BY ConfigAssumption DEF PerToolPermits
<1>4. queue + Cardinality(QueueHolders) = max_queue
    BY <1>1, <1>2, ConfigAssumption DEF Init
<1>5. global + Cardinality(GlobalHolders) = max_concurrent_global
    BY <1>1, <1>2, ConfigAssumption DEF Init
<1>6. ASSUME NEW t \in Tools
      PROVE  per_tool[t] + Cardinality(ToolHolders(t)) = PerToolPermits(t)
    <2>1. per_tool[t] = PerToolPermits(t) /\ ToolHolders(t) = {}
        BY <1>1 DEF Init
    <2>2. QED
        BY <2>1, <1>2, <1>3
<1>7. QED
    BY <1>4, <1>5, <1>6 DEF PermitsConserved

\* A step in which one call changes phase conserves permits when each
\* counter moves by exactly what the call gives back or takes.
LEMMA Balance ==
    ASSUME TypeOK, PermitsConserved, NEW c \in Calls, NEW p \in Phases,
           pc' = [pc EXCEPT ![c] = p],
           \A d \in Calls \ {c} : req'[d] = req[d],
           queue' = queue + Bit(pc[c] \in QueuePhases) - Bit(p \in QueuePhases),
           global' = global + Bit(pc[c] \in GlobalPhases) - Bit(p \in GlobalPhases),
           \A t \in Tools : per_tool'[t] = per_tool[t]
                + Bit(pc[c] \in ToolPhases /\ req[c].tool = t)
                - Bit(p \in ToolPhases /\ req'[c].tool = t)
    PROVE  PermitsConserved'
<1>1. queue \in Nat /\ global \in Nat /\ per_tool \in [Tools -> Nat]
    BY DEF TypeOK
<1>2. queue' + Cardinality(QueueHolders') = max_queue
    <2>1. /\ Cardinality(QueueHolders) \in Nat
          /\ Cardinality(QueueHolders') = Cardinality(QueueHolders)
                    + Bit(p \in QueuePhases) - Bit(pc[c] \in QueuePhases)
        BY HoldersMove
    <2>2. queue + Cardinality(QueueHolders) = max_queue
        BY DEF PermitsConserved
    <2>3. QED
        BY <1>1, <2>1, <2>2 DEF Bit
<1>3. global' + Cardinality(GlobalHolders') = max_concurrent_global
    <2>1. /\ Cardinality(GlobalHolders) \in Nat
          /\ Cardinality(GlobalHolders') = Cardinality(GlobalHolders)
                    + Bit(p \in GlobalPhases) - Bit(pc[c] \in GlobalPhases)
        BY HoldersMove
    <2>2. global + Cardinality(GlobalHolders) = max_concurrent_global
        BY DEF PermitsConserved
    <2>3. QED
        BY <1>1, <2>1, <2>2 DEF Bit
<1>4. ASSUME NEW t \in Tools
      PROVE  per_tool'[t] + Cardinality(ToolHolders(t)') = PerToolPermits(t)
    <2>1. per_tool[t] \in Nat
        BY <1>1
    <2>2. per_tool[t] + Cardinality(ToolHolders(t)) = PerToolPermits(t)
        BY DEF PermitsConserved
    <2>3. /\ Cardinality(ToolHolders(t)) \in Nat
          /\ Cardinality(ToolHolders(t)') = Cardinality(ToolHolders(t))
                    + Bit(p \in ToolPhases /\ req'[c].tool = t)
                    - Bit(pc[c] \in ToolPhases /\ req[c].tool = t)
        BY HoldersMove
    <2>4. QED
        BY <2>1, <2>2, <2>3 DEF Bit
<1>5. QED
    BY <1>2, <1>3, <1>4 DEF PermitsConserved, PerToolPermits

LEMMA ConservedStep == TypeOK /\ PermitsConserved /\ [Next]_vars => PermitsConserved'
<1> SUFFICES ASSUME TypeOK, PermitsConserved, [Next]_vars PROVE PermitsConserved'
    OBVIOUS
<1>0. /\ queue \in Nat /\ global \in Nat /\ per_tool \in [Tools -> Nat]
      /\ \A c \in Calls : pc[c] # "idle" => req[c].tool \in Tools
    BY DEF TypeOK, Requests
<1> USE DEF QueuePhases, GlobalPhases, ToolPhases, Bit
\* A step that only moves a call between phases that hold the same permits.
<1>1. ASSUME NEW c \in Calls, NEW p \in Phases,
             pc' = [pc EXCEPT ![c] = p],
             \A d \in Calls \ {c} : req'[d] = req[d],
             UNCHANGED permits,
             p \in QueuePhases <=> pc[c] \in QueuePhases,
             p \in GlobalPhases <=> pc[c] \in GlobalPhases,
             p \in ToolPhases <=> pc[c] \in ToolPhases,
             p \in ToolPhases => req'[c] = req[c]
      PROVE  PermitsConserved'
    <2>1. \A t \in Tools : per_tool'[t] = per_tool[t]
                + Bit(pc[c] \in ToolPhases /\ req[c].tool = t)
                - Bit(p \in ToolPhases /\ req'[c].tool = t)
        BY <1>0, <1>1 DEF permits
    <2>2. /\ queue' = queue + Bit(pc[c] \in QueuePhases) - Bit(p \in QueuePhases)
          /\ global' = global + Bit(pc[c] \in GlobalPhases) - Bit(p \in GlobalPhases)
        BY <1>0, <1>1 DEF permits
    <2> HIDE DEF QueuePhases, GlobalPhases, ToolPhases, Bit
    <2>3. QED
        BY <1>1, <2>1, <2>2, Balance
<1>2. ASSUME NEW c \in Calls, NEW r \in Inputs, Receive(c, r) PROVE PermitsConserved'
    <2>1. "received" \in Phases
        BY DEF Phases
    <2>2. \A d \in Calls \ {c} : req'[d] = req[d]
        BY <1>2 DEF Receive, TypeOK
    <2>3. QED
        BY <1>1, <1>2, <2>1, <2>2 DEF Receive
<1>3. ASSUME NEW c \in Calls, FireCancel(c) PROVE PermitsConserved'
    BY <1>3 DEF FireCancel, permits, PermitsConserved, QueueHolders, GlobalHolders,
                ToolHolders
<1>4. ASSUME NEW c \in Calls, RejectPreflight(c) \/ RejectQueueFull(c)
      PROVE PermitsConserved'
    BY <1>1, <1>4 DEF RejectPreflight, RejectQueueFull, Reject, Phases
<1>5. ASSUME NEW c \in Calls, Admit(c) PROVE PermitsConserved'
    <2> DEFINE p == "wait_global"
    <2>1. p \in Phases /\ pc' = [pc EXCEPT ![c] = p] /\ \A d \in Calls \ {c} : req'[d] = req[d]
        BY <1>5 DEF Phases, Admit
    <2>2. /\ queue' = queue + Bit(pc[c] \in QueuePhases) - Bit(p \in QueuePhases)
          /\ global' = global + Bit(pc[c] \in GlobalPhases) - Bit(p \in GlobalPhases)
        BY <1>0, <1>5 DEF Admit
    <2>3. ASSUME NEW t \in Tools
          PROVE  per_tool'[t] = per_tool[t]
                + Bit(pc[c] \in ToolPhases /\ req[c].tool = t)
                - Bit(p \in ToolPhases /\ req'[c].tool = t)
        BY <1>0, <1>5 DEF Admit
    <2> HIDE DEF QueuePhases, GlobalPhases, ToolPhases, Bit, p
    <2>4. QED
        BY <2>1, <2>2, <2>3, Balance
<1>6. ASSUME NEW c \in Calls, AcquireGlobal(c) PROVE PermitsConserved'
    <2> DEFINE p == "wait_tool"
    <2>1. p \in Phases /\ pc' = [pc EXCEPT ![c] = p] /\ \A d \in Calls \ {c} : req'[d] = req[d]
        BY <1>6 DEF Phases, AcquireGlobal
    <2>2. /\ queue' = queue + Bit(pc[c] \in QueuePhases) - Bit(p \in QueuePhases)
          /\ global' = global + Bit(pc[c] \in GlobalPhases) - Bit(p \in GlobalPhases)
        BY <1>0, <1>6 DEF AcquireGlobal
    <2>3. ASSUME NEW t \in Tools
          PROVE  per_tool'[t] = per_tool[t]
                + Bit(pc[c] \in ToolPhases /\ req[c].tool = t)
                - Bit(p \in ToolPhases /\ req'[c].tool = t)
        BY <1>0, <1>6 DEF AcquireGlobal
    <2> HIDE DEF QueuePhases, GlobalPhases, ToolPhases, Bit, p
    <2>4. QED
        BY <2>1, <2>2, <2>3, Balance
<1>7. ASSUME NEW c \in Calls, AcquireTool(c) PROVE PermitsConserved'
    <2> DEFINE p == "running"
    <2>1. p \in Phases /\ pc' = [pc EXCEPT ![c] = p] /\ \A d \in Calls \ {c} : req'[d] = req[d]
        BY <1>7 DEF Phases, AcquireTool
    <2>2. /\ queue' = queue + Bit(pc[c] \in QueuePhases) - Bit(p \in QueuePhases)
          /\ global' = global + Bit(pc[c] \in GlobalPhases) - Bit(p \in GlobalPhases)
        BY <1>0, <1>7 DEF AcquireTool, ToolPermitFree
    <2>3. ASSUME NEW t \in Tools
          PROVE  per_tool'[t] = per_tool[t]
                + Bit(pc[c] \in ToolPhases /\ req[c].tool = t)
                - Bit(p \in ToolPhases /\ req'[c].tool = t)
        BY <1>0, <1>7 DEF AcquireTool, ToolPermitFree
    <2> HIDE DEF QueuePhases, GlobalPhases, ToolPhases, Bit, p
    <2>4. QED
        BY <2>1, <2>2, <2>3, Balance
<1>8. ASSUME NEW c \in Calls, NEW o, AbandonWait(c, o) PROVE PermitsConserved'
    <2> DEFINE p == "refused"
    <2>1. p \in Phases /\ pc' = [pc EXCEPT ![c] = p] /\ \A d \in Calls \ {c} : req'[d] = req[d]
        BY <1>8 DEF Phases, AbandonWait
    <2>2. /\ queue' = queue + Bit(pc[c] \in QueuePhases) - Bit(p \in QueuePhases)
          /\ global' = global + Bit(pc[c] \in GlobalPhases) - Bit(p \in GlobalPhases)
        BY <1>0, <1>8 DEF AbandonWait, HeldByWaiter
    <2>3. ASSUME NEW t \in Tools
          PROVE  per_tool'[t] = per_tool[t]
                + Bit(pc[c] \in ToolPhases /\ req[c].tool = t)
                - Bit(p \in ToolPhases /\ req'[c].tool = t)
        BY <1>0, <1>8 DEF AbandonWait, HeldByWaiter
    <2> HIDE DEF QueuePhases, GlobalPhases, ToolPhases, Bit, p
    <2>4. QED
        BY <2>1, <2>2, <2>3, Balance
<1>9. ASSUME NEW c \in Calls, RejectWaiter(c) PROVE PermitsConserved'
    <2> DEFINE p == "answered"
    <2>1. p \in Phases /\ pc' = [pc EXCEPT ![c] = p] /\ \A d \in Calls \ {c} : req'[d] = req[d]
        BY <1>9 DEF Phases, RejectWaiter
    <2>2. /\ queue' = queue + Bit(pc[c] \in QueuePhases) - Bit(p \in QueuePhases)
          /\ global' = global + Bit(pc[c] \in GlobalPhases) - Bit(p \in GlobalPhases)
        BY <1>0, <1>9 DEF RejectWaiter
    <2>3. ASSUME NEW t \in Tools
          PROVE  per_tool'[t] = per_tool[t]
                + Bit(pc[c] \in ToolPhases /\ req[c].tool = t)
                - Bit(p \in ToolPhases /\ req'[c].tool = t)
        BY <1>0, <1>9 DEF RejectWaiter
    <2> HIDE DEF QueuePhases, GlobalPhases, ToolPhases, Bit, p
    <2>4. QED
        BY <2>1, <2>2, <2>3, Balance
<1>10. ASSUME NEW c \in Calls, NEW o, Finish(c, o) PROVE PermitsConserved'
    BY <1>1, <1>10 DEF Finish, Phases
<1>11. ASSUME NEW c \in Calls, DropPermits(c) PROVE PermitsConserved'
    <2> DEFINE p == "released"
    <2>1. p \in Phases /\ pc' = [pc EXCEPT ![c] = p] /\ \A d \in Calls \ {c} : req'[d] = req[d]
        BY <1>11 DEF Phases, DropPermits
    <2>2. /\ queue' = queue + Bit(pc[c] \in QueuePhases) - Bit(p \in QueuePhases)
          /\ global' = global + Bit(pc[c] \in GlobalPhases) - Bit(p \in GlobalPhases)
        BY <1>0, <1>11 DEF DropPermits, FreeToolPermit
    <2>3. ASSUME NEW t \in Tools
          PROVE  per_tool'[t] = per_tool[t]
                + Bit(pc[c] \in ToolPhases /\ req[c].tool = t)
                - Bit(p \in ToolPhases /\ req'[c].tool = t)
        BY <1>0, <1>11 DEF DropPermits, FreeToolPermit
    <2> HIDE DEF QueuePhases, GlobalPhases, ToolPhases, Bit, p
    <2>4. QED
        BY <2>1, <2>2, <2>3, Balance
<1>12. ASSUME NEW c \in Calls, DropQueuePermit(c) PROVE PermitsConserved'
    <2> DEFINE p == "reporting"
    <2>1. p \in Phases /\ pc' = [pc EXCEPT ![c] = p] /\ \A d \in Calls \ {c} : req'[d] = req[d]
        BY <1>12 DEF Phases, DropQueuePermit
    <2>2. /\ queue' = queue + Bit(pc[c] \in QueuePhases) - Bit(p \in QueuePhases)
          /\ global' = global + Bit(pc[c] \in GlobalPhases) - Bit(p \in GlobalPhases)
        BY <1>0, <1>12 DEF DropQueuePermit
    <2>3. ASSUME NEW t \in Tools
          PROVE  per_tool'[t] = per_tool[t]
                + Bit(pc[c] \in ToolPhases /\ req[c].tool = t)
                - Bit(p \in ToolPhases /\ req'[c].tool = t)
        BY <1>0, <1>12 DEF DropQueuePermit
    <2> HIDE DEF QueuePhases, GlobalPhases, ToolPhases, Bit, p
    <2>4. QED
        BY <2>1, <2>2, <2>3, Balance
<1>13. ASSUME NEW c \in Calls, Report(c) PROVE PermitsConserved'
    BY <1>1, <1>13 DEF Report, Phases
<1>14. ASSUME NEW c \in Calls, Reply(c) PROVE PermitsConserved'
    <2>1. "idle" \in Phases
        BY DEF Phases
    <2>2. \A d \in Calls \ {c} : req'[d] = req[d]
        BY <1>14 DEF Reply, Vacate, TypeOK
    <2>3. QED
        BY <1>1, <1>14, <2>1, <2>2 DEF Reply, Vacate
<1>15. ASSUME NEW c \in Calls, Disconnect(c) PROVE PermitsConserved'
    <2> DEFINE p == "idle"
    <2>1. p \in Phases /\ pc' = [pc EXCEPT ![c] = p] /\ \A d \in Calls \ {c} : req'[d] = req[d]
        BY <1>15 DEF Phases, Disconnect, Vacate, TypeOK
    <2>2. /\ queue' = queue + Bit(pc[c] \in QueuePhases) - Bit(p \in QueuePhases)
          /\ global' = global + Bit(pc[c] \in GlobalPhases) - Bit(p \in GlobalPhases)
        BY <1>0, <1>15 DEF Disconnect, Vacate, HeldByWaiter, FreeToolPermit
    <2>3. ASSUME NEW t \in Tools
          PROVE  per_tool'[t] = per_tool[t]
                + Bit(pc[c] \in ToolPhases /\ req[c].tool = t)
                - Bit(p \in ToolPhases /\ req'[c].tool = t)
        BY <1>0, <1>15 DEF Disconnect, Vacate, HeldByWaiter, FreeToolPermit
    <2> HIDE DEF QueuePhases, GlobalPhases, ToolPhases, Bit, p
    <2>4. QED
        BY <2>1, <2>2, <2>3, Balance
<1>16. CASE UNCHANGED vars
    BY <1>16 DEF vars, PermitsConserved, QueueHolders, GlobalHolders, ToolHolders
<1>17. QED
    BY <1>2, <1>3, <1>4, <1>5, <1>6, <1>7, <1>8, <1>9, <1>10, <1>11, <1>12, <1>13,
       <1>14, <1>15, <1>16
       DEF Next, Step, QueueTimeout, CancelWait, DispatchOk, DispatchErr,
           ToolTimeout, CancelRunning

\* Whatever mixture of refusals, timers, cancellations, disconnects and
\* completions happens, no permit of the three semaphores is lost or doubled.
THEOREM PermitConservation == Spec => []PermitsConserved
<1>1. Init => TypeOK /\ PermitsConserved
    BY TypeInit, ConservedInit
<1>2. TypeOK /\ PermitsConserved /\ [Next]_vars => (TypeOK /\ PermitsConserved)'
    BY TypeStep, ConservedStep
<1>3. QED
    BY <1>1, <1>2, PTL DEF Spec

-----------------------------------------------------------------------------
(* What conservation buys: the concurrency caps.                           *)

LEMMA CapsFollow == TypeOK /\ PermitsConserved => ConcurrencyCaps
<1> SUFFICES ASSUME TypeOK, PermitsConserved PROVE ConcurrencyCaps
    OBVIOUS
<1>1. queue \in Nat /\ global \in Nat /\ per_tool \in [Tools -> Nat]
    BY DEF TypeOK
<1>2. ASSUME NEW S \in SUBSET Calls PROVE IsFiniteSet(S) /\ Cardinality(S) \in Nat
    BY CallsFinite, FS_Subset, FS_CardinalityType
<1>3. Cardinality(QueueHolders) <= max_queue
    <2>1. Cardinality(QueueHolders) \in Nat
        BY <1>2 DEF QueueHolders
    <2>2. QED
        BY <1>1, <2>1 DEF PermitsConserved
<1>4. Cardinality({c \in Calls : pc[c] = "running"}) <= max_concurrent_global
    <2> DEFINE R == {c \in Calls : pc[c] = "running"}
    <2>1. R \in SUBSET GlobalHolders /\ GlobalHolders \in SUBSET Calls
          /\ R \in SUBSET Calls
        BY DEF GlobalHolders, GlobalPhases
    <2>2. IsFiniteSet(GlobalHolders) /\ Cardinality(GlobalHolders) \in Nat
          /\ Cardinality(R) \in Nat
        BY <1>2, <2>1
    <2>3. Cardinality(R) <= Cardinality(GlobalHolders)
        BY <2>1, <2>2, FS_Subset
    <2>4. global + Cardinality(GlobalHolders) = max_concurrent_global
        BY DEF PermitsConserved
    <2> HIDE DEF R
    <2>5. Cardinality(R) <= max_concurrent_global
        BY <1>1, <2>2, <2>3, <2>4
    <2>6. QED
        BY <2>5 DEF R
<1>5. ASSUME NEW t \in Tools PROVE Cardinality(Executing(t)) <= PerToolPermits(t)
    <2>1. Executing(t) \in SUBSET ToolHolders(t) /\ ToolHolders(t) \in SUBSET Calls
          /\ Executing(t) \in SUBSET Calls
        BY DEF Executing, ToolHolders, ToolPhases
    <2>2. IsFiniteSet(ToolHolders(t)) /\ Cardinality(ToolHolders(t)) \in Nat
          /\ Cardinality(Executing(t)) \in Nat
        BY <1>2, <2>1
    <2>3. Cardinality(Executing(t)) <= Cardinality(ToolHolders(t))
        BY <2>1, <2>2, FS_Subset
    <2>4. per_tool[t] + Cardinality(ToolHolders(t)) = PerToolPermits(t)
          /\ per_tool[t] \in Nat
        BY <1>1 DEF PermitsConserved
    <2>5. QED
        BY <2>2, <2>3, <2>4
<1>6. QED
    BY <1>3, <1>4, <1>5 DEF ConcurrencyCaps

\* Admission, global and per-tool concurrency limits hold at every moment.
THEOREM CapsHold == Spec => []ConcurrencyCaps
BY TypeCorrect, PermitConservation, CapsFollow, PTL

\* No other step than the failing try_acquire of step 3 answers queue_full.
LEMMA OnlyFullQueueRejects ==
    ASSUME TypeOK, [Next]_vars, NEW c \in Calls,
           outcome'[c] = "queue_full", outcome[c] # "queue_full"
    PROVE  pc[c] = "received" /\ ~QueueHasRoom
<1>1. \A d \in Calls : PreflightReason(req[d]) # "queue_full"
    BY DEF PreflightReason, resolve_tool
<1>2. \A e \in EgressErrors : classify_egress_error(e) # "queue_full"
    BY DEF EgressErrors, classify_egress_error
<1>3. outcome \in [Calls -> Outcomes]
    BY DEF TypeOK
<1>4. ASSUME NEW d \in Calls, RejectPreflight(d) PROVE FALSE
    BY <1>1, <1>3, <1>4 DEF RejectPreflight, Reject
<1>5. ASSUME NEW d \in Calls, RejectQueueFull(d) PROVE pc[c] = "received" /\ ~QueueHasRoom
    BY <1>3, <1>5 DEF RejectQueueFull, Reject
<1>6. ASSUME NEW d \in Calls, QueueTimeout(d) \/ CancelWait(d) PROVE FALSE
    BY <1>3, <1>6 DEF QueueTimeout, CancelWait, AbandonWait
<1>7. ASSUME NEW d \in Calls, NEW e \in EgressErrors,
             DispatchOk(d) \/ DispatchErr(d, e) \/ ToolTimeout(d) \/ CancelRunning(d)
      PROVE  FALSE
    BY <1>2, <1>3, <1>7 DEF DispatchOk, DispatchErr, ToolTimeout, CancelRunning, Finish
<1>8. ASSUME NEW d \in Calls, Reply(d) \/ Disconnect(d) PROVE FALSE
    BY <1>3, <1>8 DEF Reply, Disconnect, Vacate
<1>9. ASSUME UNCHANGED outcome PROVE FALSE
    BY <1>9
<1>10. EgressErrors # {}
    BY DEF EgressErrors
<1>11. QED
    BY <1>4, <1>5, <1>6, <1>7, <1>8, <1>9, <1>10
    DEF Next, Step, vars, Receive, FireCancel, Admit, AcquireGlobal, AcquireTool,
        RejectWaiter, DropPermits, DropQueuePermit, Report

\* Backpressure is never spurious: queue_full is answered only while max_queue
\* other calls hold a place, which permit conservation makes of queue = 0.
THEOREM BackpressureIsDue == Spec => QueueFullIsTrue
<1>1. TypeOK /\ PermitsConserved /\ [Next]_vars =>
        [\A c \in Calls : outcome'[c] = "queue_full" /\ outcome[c] # "queue_full" =>
            Cardinality(QueueHolders \ {c}) = max_queue]_vars
    <2> SUFFICES ASSUME TypeOK, PermitsConserved, [Next]_vars, NEW c \in Calls,
                        outcome'[c] = "queue_full", outcome[c] # "queue_full"
                 PROVE  Cardinality(QueueHolders \ {c}) = max_queue
        OBVIOUS
    <2>1. pc[c] = "received" /\ ~(queue > 0)
        BY OnlyFullQueueRejects DEF QueueHasRoom
    <2>2. queue = 0
        BY <2>1 DEF TypeOK
    <2>3. QueueHolders \ {c} = QueueHolders
        BY <2>1 DEF QueueHolders, QueuePhases
    <2>4. queue + Cardinality(QueueHolders) = max_queue
        BY DEF PermitsConserved
    <2>5. Cardinality(QueueHolders) \in Nat
        <3>1. IsFiniteSet(Calls) /\ QueueHolders \in SUBSET Calls
            BY CallsFinite DEF QueueHolders
        <3>2. IsFiniteSet(QueueHolders)
            BY <3>1, FS_Subset
        <3>3. QED
            BY <3>2, FS_CardinalityType
    <2>6. QED
        BY <2>2, <2>3, <2>4, <2>5
<1>2. QED
    BY <1>1, TypeCorrect, PermitConservation, PTL DEF Spec, QueueFullIsTrue

-----------------------------------------------------------------------------
(* Vetting and the audit trail.                                            *)

LEMMA PhaseInit == Init => PhaseInv
BY DEF Init, PhaseInv, QueuePhases

LEMMA PhaseStep == TypeOK /\ PhaseInv /\ [Next]_vars => PhaseInv'
<1> SUFFICES ASSUME TypeOK, PhaseInv, [Next]_vars PROVE PhaseInv'
    OBVIOUS
<1> USE DEF PhaseInv, QueuePhases, TypeOK
<1>1. ASSUME NEW c \in Calls, NEW r \in Inputs, Receive(c, r) PROVE PhaseInv'
    BY <1>1 DEF Receive
<1>2. ASSUME NEW c \in Calls, FireCancel(c) PROVE PhaseInv'
    BY <1>2 DEF FireCancel
<1>3. ASSUME NEW c \in Calls, RejectPreflight(c) \/ RejectQueueFull(c) PROVE PhaseInv'
    <2>1. /\ pc' = [pc EXCEPT ![c] = "answered"] /\ req' = req
          /\ pc'[c] = "answered"
          /\ \A d \in Calls \ {c} : /\ pc'[d] = pc[d] /\ audit'[d] = audit[d]
                                    /\ outcome'[d] = outcome[d]
        BY <1>3 DEF RejectPreflight, RejectQueueFull, Reject
    <2>2. QED
        BY <2>1
<1>4. ASSUME NEW c \in Calls, Admit(c) PROVE PhaseInv'
    BY <1>4 DEF Admit
<1>5. ASSUME NEW c \in Calls, AcquireGlobal(c) PROVE PhaseInv'
    BY <1>5 DEF AcquireGlobal
<1>6. ASSUME NEW c \in Calls, AcquireTool(c) PROVE PhaseInv'
    <2>1. <<>> \o <<"start">> = <<"start">>
        OBVIOUS
    <2>2. audit'[c] = <<"start">>
        BY <1>6, <2>1 DEF AcquireTool, ToolPermitFree
    <2>3. QED
        BY <1>6, <2>2 DEF AcquireTool, ToolPermitFree
<1>7. ASSUME NEW c \in Calls, NEW o \in WaitReasons, AbandonWait(c, o) PROVE PhaseInv'
    BY <1>7 DEF AbandonWait
<1>8. ASSUME NEW c \in Calls, RejectWaiter(c) PROVE PhaseInv'
    BY <1>8 DEF RejectWaiter
<1>9. ASSUME NEW c \in Calls, NEW o \in FailureKinds \cup {"success"}, Finish(c, o)
      PROVE PhaseInv'
    BY <1>9 DEF Finish
<1>10. ASSUME NEW c \in Calls, DropPermits(c) \/ DropQueuePermit(c) PROVE PhaseInv'
    BY <1>10 DEF DropPermits, DropQueuePermit
<1>11. ASSUME NEW c \in Calls, Report(c) PROVE PhaseInv'
    BY <1>11 DEF Report
<1>12. ASSUME NEW c \in Calls, Reply(c) PROVE PhaseInv'
    BY <1>12 DEF Reply, Vacate
<1>13. ASSUME NEW c \in Calls, Disconnect(c) PROVE PhaseInv'
    BY <1>13 DEF Disconnect, Vacate
<1>14. CASE UNCHANGED vars
    BY <1>14 DEF vars
<1>15. "queue_timeout" \in WaitReasons /\ "wait_cancelled" \in WaitReasons
       /\ "timeout" \in FailureKinds /\ "cancelled" \in FailureKinds
    BY DEF WaitReasons, FailureKinds
<1>16. QED
    BY <1>1, <1>2, <1>3, <1>4, <1>5, <1>6, <1>7, <1>8, <1>9, <1>10, <1>11, <1>12,
       <1>13, <1>14, <1>15, EgressKind
       DEF Next, Step, QueueTimeout, CancelWait, DispatchOk, DispatchErr,
           ToolTimeout, CancelRunning

LEMMA VettedFollows == PhaseInv => OnlyVettedToolsRun
BY DEF PhaseInv, OnlyVettedToolsRun, QueuePhases, PreflightReason, resolve_tool

\* A disabled, unlisted or unimplemented tool, one with invalid arguments, or
\* one without the credential it has to forward,
\* is never dispatched.
THEOREM OnlyVettedRun == Spec => []OnlyVettedToolsRun
<1>1. Init => TypeOK /\ PhaseInv
    BY TypeInit, PhaseInit
<1>2. TypeOK /\ PhaseInv /\ [Next]_vars => (TypeOK /\ PhaseInv)'
    BY TypeStep, PhaseStep
<1>3. QED
    BY <1>1, <1>2, VettedFollows, PTL DEF Spec

\* The trail an answer calls for, as in AuditMatchesAnswer.
Trail(o) ==
    CASE o \in RejectReasons -> <<"rejected">>
      [] o = "success" -> <<"start", "success">>
      [] o = "egress_blocked" -> <<"start", "egress_blocked", "failure">>
      [] OTHER -> <<"start", "failure">>

\* Putting one event, or two, after the start event.
LEMMA StartThenOne ==
    ASSUME NEW a \in Events, NEW b \in Events
    PROVE  <<a>> \o <<b>> = <<a, b>>
<1> DEFINE s == <<a>> \o <<b>>
<1>1. <<a>> \in Seq(Events) /\ <<b>> \in Seq(Events) /\ <<a, b>> \in Seq(Events)
    OBVIOUS
<1>2. Len(s) = 2 /\ s[1] = a /\ s[2] = b /\ s \in Seq(Events)
    BY <1>1
<1>3. Len(<<a, b>>) = 2 /\ <<a, b>>[1] = a /\ <<a, b>>[2] = b
    BY <1>1
<1> HIDE DEF s
<1>4. Len(s) = Len(<<a, b>>) /\ \A i \in 1..Len(s) : s[i] = <<a, b>>[i]
    <2>1. \A i \in 1..2 : i = 1 \/ i = 2
        OBVIOUS
    <2>2. QED
        BY <1>2, <1>3, <2>1
<1>5. s = <<a, b>>
    BY <1>1, <1>2, <1>4, SeqEqual
<1>6. QED
    BY <1>5 DEF s

LEMMA StartThenTwo ==
    ASSUME NEW a \in Events, NEW b \in Events, NEW d \in Events
    PROVE  <<a>> \o <<b, d>> = <<a, b, d>>
<1> DEFINE s == <<a>> \o <<b, d>>
<1>1. <<a>> \in Seq(Events) /\ <<b, d>> \in Seq(Events) /\ <<a, b, d>> \in Seq(Events)
    OBVIOUS
<1>2. Len(s) = 3 /\ s[1] = a /\ s[2] = b /\ s[3] = d /\ s \in Seq(Events)
    BY <1>1
<1>3. Len(<<a, b, d>>) = 3 /\ <<a, b, d>>[1] = a /\ <<a, b, d>>[2] = b
      /\ <<a, b, d>>[3] = d
    BY <1>1
<1> HIDE DEF s
<1>4. Len(s) = Len(<<a, b, d>>) /\ \A i \in 1..Len(s) : s[i] = <<a, b, d>>[i]
    <2>1. \A i \in 1..3 : i = 1 \/ i = 2 \/ i = 3
        OBVIOUS
    <2>2. QED
        BY <1>2, <1>3, <2>1
<1>5. s = <<a, b, d>>
    BY <1>1, <1>2, <1>4, SeqEqual
<1>6. QED
    BY <1>5 DEF s

LEMMA ReportTrail ==
    ASSUME NEW o \in {"success"} \cup FailureKinds
    PROVE  <<"start">> \o TerminalEvents(o) = Trail(o)
<1>1. o \notin RejectReasons
    BY DEF FailureKinds, RejectReasons, PreflightReasons, WaitReasons
<1>2. CASE o = "success"
    <2>1. TerminalEvents(o) = <<"success">>
        BY <1>2 DEF TerminalEvents
    <2>2. Trail(o) = <<"start", "success">>
        BY <1>1, <1>2 DEF Trail
    <2>3. "start" \in Events /\ "success" \in Events
        BY DEF Events
    <2>4. QED
        BY <2>1, <2>2, <2>3, StartThenOne
<1>3. CASE o = "egress_blocked"
    <2>1. TerminalEvents(o) = <<"egress_blocked", "failure">>
        BY <1>3 DEF TerminalEvents
    <2>2. Trail(o) = <<"start", "egress_blocked", "failure">>
        BY <1>1, <1>3 DEF Trail
    <2>3. "start" \in Events /\ "egress_blocked" \in Events /\ "failure" \in Events
        BY DEF Events
    <2>4. QED
        BY <2>1, <2>2, <2>3, StartThenTwo
<1>4. CASE o # "success" /\ o # "egress_blocked"
    <2>1. TerminalEvents(o) = <<"failure">>
        BY <1>4 DEF TerminalEvents
    <2>2. Trail(o) = <<"start", "failure">>
        BY <1>1, <1>4 DEF Trail
    <2>3. "start" \in Events /\ "failure" \in Events
        BY DEF Events
    <2>4. QED
        BY <2>1, <2>2, <2>3, StartThenOne
<1>5. QED
    BY <1>2, <1>3, <1>4

LEMMA RejectTrail ==
    ASSUME NEW o \in RejectReasons
    PROVE  <<>> \o <<"rejected">> = Trail(o)
<1>1. o # "success" /\ o # "egress_blocked"
    BY DEF RejectReasons, PreflightReasons, WaitReasons
<1>2. Trail(o) = <<"rejected">>
    BY <1>1 DEF Trail
<1>3. <<>> \o <<"rejected">> = <<"rejected">>
    OBVIOUS
<1>4. QED
    BY <1>2, <1>3

LEMMA AuditStep ==
    TypeOK /\ PhaseInv /\ AuditMatchesAnswer /\ [Next]_vars => AuditMatchesAnswer'
<1> SUFFICES ASSUME TypeOK, PhaseInv, AuditMatchesAnswer, [Next]_vars,
                    NEW d \in Calls, pc'[d] = "answered"
             PROVE  audit'[d] = Trail(outcome'[d])
    BY DEF AuditMatchesAnswer, Trail
<1>0. pc[d] = "answered" => audit[d] = Trail(outcome[d])
    BY DEF AuditMatchesAnswer, Trail
<1>1. CASE pc[d] = "answered" /\ audit'[d] = audit[d] /\ outcome'[d] = outcome[d]
    BY <1>0, <1>1
<1>2. CASE RejectPreflight(d)
    <2>1. PreflightReason(req[d]) \in RejectReasons
        BY <1>2, PreflightReasonType DEF RejectPreflight, RejectReasons
    <2>2. outcome'[d] = PreflightReason(req[d]) /\ audit'[d] = <<>> \o <<"rejected">>
        BY <1>2 DEF RejectPreflight, Reject, TypeOK, PhaseInv
    <2>3. QED
        BY <2>1, <2>2, RejectTrail
<1>3. CASE RejectQueueFull(d)
    <2>1. "queue_full" \in RejectReasons
        BY DEF RejectReasons
    <2>2. outcome'[d] = "queue_full" /\ audit'[d] = <<>> \o <<"rejected">>
        BY <1>3 DEF RejectQueueFull, Reject, TypeOK, PhaseInv
    <2>3. QED
        BY <2>1, <2>2, RejectTrail
<1>4. CASE RejectWaiter(d)
    <2>1. outcome[d] \in RejectReasons
        BY <1>4 DEF RejectWaiter, PhaseInv, RejectReasons
    <2>2. outcome'[d] = outcome[d] /\ audit'[d] = <<>> \o <<"rejected">>
        BY <1>4 DEF RejectWaiter, TypeOK, PhaseInv
    <2>3. QED
        BY <2>1, <2>2, RejectTrail
<1>5. CASE Report(d)
    <2>1. outcome[d] \in {"success"} \cup FailureKinds
        BY <1>5 DEF Report, PhaseInv
    <2>2. outcome'[d] = outcome[d]
          /\ audit'[d] = <<"start">> \o TerminalEvents(outcome[d])
        BY <1>5 DEF Report, TypeOK, PhaseInv
    <2>3. QED
        BY <2>1, <2>2, ReportTrail
<1>6. \/ RejectPreflight(d) \/ RejectQueueFull(d) \/ RejectWaiter(d) \/ Report(d)
      \/ pc[d] = "answered" /\ audit'[d] = audit[d] /\ outcome'[d] = outcome[d]
    <2> USE DEF TypeOK
    <2>1. ASSUME NEW c \in Calls, c # d,
                 (\E r \in Inputs : Receive(c, r)) \/ FireCancel(c) \/ Step(c) \/ Disconnect(c)
          PROVE  pc'[d] = pc[d] /\ audit'[d] = audit[d] /\ outcome'[d] = outcome[d]
        BY <2>1 DEF Receive, FireCancel, Step, Disconnect, Vacate, RejectPreflight,
               RejectQueueFull, Reject, Admit, AcquireGlobal, AcquireTool, QueueTimeout,
               CancelWait, AbandonWait, RejectWaiter, DispatchOk, DispatchErr, ToolTimeout,
               CancelRunning, Finish, DropPermits, DropQueuePermit, Report, Reply
    <2>2. ASSUME (\E r \in Inputs : Receive(d, r)) \/ FireCancel(d) \/ Step(d) \/ Disconnect(d)
          PROVE  \/ RejectPreflight(d) \/ RejectQueueFull(d) \/ RejectWaiter(d) \/ Report(d)
        BY <2>2 DEF Receive, FireCancel, Step, Disconnect, Vacate, Admit, AcquireGlobal,
               AcquireTool, QueueTimeout, CancelWait, AbandonWait, DispatchOk, DispatchErr,
               ToolTimeout, CancelRunning, Finish, DropPermits, DropQueuePermit, Reply
    <2>3. CASE UNCHANGED vars
        BY <2>3 DEF vars
    <2>4. QED
        BY <2>1, <2>2, <2>3 DEF Next
<1>7. QED
    BY <1>1, <1>2, <1>3, <1>4, <1>5, <1>6

\* Every answer is backed by exactly its audit trail, for every interleaving.
THEOREM AuditTrailCorrect == Spec => []AuditMatchesAnswer
<1>1. Init => TypeOK /\ PhaseInv /\ AuditMatchesAnswer
    <2>1. Init => AuditMatchesAnswer
        BY DEF Init, AuditMatchesAnswer
    <2>2. QED
        BY <2>1, TypeInit, PhaseInit
<1>2. TypeOK /\ PhaseInv /\ AuditMatchesAnswer /\ [Next]_vars
        => (TypeOK /\ PhaseInv /\ AuditMatchesAnswer)'
    BY TypeStep, PhaseStep, AuditStep
<1>3. QED
    BY <1>1, <1>2, PTL DEF Spec

-----------------------------------------------------------------------------
(* ToolRouter implements ToolService, for every configuration. *)

\* The two variables of ToolService under the refinement mapping.
SState == [c \in Calls |-> ServiceState(pc[c])]
STool == [c \in Calls |-> req[c].tool]

LEMMA ServiceStateValues ==
    /\ ServiceState("idle") = "idle"
    /\ ServiceState("received") = "offered"
    /\ \A p \in {"wait_global", "wait_tool", "refused"} : ServiceState(p) = "admitted"
    /\ \A p \in {"running", "finished"} : ServiceState(p) = "executing"
    /\ \A p \in {"released", "reporting"} : ServiceState(p) = "closing"
    /\ ServiceState("answered") = "answered"
BY DEF ServiceState

\* A phase change of one call is a state change of that call alone.
LEMMA SStateMove ==
    ASSUME TypeOK, NEW c \in Calls, NEW p \in Phases, pc' = [pc EXCEPT ![c] = p]
    PROVE  SState' = [SState EXCEPT ![c] = ServiceState(p)]
BY DEF TypeOK, SState

LEMMA MoveStep ==
    ASSUME TypeOK, NEW c \in Calls, NEW p \in Phases, NEW from,
           pc' = [pc EXCEPT ![c] = p], req' = req, ServiceState(pc[c]) \in from
    PROVE  Service!Move(c, from, ServiceState(p))
<1>1. SState' = [SState EXCEPT ![c] = ServiceState(p)] /\ STool' = STool
    BY SStateMove DEF STool
<1>2. SState[c] \in from
    BY DEF SState
<1>3. QED
    BY <1>1, <1>2 DEF Service!Move, SState, STool

\* The instance counts with the same operator.
LEMMA SameCount == ASSUME NEW S PROVE Service!Cardinality(S) = Cardinality(S)
BY DEF Service!Cardinality, Cardinality

\* A free queue permit leaves room in the service.
LEMMA RoomToAdmit ==
    ASSUME TypeOK, PermitsConserved, queue > 0
    PROVE  Cardinality(Service!Admitted) < max_queue
<1>1. Service!Admitted \in SUBSET QueueHolders /\ QueueHolders \in SUBSET Calls
    BY ServiceStateValues
       DEF Service!Admitted, QueueHolders, QueuePhases, TypeOK, Phases
<1>2. IsFiniteSet(QueueHolders) /\ Cardinality(QueueHolders) \in Nat
    BY <1>1, CallsFinite, FS_Subset, FS_CardinalityType
<1>3. /\ Cardinality(Service!Admitted) <= Cardinality(QueueHolders)
      /\ IsFiniteSet(Service!Admitted)
    BY <1>1, <1>2, FS_Subset
<1>4. Cardinality(Service!Admitted) \in Nat
    BY <1>3, FS_CardinalityType
<1>5. queue \in Nat /\ queue + Cardinality(QueueHolders) = max_queue
    BY DEF TypeOK, PermitsConserved
<1>6. QED
    BY <1>2, <1>3, <1>4, <1>5

\* A call that waits for its tool holds a global permit without executing,
\* so the service has room to run it; its tool's permit is free, so the
\* tool has room too.
LEMMA RoomToExecute ==
    ASSUME TypeOK, PermitsConserved, NEW c \in Calls, ToolPermitFree(c)
    PROVE  /\ Cardinality(Service!Running) < max_concurrent_global
           /\ Cardinality(Service!RunningTool(STool[c])) < PerToolPermits(STool[c])
<1>1. /\ pc[c] = "wait_tool" /\ req[c].tool \in Tools /\ STool[c] = req[c].tool
      /\ per_tool[req[c].tool] > 0
    BY DEF ToolPermitFree, TypeOK, Requests, STool
<1>2. /\ Service!Running \in SUBSET (GlobalHolders \ {c})
      /\ GlobalHolders \in SUBSET Calls /\ c \in GlobalHolders
    BY <1>1, ServiceStateValues
       DEF Service!Running, GlobalHolders, GlobalPhases, TypeOK, Phases
<1>3. Cardinality(Service!Running) < max_concurrent_global
    <2>1. IsFiniteSet(GlobalHolders)
        BY <1>2, CallsFinite, FS_Subset
    <2>2. /\ IsFiniteSet(GlobalHolders \ {c})
          /\ Cardinality(GlobalHolders \ {c}) = Cardinality(GlobalHolders) - 1
        BY <2>1, <1>2, FS_RemoveElement
    <2>3. /\ Cardinality(Service!Running) <= Cardinality(GlobalHolders \ {c})
          /\ IsFiniteSet(Service!Running)
        BY <1>2, <2>2, FS_Subset
    <2>4. Cardinality(Service!Running) \in Nat /\ Cardinality(GlobalHolders) \in Nat
        BY <2>1, <2>3, FS_CardinalityType
    <2>5. global \in Nat /\ global + Cardinality(GlobalHolders) = max_concurrent_global
        BY DEF TypeOK, PermitsConserved
    <2>6. QED
        BY <2>2, <2>3, <2>4, <2>5
<1>4. Cardinality(Service!RunningTool(STool[c])) < PerToolPermits(STool[c])
    <2> DEFINE t == req[c].tool
    <2>1. /\ Service!RunningTool(t) \in SUBSET ToolHolders(t)
          /\ ToolHolders(t) \in SUBSET Calls
        BY ServiceStateValues
           DEF Service!RunningTool, Service!Running, ToolHolders, ToolPhases, TypeOK, Phases
    <2>2. IsFiniteSet(ToolHolders(t)) /\ Cardinality(ToolHolders(t)) \in Nat
        BY <2>1, CallsFinite, FS_Subset, FS_CardinalityType
    <2>3. /\ Cardinality(Service!RunningTool(t)) <= Cardinality(ToolHolders(t))
          /\ IsFiniteSet(Service!RunningTool(t))
        BY <2>1, <2>2, FS_Subset
    <2>4. Cardinality(Service!RunningTool(t)) \in Nat
        BY <2>3, FS_CardinalityType
    <2>5. /\ per_tool[t] \in Nat /\ per_tool[t] > 0
          /\ per_tool[t] + Cardinality(ToolHolders(t)) = PerToolPermits(t)
        BY <1>1 DEF TypeOK, PermitsConserved
    <2> HIDE DEF t
    <2>6. Cardinality(Service!RunningTool(t)) < PerToolPermits(t)
        BY <2>2, <2>3, <2>4, <2>5
    <2>7. QED
        BY <1>1, <2>6 DEF t
<1>5. QED
    BY <1>3, <1>4

\* A step of one call that ServiceState does not see.
LEMMA HiddenMove ==
    ASSUME TypeOK, NEW c \in Calls, NEW p \in Phases, pc' = [pc EXCEPT ![c] = p],
           req' = req, ServiceState(p) = ServiceState(pc[c])
    PROVE  UNCHANGED Service!svars
<1>1. SState' = [SState EXCEPT ![c] = ServiceState(p)]
    BY SStateMove
<1>2. SState' = SState
    BY <1>1 DEF SState
<1>3. QED
    BY <1>2 DEF Service!svars, SState

\* The answer is delivered or the client leaves.
LEMMA LeaveStep ==
    ASSUME TypeOK, NEW c \in Calls, Vacate(c),
           ServiceState(pc[c]) \in {"admitted", "executing", "answered"}
    PROVE  Service!Leave(c)
<1>1. SState' = [SState EXCEPT ![c] = "idle"]
    BY SStateMove, ServiceStateValues DEF Vacate, Phases
<1>2. STool' = [STool EXCEPT ![c] = "none"]
    BY DEF Vacate, TypeOK, STool, NoRequest
<1>3. SState[c] \in {"admitted", "executing", "answered"}
    BY DEF SState
<1>4. QED
    BY <1>1, <1>2, <1>3 DEF Service!Leave, SState, STool

LEMMA ServiceStep ==
    TypeOK /\ PermitsConserved /\ [Next]_vars => [Service!SNext]_(Service!svars)
<1> SUFFICES ASSUME TypeOK, PermitsConserved, [Next]_vars
             PROVE  Service!SNext \/ UNCHANGED Service!svars
    OBVIOUS
<1> USE DEF Phases
<1>1. ASSUME NEW c \in Calls, NEW r \in Inputs, Receive(c, r) PROVE Service!SNext
    <2>1. SState' = [SState EXCEPT ![c] = "offered"]
        BY <1>1, SStateMove, ServiceStateValues DEF Receive
    <2>2. STool' = [STool EXCEPT ![c] = r.tool] /\ r.tool \in Tools
        BY <1>1, ConfigAssumption DEF Receive, TypeOK, STool, Requests
    <2>3. SState[c] = "idle"
        BY <1>1, ServiceStateValues DEF Receive, SState
    <2>4. Service!Offer(c, r.tool)
        BY <2>1, <2>2, <2>3 DEF Service!Offer, SState, STool
    <2>5. QED
        BY <2>2, <2>4 DEF Service!SNext
<1>2. ASSUME NEW c \in Calls, FireCancel(c) PROVE UNCHANGED Service!svars
    BY <1>2 DEF FireCancel, Service!svars
<1>3. ASSUME NEW c \in Calls, RejectPreflight(c) \/ RejectQueueFull(c) PROVE Service!SNext
    <2>1. Service!Answer(c)
        BY <1>3, MoveStep, ServiceStateValues
           DEF RejectPreflight, RejectQueueFull, Reject, Service!Answer
    <2>2. QED
        BY <2>1 DEF Service!SNext
<1>4. ASSUME NEW c \in Calls, Admit(c) PROVE Service!SNext
    <2>1. Service!Move(c, {"offered"}, "admitted")
        BY <1>4, MoveStep, ServiceStateValues DEF Admit
    <2>2. Cardinality(Service!Admitted) < max_queue
        BY <1>4, RoomToAdmit DEF Admit, QueueHasRoom
    <2>3. QED
        BY <2>1, <2>2, SameCount DEF Service!SNext, Service!Accept
<1>5. ASSUME NEW c \in Calls, AcquireGlobal(c) PROVE UNCHANGED Service!svars
    BY <1>5, HiddenMove, ServiceStateValues DEF AcquireGlobal
<1>6. ASSUME NEW c \in Calls, AcquireTool(c) PROVE Service!SNext
    <2>1. Service!Move(c, {"admitted"}, "executing")
        BY <1>6, MoveStep, ServiceStateValues DEF AcquireTool, ToolPermitFree
    <2>2. /\ Cardinality(Service!Running) < max_concurrent_global
          /\ Cardinality(Service!RunningTool(STool[c])) < PerToolPermits(STool[c])
        BY <1>6, RoomToExecute DEF AcquireTool
    <2>3. STool[c] \in Tools
        BY <1>6 DEF AcquireTool, ToolPermitFree, STool, TypeOK, Requests
    <2>4. Service!Execute(c)
        BY <2>1, <2>2, <2>3, SameCount DEF Service!Execute, STool
    <2>5. QED
        BY <2>4 DEF Service!SNext
<1>7. ASSUME NEW c \in Calls, NEW o, AbandonWait(c, o) PROVE UNCHANGED Service!svars
    BY <1>7, HiddenMove, ServiceStateValues DEF AbandonWait
<1>8. ASSUME NEW c \in Calls, RejectWaiter(c) \/ Report(c) PROVE Service!SNext
    <2>1. Service!Answer(c)
        BY <1>8, MoveStep, ServiceStateValues DEF RejectWaiter, Report, Service!Answer
    <2>2. QED
        BY <2>1 DEF Service!SNext
<1>9. ASSUME NEW c \in Calls, NEW o, Finish(c, o) PROVE UNCHANGED Service!svars
    BY <1>9, HiddenMove, ServiceStateValues DEF Finish
<1>10. ASSUME NEW c \in Calls, DropPermits(c) PROVE Service!SNext
    <2>1. Service!Complete(c)
        BY <1>10, MoveStep, ServiceStateValues DEF DropPermits, Service!Complete
    <2>2. QED
        BY <2>1 DEF Service!SNext
<1>11. ASSUME NEW c \in Calls, DropQueuePermit(c) PROVE UNCHANGED Service!svars
    BY <1>11, HiddenMove, ServiceStateValues DEF DropQueuePermit
<1>12. ASSUME NEW c \in Calls, Reply(c) \/ Disconnect(c) PROVE Service!SNext
    <2>1. Service!Leave(c)
        BY <1>12, LeaveStep, ServiceStateValues DEF Reply, Disconnect
    <2>2. QED
        BY <2>1 DEF Service!SNext
<1>13. CASE UNCHANGED vars
    BY <1>13 DEF vars, Service!svars
<1>14. QED
    BY <1>1, <1>2, <1>3, <1>4, <1>5, <1>6, <1>7, <1>8, <1>9, <1>10, <1>11, <1>12, <1>13
       DEF Next, Step, QueueTimeout, CancelWait, DispatchOk, DispatchErr,
           ToolTimeout, CancelRunning

\* execute() with its semaphores is a correct implementation of the bounded
\* service: every behaviour of the router, seen through the mapping, admits
\* and starts calls only within the three bounds.
THEOREM RouterImplementsService == Spec => ImplementsService
<1>1. Init => Service!SInit
    BY ServiceStateValues DEF Init, Service!SInit, NoRequest
<1>2. QED
    BY <1>1, ServiceStep, TypeCorrect, PermitConservation, PTL
       DEF Spec, ImplementsService, Service!SSpec
=============================================================================
