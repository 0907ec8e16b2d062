---------------------------- MODULE MCAdmission ----------------------------
(***************************************************************************)
(* What a request is admitted by: the session cache, the token buckets and *)
(* module access.  They share no state, so a behaviour of all is one of    *)
(* each: one part moves, from each of its own initial states, while the    *)
(* others stay as they began.                                              *)
(***************************************************************************)
EXTENDS SessionCache, RateLimiter, ModuleAccess, TLC

VARIABLE moving  \* the part that moves

admissionVars == <<sessionVars, limiterVars, accessVars, moving>>

\* Tokens and the keys validations ask for matter to the session cache only.
AtRest ==
    /\ session = [k \in Keys |-> NoSession]
    /\ key = [v \in Validations |-> CHOOSE k \in Keys : TRUE]

AdmissionInit ==
    /\ moving \in {"sessions", "limiter", "access"}
    /\ SessionInit /\ LimiterInit /\ AccessInit
    /\ moving = "sessions" \/ AtRest

\* Only the limiter runs out of things to do, at the end of its bounded time.
OutOfTime == instant = MaxInstant /\ UNCHANGED limiterVars

AdmissionNext ==
    /\ \/ /\ moving = "sessions" /\ SessionNext
          /\ UNCHANGED <<limiterVars, accessVars>>
       \/ /\ moving = "limiter" /\ (LimiterNext \/ OutOfTime)
          /\ UNCHANGED <<sessionVars, accessVars>>
       \/ /\ moving = "access" /\ AccessNext
          /\ UNCHANGED <<sessionVars, limiterVars>>
    /\ UNCHANGED moving

AdmissionSpec == AdmissionInit /\ [][AdmissionNext]_admissionVars

-----------------------------------------------------------------------------
CONSTANTS r1, r2
\* Two validations of two tokens, with a cache past its limit with one entry;
\* two overlapping edits.
MCRequests == {r1, r2}
Symmetry == Permutations(MCRequests)

\* One client and one route; the read lane earns 2/3 of a token per tick and
\* holds 2, the write lane earns 1/3 and holds 1.
MCBurst == [l \in Lanes |-> IF l = "read" THEN 2 ELSE 1]
MCRate == [l \in Lanes |-> IF l = "read" THEN 2 ELSE 1]

\* A user that exists, one to be created, and a module key that is not known.
MCRequested == {{}, {"tools"}, {"tools", "soc2"}, {"unknown"}}
MCInitialEmail == [u \in Users |-> IF u = "u1" THEN "a@x" ELSE NoEmail]
=============================================================================
