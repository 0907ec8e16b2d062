---------------------------- MODULE RateLimiter ----------------------------
(***************************************************************************)
(* The token buckets of gateway/src/middleware/rate_limit.rs.              *)
(*                                                                         *)
(* Two limiters, one for reads and one for writes; each keeps a bucket per *)
(* key under one mutex, filled lazily when it is looked at.  The clock is  *)
(* read with the mutex held, so a check is one atomic action and sees time *)
(* in order.  A token is Unit parts and Rate parts are earned per tick, so *)
(* that fractions of a token are kept exactly.                             *)
(***************************************************************************)
EXTENDS Integers, Sequences

CONSTANTS
    Clients,   \* "u:<hash>" of a session cookie, or "ip:<addr>"
    Methods,   \* request methods in use
    Routes,    \* route buckets
    Burst,     \* bucket size of each lane, in tokens
    Rate,      \* parts earned per tick in each lane
    Unit,      \* parts of a token
    MaxInstant, \* bound on the clock
    MaxAllowed \* bound on the requests let through per bucket

Lanes == {"read", "write"}
Buckets == Lanes \X Clients \X Routes

ASSUME LimiterAssumption ==
    /\ Burst \in [Lanes -> Nat \ {0}]
    /\ Rate \in [Lanes -> Nat]
    /\ Unit \in Nat \ {0}
    /\ MaxInstant \in Nat /\ MaxAllowed \in Nat

VARIABLES
    instant,      \* Instant::now()
    known,        \* the keys in the maps
    tokens,       \* parts left, as of last_refill
    last_refill,
    refused,      \* buckets whose latest check said no
    log           \* history: when each bucket let a request through

limiterVars == <<instant, known, tokens, last_refill, refused, log>>

\* GET and HEAD read, everything else writes.
LaneOf(m) == IF m \in {"GET", "HEAD"} THEN "read" ELSE "write"

Full(b) == Burst[b[1]] * Unit
Earned(b, ticks) == ticks * Rate[b[1]]

\* min(tokens + elapsed * rps, burst); a new bucket starts full.
\* Mutant: the bucket is not capped.
Uncapped(b) ==
    IF b \in known THEN tokens[b] + Earned(b, instant - last_refill[b]) ELSE Full(b)
Refilled(b) ==
    IF b \in known /\ tokens[b] + Earned(b, instant - last_refill[b]) < Full(b)
    THEN tokens[b] + Earned(b, instant - last_refill[b])
    ELSE Full(b)

LimiterInit ==
    /\ instant = 0
    /\ known = {}
    /\ tokens = [b \in Buckets |-> 0]
    /\ last_refill = [b \in Buckets |-> 0]
    /\ refused = {}
    /\ log = [b \in Buckets |-> <<>>]

Elapse ==
    /\ instant < MaxInstant
    /\ instant' = instant + 1
    /\ UNCHANGED <<known, tokens, last_refill, refused, log>>

Enough(b) == Refilled(b) >= Unit

Allow(b) ==
    /\ Enough(b)
    /\ Len(log[b]) < MaxAllowed
    /\ tokens' = [tokens EXCEPT ![b] = Refilled(b) - Unit]
    /\ refused' = refused \ {b}
    /\ log' = [log EXCEPT ![b] = Append(@, instant)]

\* Mutant: a refused request costs what is left of a token.
DrainOnDeny(b) == 0
AfterDeny(b) == Refilled(b)

Deny(b) ==
    /\ ~Enough(b)
    /\ tokens' = [tokens EXCEPT ![b] = AfterDeny(b)]
    /\ refused' = refused \cup {b}
    /\ UNCHANGED log

\* RateLimiter::check for one request.
check(b) ==
    /\ known' = known \cup {b}
    /\ last_refill' = [last_refill EXCEPT ![b] = instant]
    /\ Allow(b) \/ Deny(b)
    /\ UNCHANGED instant

LimiterNext ==
    \/ Elapse
    \/ \E m \in Methods, c \in Clients, r \in Routes : check(<<LaneOf(m), c, r>>)

LimiterSpec == LimiterInit /\ [][LimiterNext]_limiterVars

-----------------------------------------------------------------------------
LimiterTypes ==
    /\ instant \in Nat
    /\ known \subseteq Buckets /\ refused \subseteq known
    /\ tokens \in [Buckets -> Nat]
    /\ last_refill \in [Buckets -> Nat]
    /\ log \in [Buckets -> Seq(Nat)]

\* Requests let through from the i-th on, in parts.
Spent(b, i) == (Len(log[b]) - i + 1) * Unit

\* In every window, between any two of its requests, a bucket lets through no
\* more than its burst and what the rate earns in that time.
WindowBound ==
    \A b \in Buckets : \A i \in 1..Len(log[b]) : \A j \in i..Len(log[b]) :
        (j - i + 1) * Unit <= Full(b) + Earned(b, log[b][j] - log[b][i])

\* Nobody is turned away early: when a bucket says no, one request more would
\* have broken that bound for some window.
NoSpuriousDenial ==
    \A b \in refused : \E i \in 1..Len(log[b]) :
        Spent(b, i) + Unit > Full(b) + Earned(b, last_refill[b] - log[b][i])

\* Why both hold: the tokens left are exactly what the tightest window leaves.
TokensExact ==
    \A b \in known :
        /\ \A i \in 1..Len(log[b]) :
            tokens[b] + Spent(b, i) <= Full(b) + Earned(b, last_refill[b] - log[b][i])
        /\ \E i \in 1..Len(log[b]) :
            tokens[b] + Spent(b, i) = Full(b) + Earned(b, last_refill[b] - log[b][i])
=============================================================================
