---------------------------- MODULE SessionCache ----------------------------
(***************************************************************************)
(* BetterAuthClient::validate_session (gateway/src/auth/session.rs): the   *)
(* in-process cache in front of BetterAuth's GET /api/auth/get-session.    *)
(*                                                                         *)
(* An entry younger than Fresh answers without a call.  Between Fresh and  *)
(* Stale it is kept aside and used only when the call fails in transport   *)
(* or with a 5xx.  The call itself runs without the lock, so answers come  *)
(* back late and out of order.  Time is discrete and bounded by MaxTime;   *)
(* it does not pass a pending call's reqwest timeout.                      *)
(***************************************************************************)
EXTENDS Integers, FiniteSets

CONSTANTS
    Validations, \* concurrent validations
    Keys,        \* cache keys: "cookie:<token>" and "bearer:<token>"
    Principals,  \* what BetterAuth says of a session: user, role, organisation
    NoSession,   \* a session BetterAuth does not know or has revoked
    Fresh,       \* 20 s
    Stale,       \* 600 s
    Timeout,     \* BETTERAUTH_TIMEOUT_MS
    MaxCache,    \* 10_000 entries
    MaxTime      \* bound on the clock

\* How a call to BetterAuth can fail.
Failures == {"transport", "status_5xx", "garbled"}

ASSUME SessionAssumption ==
    /\ Fresh \in Nat /\ Stale \in Nat \ {0} /\ Fresh <= Stale
    /\ Timeout \in Nat /\ MaxTime \in Nat /\ MaxCache \in Nat
    /\ NoSession \notin Principals \cup Failures
    /\ Principals \cap Failures = {}

VARIABLES
    now,      \* the clock
    session,  \* BetterAuth: the principal of each token, or NoSession
    cache,    \* key -> [ts, principal], or Empty
    stage,    \* "idle" | "asking" | "replied" | "done"
    key,      \* the cache key of a validation
    sent,     \* when its call was sent
    fallback, \* stale_fallback: a principal, or NoSession
    reply,    \* what came back of the call
    result,   \* the principal, "invalid" or "upstream"
    vouched,  \* history: when BetterAuth last answered a principal for a key
    lag       \* history: age of that answer when the validation accepted it

sessionVars == <<now, session, cache, stage, key, sent, fallback, reply, result, vouched, lag>>

Empty == [ts |-> -1, principal |-> NoSession]
Entries == [ts : 0..MaxTime, principal : Principals]

\* The oldest answer a validation may still act upon: the call that filled
\* the entry, the life of the entry, and the failed call that falls back on it.
MaxLag == Stale - 1 + 2 * Timeout
Never == -(MaxLag + 1)

-----------------------------------------------------------------------------
SessionInit ==
    /\ now = 0
    /\ session \in [Keys -> Principals \cup {NoSession}]
    /\ cache = [k \in Keys |-> Empty]
    /\ stage = [r \in Validations |-> "idle"]
    /\ key \in [Validations -> Keys]
    /\ sent = [r \in Validations |-> 0]
    /\ fallback = [r \in Validations |-> NoSession]
    /\ reply = [r \in Validations |-> NoSession]
    /\ result = [r \in Validations |-> "none"]
    /\ vouched = [k \in Keys |-> [p \in Principals |-> Never]]
    /\ lag = [r \in Validations |-> 0]

\* The clock; a pending call ends no later than its timeout.
Tick ==
    /\ now < MaxTime
    /\ \A r \in Validations : stage[r] \in {"asking", "replied"} => now < sent[r] + Timeout
    /\ now' = now + 1
    /\ UNCHANGED <<session, cache, stage, key, sent, fallback, reply, result, vouched, lag>>

\* BetterAuth signs a user in, changes the role, or revokes the session.
ChangeSession(k, s) ==
    /\ session[k] # s
    /\ session' = [session EXCEPT ![k] = s]
    /\ UNCHANGED <<now, cache, stage, key, sent, fallback, reply, result, vouched, lag>>

\* ts.elapsed() < 20 s.
HasFresh(k) == cache[k] # Empty /\ now - cache[k].ts < Fresh
\* ts.elapsed() < 600 s: the principal to fall back on.
\* Mutant: any entry will do, however old.
FallbackOfAnyAge(k) == cache[k].principal
StaleFallback(k) ==
    IF cache[k] # Empty /\ now - cache[k].ts < Stale THEN cache[k].principal ELSE NoSession

Accept(r, k, p) ==
    /\ stage' = [stage EXCEPT ![r] = "done"]
    /\ result' = [result EXCEPT ![r] = p]
    /\ lag' = [lag EXCEPT ![r] = now - vouched[k][p]]

Refuse(r, e) ==
    /\ stage' = [stage EXCEPT ![r] = "done"]
    /\ result' = [result EXCEPT ![r] = e]
    /\ UNCHANGED lag

\* cache_get finds a fresh entry.
CacheHit(r, k) ==
    /\ stage[r] = "idle"
    /\ HasFresh(k)
    /\ key' = [key EXCEPT ![r] = k]
    /\ Accept(r, k, cache[k].principal)
    /\ UNCHANGED <<now, session, cache, sent, fallback, reply, vouched>>

\* No fresh entry: remember the stale one, release the lock and call.
Ask(r, k) ==
    /\ stage[r] = "idle"
    /\ ~HasFresh(k)
    /\ stage' = [stage EXCEPT ![r] = "asking"]
    /\ key' = [key EXCEPT ![r] = k]
    /\ sent' = [sent EXCEPT ![r] = now]
    /\ fallback' = [fallback EXCEPT ![r] = StaleFallback(k)]
    /\ UNCHANGED <<now, session, cache, reply, result, vouched, lag>>

\* BetterAuth reads the session and answers; a principal it answers is one
\* it vouches for at this moment.
UpstreamAnswers(r) ==
    /\ stage[r] = "asking"
    /\ stage' = [stage EXCEPT ![r] = "replied"]
    /\ reply' = [reply EXCEPT ![r] = session[key[r]]]
    /\ vouched' = IF session[key[r]] = NoSession THEN vouched
                  ELSE [vouched EXCEPT ![key[r]][session[key[r]]] = now]
    /\ UNCHANGED <<now, session, cache, key, sent, fallback, result, lag>>

\* The call fails: in transport or by timeout, with a 5xx, or unreadably.
UpstreamFails(r, f) ==
    /\ stage[r] = "asking"
    /\ stage' = [stage EXCEPT ![r] = "replied"]
    /\ reply' = [reply EXCEPT ![r] = f]
    /\ UNCHANGED <<now, session, cache, key, sent, fallback, result, vouched, lag>>

\* cache_insert: a cache past its limit is emptied first.
Cached == {k \in Keys : cache[k] # Empty}
\* Mutant: the limit is noticed one insertion late.
OverLimitLate == Cardinality(Cached) > MaxCache + 1
OverLimit == Cardinality(Cached) > MaxCache
Inserted(k, p) ==
    [j \in Keys |-> IF j = k THEN [ts |-> now, principal |-> p]
                    ELSE IF OverLimit THEN Empty ELSE cache[j]]

\* 200 with a session: remembered as of now and accepted.
ReceiveSession(r) ==
    /\ stage[r] = "replied"
    /\ reply[r] \in Principals
    /\ cache' = Inserted(key[r], reply[r])
    /\ Accept(r, key[r], reply[r])
    /\ UNCHANGED <<now, session, key, sent, fallback, reply, vouched>>

\* 200 with null, or a 4xx: refused; the cached entry stays where it is.
ReceiveNull(r) ==
    /\ stage[r] = "replied"
    /\ reply[r] = NoSession
    /\ Refuse(r, "invalid")
    /\ UNCHANGED <<now, session, cache, key, sent, fallback, reply, vouched>>

\* Transport error or 5xx with something to fall back on; nothing is cached.
AfterFallback(r) == cache

FallBack(r) ==
    /\ stage[r] = "replied"
    /\ reply[r] \in {"transport", "status_5xx"}
    /\ fallback[r] # NoSession
    /\ cache' = AfterFallback(r)
    /\ Accept(r, key[r], fallback[r])
    /\ UNCHANGED <<now, session, key, sent, fallback, reply, vouched>>

\* No fallback, or an answer that does not deserialize: an upstream error.
ReceiveFailure(r) ==
    /\ stage[r] = "replied"
    /\ reply[r] \in Failures
    /\ reply[r] = "garbled" \/ fallback[r] = NoSession
    /\ Refuse(r, "upstream")
    /\ UNCHANGED <<now, session, cache, key, sent, fallback, reply, vouched>>

\* The request is over.
Return(r) ==
    /\ stage[r] = "done"
    /\ stage' = [stage EXCEPT ![r] = "idle"]
    /\ sent' = [sent EXCEPT ![r] = 0]
    /\ fallback' = [fallback EXCEPT ![r] = NoSession]
    /\ reply' = [reply EXCEPT ![r] = NoSession]
    /\ result' = [result EXCEPT ![r] = "none"]
    /\ lag' = [lag EXCEPT ![r] = 0]
    /\ UNCHANGED <<now, session, cache, key, vouched>>

SessionNext ==
    \/ Tick
    \/ \E k \in Keys, s \in Principals \cup {NoSession} : ChangeSession(k, s)
    \/ \E r \in Validations :
        \/ \E k \in Keys : CacheHit(r, k) \/ Ask(r, k)
        \/ UpstreamAnswers(r)
        \/ \E f \in Failures : UpstreamFails(r, f)
        \/ ReceiveSession(r) \/ ReceiveNull(r) \/ FallBack(r) \/ ReceiveFailure(r)
        \/ Return(r)

SessionSpec == SessionInit /\ [][SessionNext]_sessionVars

-----------------------------------------------------------------------------
SessionTypes ==
    /\ now \in 0..MaxTime
    /\ session \in [Keys -> Principals \cup {NoSession}]
    /\ cache \in [Keys -> Entries \cup {Empty}]
    /\ stage \in [Validations -> {"idle", "asking", "replied", "done"}]
    /\ key \in [Validations -> Keys]
    /\ sent \in [Validations -> 0..MaxTime]
    /\ fallback \in [Validations -> Principals \cup {NoSession}]
    /\ reply \in [Validations -> Principals \cup {NoSession} \cup Failures]
    /\ vouched \in [Keys -> [Principals -> Int]]
    /\ lag \in [Validations -> Int]

\* What is known of the age of everything a principal can be read from: a
\* cached entry was vouched for at most Timeout before its time stamp, a
\* fallback at most Stale - 1 + Timeout before its call was sent, and a reply
\* after its call was sent.
AgeInv ==
    /\ \A k \in Keys, p \in Principals : vouched[k][p] <= now
    /\ \A k \in Keys : cache[k] # Empty =>
            /\ cache[k].ts <= now
            /\ cache[k].ts - vouched[k][cache[k].principal] <= Timeout
    /\ \A r \in Validations : stage[r] \in {"asking", "replied"} =>
            /\ sent[r] <= now
            /\ now <= sent[r] + Timeout
            /\ fallback[r] # NoSession =>
                    sent[r] - vouched[key[r]][fallback[r]] <= Stale - 1 + Timeout
    /\ \A r \in Validations : stage[r] = "replied" /\ reply[r] \in Principals =>
            sent[r] <= vouched[key[r]][reply[r]]

\* Nobody is let in on old news: an accepted principal is one BetterAuth
\* itself vouched for, for that very token, at most Stale + 2 Timeout before.
\* So a revoked session or a withdrawn role is accepted no longer than that,
\* whatever is answered late, twice, out of order or not at all.
AcceptedWasVouched ==
    \A r \in Validations : stage[r] = "done" => lag[r] <= MaxLag

\* The lock-protected map stays within one entry of its limit.
CacheBounded == Cardinality(Cached) <= MaxCache + 1
=============================================================================
