--------------------------- MODULE AdmissionProofs ---------------------------
(***************************************************************************)
(* Who is let in.  SessionCache decides who a caller is, ModuleAccess what *)
(* it may open; they share no state, and each has its theorems here: the   *)
(* first for any number of requests, tokens and principals and any values  *)
(* of the three durations, the second for any edits, users and modules.    *)
(***************************************************************************)
EXTENDS SessionCache, ModuleAccess, FiniteSetTheorems, TLAPS

LEMMA TypeInit == SessionInit => SessionTypes
BY SessionAssumption DEF SessionInit, SessionTypes, Never, MaxLag, Empty

LEMMA TypeStep == SessionTypes /\ [SessionNext]_sessionVars => SessionTypes'
<1> SUFFICES ASSUME SessionTypes, [SessionNext]_sessionVars PROVE SessionTypes'
    OBVIOUS
<1> USE SessionAssumption DEF SessionTypes
<1>1. CASE Tick
    BY <1>1 DEF Tick
<1>2. ASSUME NEW k \in Keys, NEW s \in Principals \cup {NoSession}, ChangeSession(k, s)
      PROVE SessionTypes'
    BY <1>2 DEF ChangeSession
<1>3. ASSUME NEW r \in Validations, NEW k \in Keys, CacheHit(r, k) PROVE SessionTypes'
    <2>1. cache[k].principal \in Principals
        BY <1>3 DEF CacheHit, HasFresh, Entries
    <2>2. now - vouched[k][cache[k].principal] \in Int
        BY <2>1
    <2>3. QED
        BY <1>3, <2>2 DEF CacheHit, Accept
<1>4. ASSUME NEW r \in Validations, NEW k \in Keys, Ask(r, k) PROVE SessionTypes'
    <2>1. StaleFallback(k) \in Principals \cup {NoSession}
        BY DEF StaleFallback, Entries, Empty
    <2>2. QED
        BY <1>4, <2>1 DEF Ask
<1>5. ASSUME NEW r \in Validations, UpstreamAnswers(r) PROVE SessionTypes'
    <2>1. vouched' \in [Keys -> [Principals -> Int]]
        <3>1. CASE session[key[r]] = NoSession
            BY <1>5, <3>1 DEF UpstreamAnswers
        <3>2. CASE session[key[r]] # NoSession
            BY <1>5, <3>2 DEF UpstreamAnswers
        <3>3. QED
            BY <3>1, <3>2
    <2>2. QED
        BY <1>5, <2>1 DEF UpstreamAnswers
<1>6. ASSUME NEW r \in Validations, NEW f \in Failures, UpstreamFails(r, f) PROVE SessionTypes'
    BY <1>6 DEF UpstreamFails
<1>7. ASSUME NEW r \in Validations, ReceiveSession(r) PROVE SessionTypes'
    <2>1. [ts |-> now, principal |-> reply[r]] \in Entries
        BY <1>7 DEF ReceiveSession, Entries
    <2>2. cache' \in [Keys -> Entries \cup {Empty}]
        BY <1>7, <2>1 DEF ReceiveSession, Inserted
    <2>3. now - vouched[key[r]][reply[r]] \in Int
        BY <1>7 DEF ReceiveSession
    <2>4. QED
        BY <1>7, <2>2, <2>3 DEF ReceiveSession, Accept
<1>8. ASSUME NEW r \in Validations, ReceiveNull(r) \/ ReceiveFailure(r) PROVE SessionTypes'
    BY <1>8 DEF ReceiveNull, ReceiveFailure, Refuse
<1>9. ASSUME NEW r \in Validations, FallBack(r) PROVE SessionTypes'
    <2>1. now - vouched[key[r]][fallback[r]] \in Int
        BY <1>9 DEF FallBack
    <2>2. QED
        BY <1>9, <2>1 DEF FallBack, AfterFallback, Accept
<1>10. ASSUME NEW r \in Validations, Return(r) PROVE SessionTypes'
    BY <1>10 DEF Return
<1>11. CASE UNCHANGED sessionVars
    BY <1>11 DEF sessionVars
<1>12. QED
    BY <1>1, <1>2, <1>3, <1>4, <1>5, <1>6, <1>7, <1>8, <1>9, <1>10, <1>11 DEF SessionNext

-----------------------------------------------------------------------------
(* The inductive invariant: ages of cache entries, fallbacks and replies,  *)
(* together with the bound on what has been accepted.                      *)

\* Also between validations, where lag is back to 0.
LagBounded == \A r \in Validations : lag[r] <= MaxLag

IInv == SessionTypes /\ AgeInv /\ LagBounded

LEMMA IInit == SessionInit => IInv
<1> SUFFICES ASSUME SessionInit PROVE IInv
    OBVIOUS
<1>1. SessionTypes
    BY TypeInit
<1>2. Never <= 0 /\ MaxLag \in Int /\ 0 <= MaxLag
    BY SessionAssumption DEF Never, MaxLag
<1>3. AgeInv
    BY <1>2 DEF SessionInit, AgeInv
<1>4. LagBounded
    BY <1>2 DEF SessionInit, LagBounded
<1>5. QED
    BY <1>1, <1>3, <1>4 DEF IInv

\* AgeInv, split: clock, cache, pending calls, replies.
AgeClock == \A k \in Keys, p \in Principals : vouched[k][p] <= now
AgeCache == \A k \in Keys : cache[k] # Empty =>
    cache[k].ts <= now /\ cache[k].ts - vouched[k][cache[k].principal] <= Timeout
AgePending == \A r \in Validations : stage[r] \in {"asking", "replied"} =>
    /\ sent[r] <= now
    /\ now <= sent[r] + Timeout
    /\ fallback[r] # NoSession =>
            sent[r] - vouched[key[r]][fallback[r]] <= Stale - 1 + Timeout
AgeReply == \A r \in Validations : stage[r] = "replied" /\ reply[r] \in Principals =>
    sent[r] <= vouched[key[r]][reply[r]]

LEMMA AgeParts == AgeInv <=> AgeClock /\ AgeCache /\ AgePending /\ AgeReply
BY DEF AgeInv, AgeClock, AgeCache, AgePending, AgeReply

LEMMA IStep == IInv /\ [SessionNext]_sessionVars => IInv'
<1> SUFFICES ASSUME IInv, [SessionNext]_sessionVars PROVE AgeInv' /\ LagBounded'
    BY TypeStep DEF IInv
<1>0. SessionTypes /\ AgeClock /\ AgeCache /\ AgePending /\ AgeReply /\ LagBounded
    BY AgeParts DEF IInv
<1> USE SessionAssumption, <1>0
<1>t. /\ now \in Int /\ MaxLag \in Int /\ MaxLag = Stale - 1 + 2 * Timeout /\ 0 <= MaxLag
      /\ \A k \in Keys, p \in Principals : vouched[k][p] \in Int
      /\ \A r \in Validations : sent[r] \in Int /\ key[r] \in Keys
      /\ \A r \in Validations : fallback[r] # NoSession => fallback[r] \in Principals
      /\ \A k \in Keys : cache[k] # Empty =>
            cache[k].ts \in Int /\ cache[k].principal \in Principals
    BY DEF SessionTypes, MaxLag, Entries
<1>1. CASE Tick
    <2>1. AgeClock'
        BY <1>1, <1>t DEF Tick, AgeClock
    <2>2. AgeCache'
        BY <1>1, <1>t DEF Tick, AgeCache
    <2>3. AgePending'
        <3> SUFFICES ASSUME NEW q \in Validations, stage[q] \in {"asking", "replied"}
                     PROVE  /\ sent[q] <= now + 1 /\ now + 1 <= sent[q] + Timeout
                            /\ fallback[q] # NoSession =>
                                sent[q] - vouched[key[q]][fallback[q]] <= Stale - 1 + Timeout
            BY <1>1 DEF Tick, AgePending
        <3>1. now < sent[q] + Timeout
            BY <1>1 DEF Tick
        <3>2. sent[q] \in Int /\ now \in Int
            BY <1>t
        <3>3. /\ sent[q] <= now
              /\ fallback[q] # NoSession =>
                    sent[q] - vouched[key[q]][fallback[q]] <= Stale - 1 + Timeout
            BY DEF AgePending
        <3>4. sent[q] <= now + 1 /\ now + 1 <= sent[q] + Timeout
            BY <3>1, <3>2, <3>3
        <3>5. QED
            BY <3>3, <3>4
    <2>4. AgeReply'
        BY <1>1 DEF Tick, AgeReply
    <2>5. LagBounded'
        BY <1>1 DEF Tick, LagBounded, MaxLag
    <2>6. QED
        BY <2>1, <2>2, <2>3, <2>4, <2>5
        DEF AgeInv, AgeClock, AgeCache, AgePending, AgeReply
\* A step that leaves clock, cache and history alone and no new call pending.
<1>2. ASSUME UNCHANGED <<now, cache, vouched>>,
             \A r \in Validations : stage'[r] \in {"asking", "replied"} =>
                /\ stage[r] \in {"asking", "replied"} /\ key'[r] = key[r]
                /\ sent'[r] = sent[r] /\ fallback'[r] = fallback[r],
             \A r \in Validations : stage'[r] = "replied" /\ reply'[r] \in Principals =>
                stage[r] = "replied" /\ reply[r] = reply'[r],
             LagBounded'
      PROVE  AgeInv' /\ LagBounded'
    <2>1. AgeClock' /\ AgeCache'
        BY <1>2 DEF AgeClock, AgeCache, Empty
    <2>2. AgePending'
        BY <1>2 DEF AgePending
    <2>3. AgeReply'
        BY <1>2 DEF AgeReply
    <2>4. QED
        BY <1>2, <2>1, <2>2, <2>3
        DEF AgeInv, AgeClock, AgeCache, AgePending, AgeReply
<1>3. ASSUME NEW k \in Keys, NEW s \in Principals \cup {NoSession}, ChangeSession(k, s)
      PROVE AgeInv' /\ LagBounded'
    BY <1>2, <1>3 DEF ChangeSession, LagBounded, MaxLag
<1>4. ASSUME NEW r \in Validations, NEW k \in Keys, CacheHit(r, k)
      PROVE AgeInv' /\ LagBounded'
    <2>1. now - vouched[k][cache[k].principal] <= MaxLag
        BY <1>4, <1>t DEF CacheHit, HasFresh, AgeCache
    <2>2. LagBounded'
        BY <1>4, <2>1 DEF CacheHit, Accept, LagBounded, SessionTypes, MaxLag
    <2>3. QED
        BY <1>2, <1>4, <2>2 DEF CacheHit, Accept, SessionTypes
<1>5. ASSUME NEW r \in Validations, NEW k \in Keys, Ask(r, k)
      PROVE AgeInv' /\ LagBounded'
    <2>1. AgeClock' /\ AgeCache'
        BY <1>5 DEF Ask, AgeClock, AgeCache, Empty
    <2>2. StaleFallback(k) # NoSession =>
            now - vouched[k][StaleFallback(k)] <= Stale - 1 + Timeout
        BY <1>t DEF StaleFallback, AgeCache
    <2>3. AgePending'
        <3>1. ASSUME NEW q \in Validations, q # r, stage'[q] \in {"asking", "replied"}
              PROVE  /\ sent'[q] <= now' /\ now' <= sent'[q] + Timeout
                     /\ fallback'[q] # NoSession =>
                        sent'[q] - vouched'[key'[q]][fallback'[q]] <= Stale - 1 + Timeout
            BY <1>5, <3>1 DEF Ask, AgePending, SessionTypes
        <3>2. /\ sent'[r] = now /\ key'[r] = k /\ fallback'[r] = StaleFallback(k)
              /\ now' = now /\ vouched' = vouched
            BY <1>5 DEF Ask, SessionTypes
        <3>3. /\ sent'[r] <= now' /\ now' <= sent'[r] + Timeout
              /\ fallback'[r] # NoSession =>
                    sent'[r] - vouched'[key'[r]][fallback'[r]] <= Stale - 1 + Timeout
            BY <2>2, <3>2, <1>t
        <3>4. QED
            BY <3>1, <3>3 DEF AgePending
    <2>4. AgeReply'
        BY <1>5 DEF Ask, AgeReply, SessionTypes
    <2>5. LagBounded'
        BY <1>5 DEF Ask, LagBounded, SessionTypes, MaxLag
    <2>6. QED
        BY <2>1, <2>3, <2>4, <2>5
        DEF AgeInv, AgeClock, AgeCache, AgePending, AgeReply
<1>6. ASSUME NEW r \in Validations, UpstreamAnswers(r) PROVE AgeInv' /\ LagBounded'
    <2>0. \A k \in Keys, p \in Principals :
            vouched'[k][p] \in Int /\ vouched[k][p] <= vouched'[k][p] /\ vouched'[k][p] <= now
        <3>1. CASE session[key[r]] = NoSession
            BY <1>6, <3>1, <1>t DEF UpstreamAnswers, AgeClock
        <3>2. CASE session[key[r]] # NoSession
            BY <1>6, <3>2, <1>t DEF UpstreamAnswers, AgeClock, SessionTypes
        <3>3. QED
            BY <3>1, <3>2
    <2>1. AgeClock'
        BY <1>6, <2>0 DEF UpstreamAnswers, AgeClock
    <2>2. AgeCache'
        BY <1>6, <2>0, <1>t DEF UpstreamAnswers, AgeCache, Empty
    <2>3. AgePending'
        <3> SUFFICES ASSUME NEW q \in Validations, stage'[q] \in {"asking", "replied"}
                     PROVE  /\ sent[q] <= now /\ now <= sent[q] + Timeout
                            /\ fallback[q] # NoSession =>
                                sent[q] - vouched'[key[q]][fallback[q]] <= Stale - 1 + Timeout
            BY <1>6 DEF UpstreamAnswers, AgePending
        <3>1. stage[q] \in {"asking", "replied"}
            BY <1>6 DEF UpstreamAnswers, SessionTypes
        <3>2. QED
            BY <3>1, <2>0, <1>t DEF AgePending
    <2>4. AgeReply'
        <3> SUFFICES ASSUME NEW q \in Validations, stage'[q] = "replied", reply'[q] \in Principals
                     PROVE  sent[q] <= vouched'[key[q]][reply'[q]]
            BY <1>6 DEF UpstreamAnswers, AgeReply
        <3>1. CASE q = r
            <4>1. reply'[r] = session[key[r]] /\ stage[r] = "asking"
                BY <1>6 DEF UpstreamAnswers, SessionTypes
            <4>2. vouched'[key[r]][reply'[r]] = now
                BY <1>6, <3>1, <4>1 DEF UpstreamAnswers, SessionTypes
            <4>3. QED
                BY <3>1, <4>1, <4>2 DEF AgePending
        <3>2. CASE q # r
            <4>1. stage[q] = "replied" /\ reply'[q] = reply[q]
                BY <1>6, <3>2 DEF UpstreamAnswers, SessionTypes
            <4>2. QED
                BY <4>1, <2>0, <1>t DEF AgeReply
        <3>3. QED
            BY <3>1, <3>2
    <2>5. LagBounded'
        BY <1>6 DEF UpstreamAnswers, LagBounded, SessionTypes, MaxLag
    <2>6. QED
        BY <2>1, <2>2, <2>3, <2>4, <2>5
        DEF AgeInv, AgeClock, AgeCache, AgePending, AgeReply
<1>7. ASSUME NEW r \in Validations, NEW f \in Failures, UpstreamFails(r, f)
      PROVE AgeInv' /\ LagBounded'
    BY <1>2, <1>7 DEF UpstreamFails, LagBounded, SessionTypes, MaxLag
<1>8. ASSUME NEW r \in Validations, ReceiveSession(r) PROVE AgeInv' /\ LagBounded'
    <2>1. now - vouched[key[r]][reply[r]] <= Timeout
        BY <1>8, <1>t DEF ReceiveSession, AgeReply, AgePending
    <2>2. AgeClock'
        BY <1>8 DEF ReceiveSession, AgeClock
    <2>3. AgeCache'
        <3> SUFFICES ASSUME NEW k \in Keys, cache'[k] # Empty
                     PROVE  cache'[k].ts <= now /\
                            cache'[k].ts - vouched[k][cache'[k].principal] <= Timeout
            BY <1>8 DEF ReceiveSession, AgeCache, Empty
        <3>1. CASE k = key[r]
            <4>1. cache'[k] = [ts |-> now, principal |-> reply[r]]
                BY <1>8, <3>1 DEF ReceiveSession, Inserted
            <4>2. QED
                BY <2>1, <3>1, <4>1, <1>t
        <3>2. CASE k # key[r]
            <4>1. cache'[k] = cache[k]
                BY <1>8, <3>2 DEF ReceiveSession, Inserted
            <4>2. QED
                BY <4>1 DEF AgeCache
        <3>3. QED
            BY <3>1, <3>2
    <2>4. AgePending' /\ AgeReply'
        BY <1>8 DEF ReceiveSession, Accept, AgePending, AgeReply, SessionTypes
    <2>5. now - vouched[key[r]][reply[r]] <= MaxLag
        <3>1. Timeout <= MaxLag
            BY DEF MaxLag
        <3>2. now - vouched[key[r]][reply[r]] \in Int
            BY <1>8, <1>t DEF ReceiveSession
        <3>3. QED
            BY <2>1, <3>1, <3>2, <1>t
    <2>6. LagBounded'
        BY <1>8, <2>5 DEF ReceiveSession, Accept, LagBounded, SessionTypes, MaxLag
    <2>7. QED
        BY <2>2, <2>3, <2>4, <2>6
        DEF AgeInv, AgeClock, AgeCache, AgePending, AgeReply
<1>9. ASSUME NEW r \in Validations, ReceiveNull(r) \/ ReceiveFailure(r)
      PROVE AgeInv' /\ LagBounded'
    BY <1>2, <1>9 DEF ReceiveNull, ReceiveFailure, Refuse, LagBounded, SessionTypes, MaxLag
<1>10. ASSUME NEW r \in Validations, FallBack(r) PROVE AgeInv' /\ LagBounded'
    <2>1. now - vouched[key[r]][fallback[r]] <= MaxLag
        BY <1>10, <1>t DEF FallBack, AgePending
    <2>2. LagBounded'
        BY <1>10, <2>1 DEF FallBack, Accept, LagBounded, SessionTypes, MaxLag
    <2>3. QED
        BY <1>2, <1>10, <2>2 DEF FallBack, AfterFallback, Accept, SessionTypes
<1>11. ASSUME NEW r \in Validations, Return(r) PROVE AgeInv' /\ LagBounded'
    BY <1>2, <1>11, <1>t DEF Return, LagBounded, SessionTypes, MaxLag
<1>12. CASE UNCHANGED sessionVars
    BY <1>2, <1>12 DEF sessionVars, LagBounded, MaxLag
<1>13. QED
    BY <1>1, <1>3, <1>4, <1>5, <1>6, <1>7, <1>8, <1>9, <1>10, <1>11, <1>12 DEF SessionNext

\* No validation ever accepts a principal that BetterAuth has not vouched for
\* within the last Stale + 2 Timeout.
THEOREM StalenessBounded == SessionSpec => []AcceptedWasVouched
<1>1. IInv => AcceptedWasVouched
    BY DEF IInv, LagBounded, AcceptedWasVouched
<1>2. QED
    BY <1>1, IInit, IStep, PTL DEF SessionSpec

-----------------------------------------------------------------------------
(* The size of the cache.  Keys may be infinite: that only finitely many   *)
(* entries are filled is part of the invariant.                            *)

SizeInv == IsFiniteSet(Cached) /\ CacheBounded

\* An insertion adds one entry, to a cache within its limit or an emptied one.
LEMMA InsertBounded ==
    ASSUME SizeInv, SessionTypes, NEW k \in Keys, NEW p \in Principals, cache' = Inserted(k, p)
    PROVE  SizeInv'
<1>1. MaxCache \in Nat /\ Cardinality(Cached) \in Nat
    BY SessionAssumption, FS_CardinalityType DEF SizeInv
<1>2. CASE OverLimit
    <2>1. Cached' \subseteq {k}
        BY <1>2 DEF Cached, Inserted, Empty
    <2>2. IsFiniteSet({k}) /\ Cardinality({k}) = 1
        BY FS_Singleton
    <2>3. IsFiniteSet(Cached') /\ Cardinality(Cached') <= 1 /\ Cardinality(Cached') \in Nat
        BY <2>1, <2>2, FS_Subset, FS_CardinalityType
    <2>4. QED
        BY <1>1, <2>3 DEF SizeInv, CacheBounded
<1>3. CASE ~OverLimit
    <2>1. Cached' \subseteq Cached \cup {k}
        BY <1>3 DEF Cached, Inserted, Empty
    <2> DEFINE C == Cached
    <2>f. IsFiniteSet(C)
        BY DEF SizeInv
    <2>a. /\ IsFiniteSet(C \cup {k})
          /\ Cardinality(C \cup {k}) =
                IF k \in C THEN Cardinality(C) ELSE Cardinality(C) + 1
        <3> HIDE DEF C
        <3> QED
            BY <2>f, FS_AddElement
    <2>2. /\ IsFiniteSet(Cached \cup {k})
          /\ Cardinality(Cached \cup {k}) <= Cardinality(Cached) + 1
          /\ Cardinality(Cached \cup {k}) \in Nat
        BY <1>1, <2>a
    <2>3. /\ IsFiniteSet(Cached') /\ Cardinality(Cached') \in Nat
          /\ Cardinality(Cached') <= Cardinality(Cached \cup {k})
        BY <2>1, <2>2, FS_Subset, FS_CardinalityType
    <2>4. Cardinality(Cached) <= MaxCache
        BY <1>1, <1>3 DEF OverLimit
    <2>5. QED
        BY <1>1, <2>2, <2>3, <2>4 DEF SizeInv, CacheBounded
<1>4. QED
    BY <1>2, <1>3

LEMMA SizeStep == SessionTypes /\ SizeInv /\ [SessionNext]_sessionVars => SizeInv'
<1> SUFFICES ASSUME SessionTypes, SizeInv, [SessionNext]_sessionVars PROVE SizeInv'
    OBVIOUS
<1>1. ASSUME NEW r \in Validations, ReceiveSession(r) PROVE SizeInv'
    <2>1. key[r] \in Keys /\ reply[r] \in Principals
        BY <1>1 DEF ReceiveSession, SessionTypes
    <2>2. QED
        BY <1>1, <2>1, InsertBounded DEF ReceiveSession
<1>2. CASE cache' = cache
    BY <1>2 DEF SizeInv, CacheBounded, Cached, Empty
<1>3. QED
    BY <1>1, <1>2 DEF SessionNext, sessionVars, Tick, ChangeSession, CacheHit, Ask, UpstreamAnswers,
        UpstreamFails, ReceiveNull, FallBack, AfterFallback, ReceiveFailure, Return

\* For any number of tokens the map never holds more than one entry beyond its
\* limit, because cache_insert tests before it inserts.
THEOREM CacheStaysBounded == SessionSpec => []CacheBounded
<1>1. SessionInit => SizeInv
    <2> SUFFICES ASSUME SessionInit PROVE SizeInv
        OBVIOUS
    <2>1. Cached = {}
        BY DEF SessionInit, Cached
    <2>2. IsFiniteSet(Cached) /\ Cardinality(Cached) = 0
        BY <2>1, FS_EmptySet
    <2>3. QED
        BY <2>2, SessionAssumption DEF SizeInv, CacheBounded
<1>2. SizeInv => CacheBounded
    BY DEF SizeInv
<1>3. QED
    BY <1>1, <1>2, TypeInit, TypeStep, SizeStep, PTL DEF SessionSpec

-----------------------------------------------------------------------------
(* ModuleAccess.  Whatever admin edits overlap, fail halfway or are        *)
(* repeated, a module is refused only if some edit withheld it.            *)
(* The property speaks of refusals of the past; what a step preserves      *)
(* is about the rows: every module the rows of a restricted user lack is   *)
(* lacking in some set stored for them.                                    *)

\* What the argument needs of the types.
AccessTables ==
    /\ email \in [Users -> Emails \cup {NoEmail}]
    /\ grants \in [Users -> SUBSET UNION Requested]
    /\ given \in [Users -> SUBSET SUBSET UNION Requested]
    /\ denied \in [Users -> SUBSET MODULE_KEYS]
    /\ edit \in [Edits -> [kind : {"none", "set", "invite"}, user : Users \cup {NoUser},
                           email : Emails \cup {NoEmail},
                           modules : SUBSET UNION Requested,
                           role : Roles \cup {NoRole, "user"}]]

\* A module missing from the rows of a restricted user is missing from one of
\* the sets stored for that user.
Explained(u, m) ==
    grants[u] # {} /\ m \notin grants[u] => \E M \in given[u] : m \notin M

RowsExplained == \A u \in Users : \A m \in MODULE_KEYS : Explained(u, m)

AccessInv == AccessTables /\ RowsExplained /\ DeniedOnlyIfWithheld

LEMMA AccessInvInit == AccessInit => AccessInv
  BY AccessAssumption DEF AccessInit, AccessInv, AccessTables, RowsExplained, Explained, DeniedOnlyIfWithheld, NoEdit

\* Steps that leave the rows and the histories alone.
LEMMA AccessKept ==
  ASSUME AccessInv, UNCHANGED <<grants, given, denied>>, AccessTables'
  PROVE  AccessInv'
  BY DEF AccessInv, RowsExplained, Explained, DeniedOnlyIfWithheld

LEMMA AccessStep == AccessInv /\ [AccessNext]_accessVars => AccessInv'
<1> SUFFICES ASSUME AccessInv, [AccessNext]_accessVars PROVE AccessInv'
  OBVIOUS
<1> USE DEF store
<1>1. ASSUME NEW e \in Edits, NEW M \in Requested, NEW r \in Roles \cup {NoRole},
             NEW u \in Users, SubmitSet(e, u, M, r)
      PROVE  AccessInv'
  <2>1. UNCHANGED <<grants, given, denied>>
    BY <1>1 DEF SubmitSet
  <2>2. AccessTables'
    BY <1>1, <2>1 DEF SubmitSet, AccessInv, AccessTables
  <2> QED BY <2>1, <2>2, AccessKept
<1>2. ASSUME NEW e \in Edits, NEW M \in Requested, NEW r \in Roles \cup {NoRole},
             NEW m \in Emails, SubmitInvite(e, m, M, r)
      PROVE  AccessInv'
  <2>1. UNCHANGED <<grants, given, denied>>
    BY <1>2 DEF SubmitInvite
  <2>2. AccessTables'
    BY <1>2, <2>1 DEF SubmitInvite, AccessInv, AccessTables
  <2> QED BY <2>1, <2>2, AccessKept
<1>3. ASSUME NEW e \in Edits, NEW got \in Replies, LookupUser(e, got)
      PROVE  AccessInv'
  <2>1. UNCHANGED <<grants, given, denied>>
    BY <1>3 DEF LookupUser
  <2>2. AccessTables'
    BY <1>3, <2>1 DEF LookupUser, AccessInv, AccessTables
  <2> QED BY <2>1, <2>2, AccessKept
<1>4. ASSUME NEW e \in Edits, NEW got \in Replies, NEW u \in Users,
             CreateUser(e, u, got)
      PROVE  AccessInv'
  <2>1. UNCHANGED <<grants, given, denied>>
    BY <1>4 DEF CreateUser
  <2>2. AccessTables'
    <3>1. edit[e].email \in Emails \cup {NoEmail} /\ email \in [Users -> Emails \cup {NoEmail}]
      BY DEF AccessInv, AccessTables
    <3>2. email' \in [Users -> Emails \cup {NoEmail}]
      BY <1>4, <3>1 DEF CreateUser
    <3> QED BY <1>4, <2>1, <3>2 DEF CreateUser, AccessInv, AccessTables
  <2> QED BY <2>1, <2>2, AccessKept
<1>5. ASSUME NEW e \in Edits, NEW got \in Replies, SetRole(e, got)
      PROVE  AccessInv'
  <2>1. UNCHANGED <<email, grants, given, denied, edit>>
    BY <1>5 DEF SetRole
  <2> QED BY <2>1, AccessKept DEF AccessInv, AccessTables
<1>6. ASSUME NEW e \in Edits, AbandonEdit(e)
      PROVE  AccessInv'
  <2>1. UNCHANGED <<email, grants, given, denied, edit>>
    BY <1>6 DEF AbandonEdit
  <2> QED BY <2>1, AccessKept DEF AccessInv, AccessTables
<1>7. ASSUME NEW e \in Edits, NEW got \in Replies, DeleteGrants(e, got)
      PROVE  AccessInv'
  <2>1. UNCHANGED <<email, edit, given, denied>>
    BY <1>7 DEF DeleteGrants
  <2>2. \/ grants' = grants
        \/ grants' = [grants EXCEPT ![edit[e].user] = {}]
    BY <1>7 DEF DeleteGrants, Cleared
  <2>3. AccessTables'
    BY <2>1, <2>2 DEF AccessInv, AccessTables
  <2>4. RowsExplained'
    BY <2>1, <2>2 DEF AccessInv, AccessTables, RowsExplained, Explained
  <2> QED BY <2>1, <2>3, <2>4 DEF AccessInv, DeniedOnlyIfWithheld
<1>8. ASSUME NEW e \in Edits, NEW got \in Replies, InsertGrants(e, got)
      PROVE  AccessInv'
  <2>1. UNCHANGED <<email, edit, denied>>
    BY <1>8 DEF InsertGrants
  <2>2. CASE UNCHANGED <<grants, given>>
    BY <2>1, <2>2, AccessKept DEF AccessInv, AccessTables
  <2>3. CASE /\ grants' = [grants EXCEPT ![edit[e].user] = @ \cup edit[e].modules]
             /\ given' = [given EXCEPT ![edit[e].user] = @ \cup {edit[e].modules}]
    <3>1. edit[e].modules \in SUBSET UNION Requested
      BY DEF AccessInv, AccessTables
    <3>2. AccessTables'
      BY <2>1, <2>3, <3>1 DEF AccessInv, AccessTables
    <3>3. \A u \in Users : given[u] \subseteq given'[u]
      BY <2>3 DEF AccessInv, AccessTables
    <3>4. RowsExplained'
      <4> SUFFICES ASSUME NEW u \in Users, NEW m \in MODULE_KEYS
                   PROVE  Explained(u, m)'
        BY DEF RowsExplained
      <4>1. CASE u = edit[e].user
        <5>1. /\ grants'[u] = grants[u] \cup edit[e].modules
              /\ edit[e].modules \in given'[u]
          BY <2>3, <4>1 DEF AccessInv, AccessTables
        <5> QED BY <5>1 DEF Explained
      <4>2. CASE u # edit[e].user
        <5>1. grants'[u] = grants[u] /\ given'[u] = given[u]
          BY <2>3, <4>2 DEF AccessInv, AccessTables
        <5> QED BY <5>1 DEF Explained, AccessInv, RowsExplained
      <4> QED BY <4>1, <4>2
    <3>5. DeniedOnlyIfWithheld'
      BY <2>1, <3>3 DEF AccessInv, DeniedOnlyIfWithheld
    <3> QED BY <3>2, <3>4, <3>5 DEF AccessInv
  <2> QED BY <1>8, <2>2, <2>3 DEF InsertGrants
<1>9. ASSUME NEW u \in Users, NEW m \in MODULE_KEYS, Access(u, m)
      PROVE  AccessInv'
  <2>1. UNCHANGED <<email, edit, grants, given>>
    BY <1>9 DEF Access
  <2>2. CASE Allowed(u, m)
    BY <1>9, <2>1, <2>2, AccessKept DEF Access, AccessInv, AccessTables
  <2>3. CASE ~Allowed(u, m)
    <3>1. denied' = [denied EXCEPT ![u] = @ \cup {m}]
      BY <1>9, <2>3 DEF Access
    <3>2. AccessTables'
      BY <2>1, <3>1 DEF AccessInv, AccessTables
    <3>3. \E M \in given[u] : m \notin M
      BY <2>3 DEF Allowed, AccessInv, RowsExplained, Explained
    <3>4. DeniedOnlyIfWithheld'
      BY <2>1, <3>1, <3>3 DEF AccessInv, AccessTables, DeniedOnlyIfWithheld
    <3> QED BY <2>1, <3>2, <3>4 DEF AccessInv, RowsExplained, Explained
  <2> QED BY <2>2, <2>3
<1>10. CASE UNCHANGED accessVars
  BY <1>10, AccessKept DEF accessVars, AccessInv, AccessTables
<1> QED
  BY <1>1, <1>2, <1>3, <1>4, <1>5, <1>6, <1>7, <1>8, <1>9, <1>10 DEF AccessNext

\* For any number of users, edits and modules, in any order and with any
\* failures: a module is refused only if a set stored for the user by
\* replace_module_access_for_user was without it.
THEOREM RefusalsExplained == AccessSpec => []DeniedOnlyIfWithheld
<1>1. AccessInv => DeniedOnlyIfWithheld
  BY DEF AccessInv
<1> QED
  BY AccessInvInit, AccessStep, <1>1, PTL DEF AccessSpec

-----------------------------------------------------------------------------
(* An undisturbed edit is in force.  The property speaks of finished       *)
(* edits; the invariant follows one through its calls: the others rest,    *)
(* and each call finds what the calls before it have stored.               *)

Progress ==
    /\ role \in [Users -> Roles \cup {NoRole, "user"}]
    /\ place \in [Edits -> {"idle", "lookup", "create", "role", "delete", "insert", "done"}]
    /\ answer \in [Edits -> {"none", "ok", "error", "bad_request", "gone"}]
    /\ alone \in [Edits -> BOOLEAN]
    /\ \A e \in Edits :
        /\ place[e] \in {"role", "delete", "insert"} =>
                /\ edit[e].user \in Users
                /\ edit[e].kind \in {"set", "invite"}
        /\ place[e] \in {"lookup", "create"} => edit[e].kind = "invite"
        /\ answer[e] # "none" => place[e] = "done"

\* No other edit is under way.
Undisturbed(e) == \A f \in Edits \ {e} : ~Active(f)

\* What the calls made so far have stored for an edit.
StoredSoFar(e) ==
    LET u == edit[e].user
    IN  /\ place[e] = "insert" => grants[u] = {}
        /\ place[e] = "role" /\ edit[e].kind = "set" => grants[u] = edit[e].modules
        /\ place[e] \in {"delete", "insert"} /\ edit[e].kind = "invite" /\ email[u] # NoEmail =>
                role[u] = edit[e].role
        /\ edit[e].kind = "invite" /\ (place[e] \in {"role", "delete", "insert"} \/ answer[e] = "ok") =>
                email[u] = edit[e].email
        /\ answer[e] = "ok" =>
                /\ grants[u] = edit[e].modules
                /\ edit[e].role # NoRole /\ email[u] # NoEmail => role[u] = edit[e].role

LoneProgress == \A e \in Edits : alone[e] => Undisturbed(e) /\ StoredSoFar(e)

LoneInv == AccessTables /\ Progress /\ LoneProgress

LEMMA LoneInit == AccessInit => LoneInv
<1> SUFFICES ASSUME AccessInit PROVE LoneInv
  OBVIOUS
<1>1. AccessTables
  BY AccessInvInit DEF AccessInv
<1> QED
  BY <1>1 DEF AccessInit, LoneInv, Progress, LoneProgress

\* An edit that begins is alone only if the others rest, and ends the
\* solitude of every other.
LEMMA BeginStep ==
  ASSUME LoneInv, NEW e \in Edits, place[e] = "idle", Begin(e), Progress', AccessTables',
         place'[e] \in {"delete", "lookup", "done"}, answer'[e] # "ok",
         \A f \in Edits \ {e} : place'[f] = place[f],
         place'[e] = "delete" => edit'[e].kind = "set"
  PROVE  LoneInv'
<1> SUFFICES ASSUME NEW f \in Edits, alone'[f] PROVE Undisturbed(f)' /\ StoredSoFar(f)'
  BY DEF LoneInv, LoneProgress
<1>1. f = e /\ \A g \in Edits \ {e} : ~Active(g)
  BY DEF Begin
<1>2. Undisturbed(f)'
  BY <1>1 DEF Undisturbed, Active
<1>3. StoredSoFar(f)'
  BY <1>1 DEF StoredSoFar
<1> QED BY <1>2, <1>3

\* A call is a step of an edit that is under way.  An edit that is alone is
\* then the one that calls.
LEMMA CallStep ==
  ASSUME LoneInv, NEW e \in Edits, Active(e), UNCHANGED alone, Progress', AccessTables',
         \A f \in Edits \ {e} : place'[f] = place[f],
         alone[e] => StoredSoFar(e)'
  PROVE  LoneInv'
<1> SUFFICES ASSUME NEW f \in Edits, alone'[f] PROVE Undisturbed(f)' /\ StoredSoFar(f)'
  BY DEF LoneInv, LoneProgress
<1>1. alone[f] /\ Undisturbed(f)
  BY DEF LoneInv, LoneProgress
<1>2. f = e
  BY <1>1 DEF Undisturbed
<1>3. Undisturbed(f)'
  BY <1>1, <1>2 DEF Undisturbed, Active
<1> QED BY <1>1, <1>2, <1>3

LEMMA ProgressStep ==
  ASSUME Progress, NEW e \in Edits,
         role' \in [Users -> Roles \cup {NoRole, "user"}], alone' \in [Edits -> BOOLEAN],
         Goto(e, place'[e]) \/ AnswerEdit(e, answer'[e]), 
         place'[e] \in {"lookup", "create", "role", "delete", "insert", "done"},
         answer'[e] \in {"none", "ok", "error", "bad_request", "gone"},
         \A f \in Edits \ {e} : edit'[f] = edit[f],
         place'[e] \in {"role", "delete", "insert"} =>
            edit'[e].user \in Users /\ edit'[e].kind \in {"set", "invite"},
         place'[e] \in {"lookup", "create"} => edit'[e].kind = "invite",
         answer'[e] # "none" => place'[e] = "done"
  PROVE  Progress'
<1>1. /\ place' \in [Edits -> {"idle", "lookup", "create", "role", "delete", "insert", "done"}]
      /\ answer' \in [Edits -> {"none", "ok", "error", "bad_request", "gone"}]
      /\ \A f \in Edits \ {e} : place'[f] = place[f] /\ answer'[f] = answer[f]
  BY DEF Goto, AnswerEdit, Progress
<1>2. ASSUME NEW f \in Edits
      PROVE  /\ place'[f] \in {"role", "delete", "insert"} =>
                edit'[f].user \in Users /\ edit'[f].kind \in {"set", "invite"}
             /\ place'[f] \in {"lookup", "create"} => edit'[f].kind = "invite"
             /\ answer'[f] # "none" => place'[f] = "done"
  <2>1. CASE f = e
    BY <2>1
  <2>2. CASE f # e
    BY <1>1, <2>2 DEF Progress
  <2> QED BY <2>1, <2>2
<1> QED BY <1>1, <1>2 DEF Progress

LEMMA LoneStep == AccessInv /\ LoneInv /\ [AccessNext]_accessVars => LoneInv'
<1> SUFFICES ASSUME AccessInv, LoneInv, [AccessNext]_accessVars PROVE LoneInv'
  OBVIOUS
<1>t. AccessTables /\ Progress /\ AccessTables'
  BY AccessStep DEF LoneInv, AccessInv
<1> USE DEF store
<1>1. ASSUME NEW e \in Edits, NEW M \in Requested, NEW r \in Roles \cup {NoRole},
             NEW u \in Users, SubmitSet(e, u, M, r)
      PROVE  LoneInv'
  <2>1. /\ place[e] = "idle" /\ edit'[e].kind = "set" /\ edit'[e].user = u
        /\ \A f \in Edits \ {e} : /\ edit'[f] = edit[f] /\ place'[f] = place[f]
                                  /\ answer'[f] = answer[f]
        /\ \/ place'[e] = "delete" /\ answer'[e] = answer[e]
           \/ place'[e] = "done" /\ answer'[e] = "bad_request"
    BY <1>1, <1>t DEF SubmitSet, Goto, AnswerEdit, AccessTables, Progress
  <2>2. alone' \in [Edits -> BOOLEAN]
    BY <1>1 DEF SubmitSet, Begin
  <2>3. Progress'
    <3>1. Goto(e, place'[e]) \/ AnswerEdit(e, answer'[e])
      BY <1>1, <1>t, <2>1 DEF SubmitSet, Goto, AnswerEdit, Progress
    <3>2. answer[e] = "none"
      BY <1>t, <2>1 DEF Progress
    <3> QED BY <1>1, <1>t, <2>1, <2>2, <3>1, <3>2, ProgressStep DEF SubmitSet, Progress
  <2>4. answer'[e] # "ok"
    BY <1>t, <2>1 DEF Progress
  <2> QED BY <1>1, <1>t, <2>1, <2>3, <2>4, BeginStep DEF SubmitSet
<1>2. ASSUME NEW e \in Edits, NEW M \in Requested, NEW r \in Roles \cup {NoRole},
             NEW m \in Emails, SubmitInvite(e, m, M, r)
      PROVE  LoneInv'
  <2>1. /\ place[e] = "idle" /\ edit'[e].kind = "invite"
        /\ \A f \in Edits \ {e} : /\ edit'[f] = edit[f] /\ place'[f] = place[f]
                                  /\ answer'[f] = answer[f]
        /\ \/ place'[e] = "lookup" /\ answer'[e] = answer[e]
           \/ place'[e] = "done" /\ answer'[e] = "bad_request"
    BY <1>2, <1>t DEF SubmitInvite, Goto, AnswerEdit, AccessTables, Progress
  <2>2. alone' \in [Edits -> BOOLEAN]
    BY <1>2 DEF SubmitInvite, Begin
  <2>3. Progress'
    <3>1. Goto(e, place'[e]) \/ AnswerEdit(e, answer'[e])
      BY <1>2, <1>t, <2>1 DEF SubmitInvite, Goto, AnswerEdit, Progress
    <3>2. answer[e] = "none"
      BY <1>t, <2>1 DEF Progress
    <3> QED BY <1>2, <1>t, <2>1, <2>2, <3>1, <3>2, ProgressStep DEF SubmitInvite, Progress
  <2>4. answer'[e] # "ok"
    BY <1>t, <2>1 DEF Progress
  <2> QED BY <1>2, <1>t, <2>1, <2>3, <2>4, BeginStep DEF SubmitInvite
<1>3. ASSUME NEW e \in Edits, NEW got \in Replies, LookupUser(e, got)
      PROVE  LoneInv'
  <2>1. /\ Active(e) /\ edit[e].kind = "invite" /\ edit'[e].kind = "invite"
        /\ \A f \in Edits \ {e} : /\ edit'[f] = edit[f] /\ place'[f] = place[f]
                                  /\ answer'[f] = answer[f]
        /\ \/ /\ place'[e] = "role" /\ edit'[e].user \in Users /\ answer'[e] = answer[e]
              /\ email'[edit'[e].user] = edit'[e].email
           \/ place'[e] = "create" /\ answer'[e] = answer[e]
           \/ place'[e] = "done" /\ answer'[e] = "error"
    BY <1>3, <1>t DEF LookupUser, Goto, AnswerEdit, AccessTables, Progress, Active
  <2>2. Progress'
    BY <1>3, <1>t, <2>1, SMTT(30) DEF LookupUser, Goto, AnswerEdit, AccessTables, Progress
  <2>3. StoredSoFar(e)'
    BY <1>3, <1>t, <2>1 DEF LookupUser, StoredSoFar, Progress, Active
  <2> QED BY <1>3, <1>t, <2>1, <2>2, <2>3, CallStep DEF LookupUser
<1>4. ASSUME NEW e \in Edits, NEW got \in Replies, NEW u \in Users,
             CreateUser(e, u, got)
      PROVE  LoneInv'
  <2>1. /\ Active(e) /\ edit[e].kind = "invite" /\ edit'[e].kind = "invite"
        /\ edit'[e].user = u /\ edit'[e].role = edit[e].role /\ edit'[e].email = edit[e].email
        /\ \A f \in Edits \ {e} : /\ edit'[f] = edit[f] /\ place'[f] = place[f]
                                  /\ answer'[f] = answer[f]
        /\ \/ /\ place'[e] = "delete" /\ role'[u] = edit[e].role /\ answer'[e] = answer[e]
              /\ email'[u] = edit[e].email
           \/ place'[e] = "done" /\ answer'[e] = "error"
    BY <1>4, <1>t DEF CreateUser, Goto, AnswerEdit, AccessTables, Progress, Active, Effective
  <2>2. role' \in [Users -> Roles \cup {NoRole, "user"}]
    <3>1. edit[e].role \in Roles \cup {NoRole, "user"}
      BY <1>t DEF AccessTables
    <3> QED BY <1>4, <1>t, <3>1 DEF CreateUser, Progress
  <2>3. Progress'
    <3>1. Goto(e, place'[e]) \/ AnswerEdit(e, answer'[e])
      BY <1>4, <1>t, <2>1 DEF CreateUser, Goto, AnswerEdit, Progress
    <3>2. answer[e] = "none" /\ UNCHANGED alone
      BY <1>4, <1>t, <2>1 DEF CreateUser, Progress, Active
    <3> QED BY <1>t, <2>1, <2>2, <3>1, <3>2, ProgressStep DEF Progress
  <2>4. StoredSoFar(e)'
    BY <1>4, <1>t, <2>1 DEF CreateUser, StoredSoFar, Progress, Active
  <2> QED BY <1>4, <1>t, <2>1, <2>3, <2>4, CallStep DEF CreateUser
<1>5. ASSUME NEW e \in Edits, NEW got \in Replies, SetRole(e, got)
      PROVE  LoneInv'
  <2>1. /\ Active(e) /\ UNCHANGED <<edit, email, grants>> /\ edit[e].user \in Users
        /\ place[e] = "role" /\ edit[e].kind \in {"set", "invite"}
        /\ \A f \in Edits \ {e} : place'[f] = place[f] /\ answer'[f] = answer[f]
        /\ \/ /\ place'[e] = "delete" /\ answer'[e] = answer[e] /\ edit[e].kind = "invite"
              /\ email[edit[e].user] # NoEmail => role'[edit[e].user] = edit[e].role
           \/ /\ place'[e] = "done" /\ answer'[e] = "ok" /\ edit[e].kind = "set"
              /\ email[edit[e].user] # NoEmail => role'[edit[e].user] = edit[e].role
           \/ place'[e] = "done" /\ answer'[e] = "error"
    BY <1>5, <1>t DEF SetRole, Goto, AnswerEdit, AccessTables, Progress, Active, Effective
  <2>2. role' \in [Users -> Roles \cup {NoRole, "user"}]
    BY <1>5, <1>t DEF SetRole, AccessTables, Progress
  <2>3. Progress'
    <3>1. Goto(e, place'[e]) \/ AnswerEdit(e, answer'[e])
      BY <1>5, <1>t, <2>1 DEF SetRole, Goto, AnswerEdit, Progress
    <3>2. answer[e] = "none"
      BY <1>t, <2>1 DEF Progress
    <3>3. UNCHANGED alone
      BY <1>5 DEF SetRole
    <3> QED BY <1>t, <2>1, <2>2, <3>1, <3>2, <3>3, ProgressStep DEF Progress
  <2>4. alone[e] => StoredSoFar(e)
    BY DEF LoneInv, LoneProgress
  <2>5. alone[e] => StoredSoFar(e)'
    BY <1>t, <2>1, <2>4 DEF StoredSoFar, Progress, Active
  <2> QED BY <1>5, <1>t, <2>1, <2>3, <2>5, CallStep DEF SetRole
<1>6. ASSUME NEW e \in Edits, AbandonEdit(e)
      PROVE  LoneInv'
  <2>1. /\ Active(e) /\ place'[e] = "done" /\ answer'[e] = "gone"
        /\ \A f \in Edits \ {e} : place'[f] = place[f] /\ answer'[f] = answer[f]
    BY <1>6, <1>t DEF AbandonEdit, AnswerEdit, Progress
  <2>2. Progress'
    BY <1>6, <1>t, <2>1 DEF AbandonEdit, AnswerEdit, AccessTables, Progress
  <2>3. StoredSoFar(e)'
    BY <2>1 DEF StoredSoFar
  <2> QED BY <1>6, <1>t, <2>1, <2>2, <2>3, CallStep DEF AbandonEdit
<1>7. ASSUME NEW e \in Edits, NEW got \in Replies, DeleteGrants(e, got)
      PROVE  LoneInv'
  <2>1. /\ Active(e) /\ UNCHANGED <<edit, email, role, alone>> /\ edit[e].user \in Users
        /\ place[e] = "delete" /\ edit[e].kind \in {"set", "invite"}
        /\ \A f \in Edits \ {e} : place'[f] = place[f] /\ answer'[f] = answer[f]
        /\ \/ place'[e] = "done" /\ answer'[e] = "error"
           \/ /\ grants'[edit[e].user] = {}
              /\ \/ place'[e] = "insert" /\ answer'[e] = answer[e]
                 \/ /\ edit[e].modules = {} /\ edit[e].kind = "set"
                    /\ place'[e] = "role" /\ answer'[e] = answer[e]
                 \/ /\ edit[e].kind = "invite" \/ edit[e].role = NoRole
                    /\ edit[e].modules = {} /\ place'[e] = "done" /\ answer'[e] = "ok"
    BY <1>7, <1>t DEF DeleteGrants, AfterReplace, Cleared, Goto, AnswerEdit, AccessTables, Progress,
        Active, Effective
  <2>2. Progress'
    <3>1. Goto(e, place'[e]) \/ AnswerEdit(e, answer'[e])
      BY <1>7, <1>t, <2>1 DEF DeleteGrants, AfterReplace, Goto, AnswerEdit, Progress
    <3>2. answer[e] = "none"
      BY <1>t, <2>1 DEF Progress
    <3> QED BY <1>t, <2>1, <3>1, <3>2, ProgressStep DEF Progress
  <2>3. alone[e] => StoredSoFar(e)
    BY DEF LoneInv, LoneProgress
  <2>4. alone[e] => StoredSoFar(e)'
    BY <1>t, <2>1, <2>3 DEF StoredSoFar, Progress, Active
  <2> QED BY <1>t, <2>1, <2>2, <2>4, CallStep
<1>8. ASSUME NEW e \in Edits, NEW got \in Replies, InsertGrants(e, got)
      PROVE  LoneInv'
  <2>1. /\ Active(e) /\ UNCHANGED <<edit, email, role, alone>> /\ edit[e].user \in Users
        /\ place[e] = "insert" /\ edit[e].kind \in {"set", "invite"}
        /\ \A f \in Edits \ {e} : place'[f] = place[f] /\ answer'[f] = answer[f]
        /\ \/ place'[e] = "done" /\ answer'[e] = "error"
           \/ /\ grants'[edit[e].user] = grants[edit[e].user] \cup edit[e].modules
              /\ \/ /\ edit[e].kind = "set" /\ place'[e] = "role" /\ answer'[e] = answer[e]
                 \/ /\ edit[e].kind = "invite" \/ edit[e].role = NoRole
                    /\ place'[e] = "done" /\ answer'[e] = "ok"
    BY <1>8, <1>t DEF InsertGrants, AfterReplace, Goto, AnswerEdit, AccessTables, Progress,
        Active, Effective
  <2>2. Progress'
    <3>1. Goto(e, place'[e]) \/ AnswerEdit(e, answer'[e])
      BY <1>8, <1>t, <2>1 DEF InsertGrants, AfterReplace, Goto, AnswerEdit, Progress
    <3>2. answer[e] = "none"
      BY <1>t, <2>1 DEF Progress
    <3> QED BY <1>t, <2>1, <3>1, <3>2, ProgressStep DEF Progress
  <2>3. alone[e] => StoredSoFar(e)
    BY DEF LoneInv, LoneProgress
  <2>4. alone[e] => StoredSoFar(e)'
    BY <1>t, <2>1, <2>3 DEF StoredSoFar, Progress, Active
  <2> QED BY <1>t, <2>1, <2>2, <2>4, CallStep
<1>9. CASE UNCHANGED <<store, place, edit, answer, alone>>
  BY <1>9, <1>t DEF LoneInv, Progress, LoneProgress, Undisturbed, Active, StoredSoFar
<1> QED
  BY <1>1, <1>2, <1>3, <1>4, <1>5, <1>6, <1>7, <1>8, <1>9 DEF AccessNext, Access, accessVars

\* For any number of users and edits: an edit that was answered "ok" and that
\* no other overlapped or followed left exactly its modules, and its role if
\* the user has a row.
THEOREM LoneEditsInForce == AccessSpec => []LoneEditInForce
<1>1. LoneInv => LoneEditInForce
  BY DEF LoneInv, LoneProgress, StoredSoFar, LoneEditInForce
<1> QED
  BY AccessInvInit, AccessStep, LoneInit, LoneStep, <1>1, PTL DEF AccessSpec
-----------------------------------------------------------------------------
(* The types of the tables.  That only known modules are stored needs that *)
(* an edit past its validation asks for known ones.                        *)

Known(M) == M \in Requested /\ M \subseteq MODULE_KEYS

KnownSoFar == \A e \in Edits : Active(e) => Known(edit[e].modules)

RowTypes ==
    /\ email \in [Users -> Emails \cup {NoEmail}]
    /\ grants \in [Users -> SUBSET MODULE_KEYS]
    /\ given \in [Users -> SUBSET Requested]

KnownInv == RowTypes /\ KnownSoFar

\* A step of one edit, which goes on only with known modules.
LEMMA KnownStep ==
  ASSUME KnownInv, Progress, NEW e \in Edits,
         \A f \in Edits \ {e} : edit'[f] = edit[f],
         Goto(e, place'[e]) \/ AnswerEdit(e, answer'[e]),
         Active(e)' => Known(edit'[e].modules)
  PROVE  KnownSoFar'
<1>1. \A f \in Edits \ {e} : place'[f] = place[f]
  BY DEF Goto, AnswerEdit, Progress
<1> QED BY <1>1 DEF KnownInv, KnownSoFar, Active, Known

LEMMA KnownKept ==
  AccessTables /\ Progress /\ KnownInv /\ [AccessNext]_accessVars => KnownInv'
<1> SUFFICES ASSUME AccessTables, Progress, KnownInv, [AccessNext]_accessVars PROVE KnownInv'
  OBVIOUS
<1> USE DEF store
<1>1. ASSUME NEW e \in Edits, NEW M \in Requested, NEW r \in Roles \cup {NoRole},
             \/ \E u \in Users : SubmitSet(e, u, M, r)
             \/ \E m \in Emails : SubmitInvite(e, m, M, r)
      PROVE  KnownInv'
  <2>1. /\ UNCHANGED <<email, grants, given>>
        /\ edit'[e].modules = M /\ \A f \in Edits \ {e} : edit'[f] = edit[f]
    BY <1>1 DEF SubmitSet, SubmitInvite, AccessTables
  <2>2. \/ place'[e] = "done" /\ AnswerEdit(e, answer'[e])
        \/ Goto(e, place'[e]) /\ M \subseteq MODULE_KEYS
    BY <1>1 DEF SubmitSet, SubmitInvite, Valid, Goto, AnswerEdit, Progress
  <2>3. KnownSoFar'
    BY <2>1, <2>2, KnownStep DEF Active, Known
  <2> QED BY <2>1, <2>3 DEF KnownInv, RowTypes
<1>2. ASSUME NEW e \in Edits, Active(e), edit'[e].modules = edit[e].modules,
             \A f \in Edits \ {e} : edit'[f] = edit[f],
             Goto(e, place'[e]) \/ AnswerEdit(e, answer'[e]), RowTypes'
      PROVE  KnownInv'
  <2>1. Known(edit'[e].modules)
    BY <1>2 DEF KnownInv, KnownSoFar
  <2> QED BY <1>2, <2>1, KnownStep DEF KnownInv
<1>3. ASSUME NEW e \in Edits, NEW got \in Replies, LookupUser(e, got)
      PROVE  KnownInv'
  <2>1. /\ Active(e) /\ edit'[e].modules = edit[e].modules
        /\ \A f \in Edits \ {e} : edit'[f] = edit[f]
    BY <1>3 DEF LookupUser, Active, AccessTables
  <2>2. Goto(e, place'[e]) \/ AnswerEdit(e, answer'[e])
    BY <1>3 DEF LookupUser, Goto, AnswerEdit, Progress
  <2>3. RowTypes'
    BY <1>3 DEF LookupUser, KnownInv, RowTypes
  <2> QED BY <1>2, <2>1, <2>2, <2>3
<1>4. ASSUME NEW e \in Edits, NEW got \in Replies, NEW u \in Users, CreateUser(e, u, got)
      PROVE  KnownInv'
  <2>1. /\ Active(e) /\ edit'[e].modules = edit[e].modules
        /\ \A f \in Edits \ {e} : edit'[f] = edit[f]
    BY <1>4 DEF CreateUser, Active, AccessTables
  <2>2. Goto(e, place'[e]) \/ AnswerEdit(e, answer'[e])
    BY <1>4 DEF CreateUser, Goto, AnswerEdit, Progress
  <2>3. edit[e].email \in Emails \cup {NoEmail}
    BY DEF AccessTables
  <2>4. RowTypes'
    BY <1>4, <2>3 DEF CreateUser, KnownInv, RowTypes
  <2> QED BY <1>2, <2>1, <2>2, <2>4
<1>5. ASSUME NEW e \in Edits, NEW got \in Replies, SetRole(e, got)
      PROVE  KnownInv'
  <2>1. Active(e) /\ UNCHANGED <<edit, email, grants, given>>
    BY <1>5 DEF SetRole, Active
  <2>2. Goto(e, place'[e]) \/ AnswerEdit(e, answer'[e])
    BY <1>5 DEF SetRole, Goto, AnswerEdit, Progress
  <2> QED BY <1>2, <2>1, <2>2 DEF KnownInv, RowTypes
<1>6. ASSUME NEW e \in Edits, AbandonEdit(e)
      PROVE  KnownInv'
  <2>1. Active(e) /\ UNCHANGED <<edit, email, grants, given>>
    BY <1>6 DEF AbandonEdit
  <2>2. Goto(e, place'[e]) \/ AnswerEdit(e, answer'[e])
    BY <1>6 DEF AbandonEdit, Goto, AnswerEdit, Progress
  <2> QED BY <1>2, <2>1, <2>2 DEF KnownInv, RowTypes
<1>7. ASSUME NEW e \in Edits, NEW got \in Replies, DeleteGrants(e, got)
      PROVE  KnownInv'
  <2>1. Active(e) /\ UNCHANGED <<edit, email, given>>
    BY <1>7 DEF DeleteGrants, Active
  <2>2. Goto(e, place'[e]) \/ AnswerEdit(e, answer'[e])
    BY <1>7 DEF DeleteGrants, AfterReplace, Goto, AnswerEdit, Progress
  <2>3. RowTypes'
    BY <1>7, <2>1 DEF DeleteGrants, Cleared, KnownInv, RowTypes
  <2> QED BY <1>2, <2>1, <2>2, <2>3
<1>8. ASSUME NEW e \in Edits, NEW got \in Replies, InsertGrants(e, got)
      PROVE  KnownInv'
  <2>1. Active(e) /\ UNCHANGED <<edit, email>>
    BY <1>8 DEF InsertGrants, Active
  <2>2. Goto(e, place'[e]) \/ AnswerEdit(e, answer'[e])
    BY <1>8 DEF InsertGrants, AfterReplace, Goto, AnswerEdit, Progress
  <2>3. Known(edit[e].modules)
    BY <2>1 DEF KnownInv, KnownSoFar
  <2>4. RowTypes'
    BY <1>8, <2>1, <2>3 DEF InsertGrants, Known, KnownInv, RowTypes
  <2> QED BY <1>2, <2>1, <2>2, <2>4
<1>9. CASE UNCHANGED <<store, place, edit, given>>
  BY <1>9 DEF KnownInv, RowTypes, KnownSoFar, Active, Known
<1> QED
  BY <1>1, <1>3, <1>4, <1>5, <1>6, <1>7, <1>8, <1>9 DEF AccessNext, Access, accessVars

\* For any number of users, edits and modules: the tables hold only known
\* modules, and no call on a user's rows is made without its user.
THEOREM AccessTyped == AccessSpec => []AccessTypes
<1>1. AccessInit => KnownInv
  BY AccessAssumption DEF AccessInit, KnownInv, RowTypes, KnownSoFar, Active
<1>2. AccessInv /\ LoneInv /\ [AccessNext]_accessVars /\ KnownInv => KnownInv'
  BY KnownKept DEF LoneInv
<1>3. LoneInv /\ KnownInv => AccessTypes
  BY DEF LoneInv, AccessTables, Progress, KnownInv, RowTypes, AccessTypes
<1> QED
  BY AccessInvInit, AccessStep, LoneInit, LoneStep, <1>1, <1>2, <1>3, PTL DEF AccessSpec
=============================================================================
