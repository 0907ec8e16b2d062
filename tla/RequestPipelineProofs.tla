----------------------- MODULE RequestPipelineProofs -----------------------
(***************************************************************************)
(* The layers around the handlers, for any requests, tokens, key sets and  *)
(* policies.  Every property is about what several layers decided in       *)
(* different steps; the invariants say, for the await a request stands at, *)
(* what the layers before it have established (Phase), and where each      *)
(* request log is (Logs).                                                  *)
(***************************************************************************)
EXTENDS RequestPipeline, FiniteSetTheorems, SequenceTheorems, TLAPS

RoleSets == {None} \cup CookieRoles \cup {Tokens[t].roles : t \in DOMAIN Tokens}
Jtis == {Tokens[t].jti : t \in DOMAIN Tokens}

Phases == {"idle", "key", "fetch", "store", "reread", "denylist", "session",
           "module", "body", "handler", "done"}
JwtPhases == {"key", "fetch", "store", "reread", "denylist"}
AuthPhases == JwtPhases \cup {"session"}
Middle == AuthPhases \cup {"module", "body", "handler"}
Unlogged == {"gone", "preflight", "rate_limited", "payload_too_large",
             "unsupported_media_type", "csrf_rejected"}
LoggedAnswers == {"unauthorized", "unavailable", "unknown_kid", "forbidden",
                  "module_denied", "internal", "handled"}

Events == {"auth.login_success", "auth.login_failure", "auth.csrf_reject", "authz.denied",
           "policy.rate_limit_hit", "tool.invoke_rejected"}

\* The types of what TypeOK leaves out.
Shape ==
    /\ answer \in [Requests -> {"none"} \cup Unlogged \cup LoggedAnswers]
    /\ roles \in [Requests -> RoleSets]
    /\ audit \in [Requests -> Seq(Events)]
    /\ fetched \in [Requests -> SUBSET issued]
    /\ denylist \subseteq Jtis \ {NoJti}
    /\ started \in [Requests -> SUBSET denylist]
    /\ known \in [Requests -> BOOLEAN]
    /\ disturbed \in [Requests -> BOOLEAN]
    /\ granted \in [Requests -> BOOLEAN]
    /\ \A r \in Requests : answer[r] = "none" <=> pc[r] # "done"

Types == TypeOK /\ Shape

Login(R) == IF R = None THEN <<>> ELSE <<"auth.login_success">>

-----------------------------------------------------------------------------
(* What is established about a request. *)

Authenticated(r) ==
    config.auth /\ ~Exempt(request[r]) =>
        /\ roles[r] # None
        /\ config.jwt /\ Credential(request[r]) = "bearer" =>
            /\ Token(r).sound /\ Token(r).kid \in issued
            /\ Revoking => Token(r).jti \notin started[r]
            /\ roles[r] = Token(r).roles

Authorized(r) ==
    config.policy /\ ~Exempt(request[r]) => roles[r] # None /\ RouteAllowed(roles[r], request[r])

\* The layers before the request log let the request pass.
EdgeOk(k) == CsrfOk(k) /\ k.size <= MaxBody /\ ContentTypeOk(k)

ModuleSettled(r) ==
    config.auth /\ ModuleOf(request[r].path) # "none" /\ roles[r] # None => granted[r]

EntitledSoFar(r) ==
    LET k == request[r]
    IN  /\ pc[r] \in AuthPhases \cup {"idle"} => roles[r] = None
        /\ pc[r] \in AuthPhases => config.auth /\ ~Exempt(k)
        /\ pc[r] \in JwtPhases => config.jwt /\ k.authz = "Bearer" /\ k \in Kinds
        /\ pc[r] = "denylist" => Token(r).sound /\ Token(r).kid \in issued
        /\ pc[r] = "session" => ~(config.jwt /\ Credential(k) = "bearer")
        /\ pc[r] \in Middle \/ Served(r) => EdgeOk(k)
        /\ pc[r] \in {"module", "body"} \/ Served(r) => Authenticated(r)
        /\ pc[r] = "body" \/ Served(r) => Authorized(r) /\ ModuleSettled(r)
        /\ Served(r) => (config.policy /\ ~Exempt(k) => MayCall(r))

\* Nothing but the login is in the trail before the answer.
TrailSoFar(r) ==
    /\ pc[r] # "done" => audit[r] = Login(roles[r])
    /\ answer[r] = "gone" => audit[r] = Login(roles[r])
    /\ pc[r] = "done" /\ answer[r] # "gone" => audit[r] = Explanation(r)

\* Where the key of a request's token is, as long as it is published.
KidSoFar(r) ==
    /\ pc[r] \in JwtPhases /\ known[r] => Token(r).kid \in published
    /\ pc[r] = "store" /\ known[r] => Token(r).kid \in fetched[r]
    /\ pc[r] = "reread" /\ known[r] /\ ~disturbed[r] => Token(r).kid \in keys
    /\ answer[r] = "unknown_kid" /\ known[r] => disturbed[r]

Phase == \A r \in Requests : EntitledSoFar(r) /\ TrailSoFar(r) /\ KidSoFar(r)

-----------------------------------------------------------------------------
(* The steps of a request.  Advances(r) is what all of them have in common *)
(* and what they establish of r; the frame is stated once, for the others. *)

\* A request goes on to an await, is answered and logged, or ends without a log.
Moves(r) ==
    \/ \E p \in Middle : Continue(r, p)
    \/ \E a \in LoggedAnswers : Answer(r, a)
    \/ \E a \in Unlogged : End(r, a) /\ UNCHANGED logs

OthersKept(r) ==
    \A q \in Requests \ {r} :
        /\ pc'[q] = pc[q] /\ answer'[q] = answer[q] /\ request'[q] = request[q]
        /\ roles'[q] = roles[q] /\ audit'[q] = audit[q] /\ fetched'[q] = fetched[q]
        /\ started'[q] = started[q] /\ known'[q] = known[q] /\ granted'[q] = granted[q]
        /\ \/ UNCHANGED keys /\ disturbed'[q] = disturbed[q]
           \/ disturbed[q] \/ pc[q] = "reread" => disturbed'[q]

LocalTypes ==
    /\ keys \subseteq issued
    /\ request \in [Requests -> Kinds \cup {NoRequest}]
    /\ roles \in [Requests -> RoleSets]
    /\ audit \in [Requests -> Seq(Events)]
    /\ fetched \in [Requests -> SUBSET issued]
    /\ started \in [Requests -> SUBSET denylist]
    /\ known \in [Requests -> BOOLEAN]
    /\ disturbed \in [Requests -> BOOLEAN]
    /\ granted \in [Requests -> BOOLEAN]

SoFar(r) == EntitledSoFar(r) /\ TrailSoFar(r) /\ KidSoFar(r)

Advances(r) ==
    /\ pc[r] # "done" /\ Moves(r)
    /\ UNCHANGED <<config, published, denylist, issued>>
    /\ OthersKept(r) /\ LocalTypes' /\ SoFar(r)'

LEMMA MovesEffect ==
  ASSUME Types, NEW r \in Requests, Moves(r)
  PROVE  /\ \E p \in Middle \cup {"done"} : pc' = [pc EXCEPT ![r] = p]
         /\ answer' \in [Requests -> {"none"} \cup Unlogged \cup LoggedAnswers]
         /\ \A q \in Requests \ {r} : pc'[q] = pc[q] /\ answer'[q] = answer[q]
         /\ pc[r] # "done" => (answer'[r] = "none" <=> pc'[r] # "done")
<1>1. /\ DOMAIN pc = Requests /\ answer \in [Requests -> {"none"} \cup Unlogged \cup LoggedAnswers]
      /\ pc[r] # "done" => answer[r] = "none"
      /\ pc = [q \in Requests |-> pc[q]]
  BY DEF Types, TypeOK, Shape
<1>2. /\ "done" \notin Middle /\ "none" \notin Unlogged \cup LoggedAnswers
  BY DEF Middle, AuthPhases, JwtPhases, LoggedAnswers, Unlogged
<1>3. ASSUME NEW p \in Middle, Continue(r, p) PROVE pc' = [pc EXCEPT ![r] = p] /\ answer' = answer
  BY <1>3 DEF Continue, Goto
<1>4. ASSUME NEW a \in Unlogged \cup LoggedAnswers, End(r, a)
      PROVE  pc' = [pc EXCEPT ![r] = "done"] /\ answer' = [answer EXCEPT ![r] = a]
  BY <1>4 DEF End, Goto
<1>5. \/ \E p \in Middle : pc' = [pc EXCEPT ![r] = p] /\ answer' = answer
      \/ \E a \in Unlogged \cup LoggedAnswers :
            pc' = [pc EXCEPT ![r] = "done"] /\ answer' = [answer EXCEPT ![r] = a]
  BY <1>3, <1>4 DEF Moves, Answer
<1>6. CASE \E p \in Middle : pc' = [pc EXCEPT ![r] = p] /\ answer' = answer
  BY <1>1, <1>2, <1>6
<1>7. CASE \E a \in Unlogged \cup LoggedAnswers :
            pc' = [pc EXCEPT ![r] = "done"] /\ answer' = [answer EXCEPT ![r] = a]
  BY <1>1, <1>2, <1>7
<1> QED BY <1>5, <1>6, <1>7

LEMMA MovesLogs ==
  ASSUME Types, NEW r \in Requests, Moves(r)
  PROVE  /\ channel' \in Seq(Requests) /\ Len(channel') <= Capacity
         /\ UNCHANGED inhand
<1>1. CASE UNCHANGED logs
  BY <1>1 DEF logs, Types, TypeOK
<1>2. CASE EmitLog(r)
  <2>1. (channel' = Append(channel, r) /\ Len(channel) < Capacity) \/ channel' = channel
    BY <1>2 DEF EmitLog, TrySend
  <2>2. channel \in Seq(Requests) /\ Len(channel) \in Nat /\ Len(channel) <= Capacity
    BY DEF Types, TypeOK
  <2>3. channel' \in Seq(Requests) /\ Len(channel') <= Capacity
    BY <2>1, <2>2, PipelineAssumption, SMTT(30)
  <2> QED BY <1>2, <2>3 DEF EmitLog
<1> QED BY <1>1, <1>2 DEF Moves, Continue, Answer

LEMMA AdvancesTypes ==
  ASSUME Types, NEW r \in Requests, Advances(r)
  PROVE  Types'
<1>1. pc' \in [Requests -> Phases]
  BY MovesEffect DEF Advances, Types, TypeOK, Phases, Middle, AuthPhases, JwtPhases
<1>2. TypeOK'
  BY <1>1, MovesLogs DEF Advances, LocalTypes, Types, TypeOK, Phases
<1>3. \A q \in Requests : answer'[q] = "none" <=> pc'[q] # "done"
  BY MovesEffect DEF Advances, Types, Shape
<1>4. Shape'
  BY <1>3, MovesEffect DEF Advances, LocalTypes, Types, Shape
<1> QED BY <1>2, <1>4 DEF Types

\* What a step of r leaves of the others is what their phases are about.
LEMMA AdvancesPhase ==
  ASSUME Types, Phase, NEW r \in Requests, Advances(r)
  PROVE  Phase'
<1> SUFFICES ASSUME NEW q \in Requests PROVE SoFar(q)'
  BY DEF Phase, SoFar
<1>1. CASE q = r
  BY <1>1 DEF Advances
<1>2. CASE q # r
  <2>1. /\ pc'[q] = pc[q] /\ answer'[q] = answer[q] /\ request'[q] = request[q]
        /\ roles'[q] = roles[q] /\ audit'[q] = audit[q] /\ fetched'[q] = fetched[q]
        /\ started'[q] = started[q] /\ known'[q] = known[q] /\ granted'[q] = granted[q]
        /\ \/ UNCHANGED keys /\ disturbed'[q] = disturbed[q]
           \/ disturbed[q] \/ pc[q] = "reread" => disturbed'[q]
        /\ UNCHANGED <<config, published, denylist, issued>>
    BY <1>2 DEF Advances, OthersKept
  <2>2. EntitledSoFar(q) /\ TrailSoFar(q) /\ KidSoFar(q)
    BY DEF Phase
  <2>3. EntitledSoFar(q)'
    BY <2>1, <2>2 DEF EntitledSoFar, Served, Authenticated, Authorized, ModuleSettled, Revoking, MayCall, EdgeOk, CsrfOk, Token
  <2>4. TrailSoFar(q)'
    BY <2>1, <2>2 DEF TrailSoFar, Explanation
  <2>5. KidSoFar(q)'
    BY <2>1, <2>2 DEF KidSoFar, Token
  <2> QED BY <2>3, <2>4, <2>5 DEF SoFar
<1> QED BY <1>1, <1>2

-----------------------------------------------------------------------------
(* From the principal inwards. *)

\* What module access and RBAC do with a request before their next await.
Inward(r, k, R, settled) ==
    \/ /\ Answer(r, "forbidden")
       /\ audit' = [audit EXCEPT ![r] = Append(Login(R), "authz.denied")]
    \/ /\ audit' = [audit EXCEPT ![r] = Login(R)]
       /\ \/ Continue(r, "module")
          \/ /\ Continue(r, "body") /\ settled
             /\ config.policy /\ ~Exempt(k) => R # None /\ RouteAllowed(R, k)
          \/ /\ Continue(r, "handler") /\ settled
             /\ config.policy /\ ~Exempt(k) =>
                    /\ R # None /\ RouteAllowed(R, k)
                    /\ ~(k.path = "/v1/tools/call" /\ k.method = "POST")

LEMMA RbacInward ==
  ASSUME NEW r \in Requests, NEW k, NEW R, EnterRbac(r, k, R, Login(R))
  PROVE  Inward(r, k, R, TRUE)
<1>1. Login(R) \o <<"authz.denied">> = Append(Login(R), "authz.denied")
  BY DEF Login
<1>2. CASE RbacVerdict(R, k) = "denied"
  BY <1>1, <1>2 DEF EnterRbac, Inward
<1>3. CASE RbacVerdict(R, k) = "body"
  <2>1. R # None /\ RouteAllowed(R, k)
    BY <1>3 DEF RbacVerdict
  <2> QED BY <1>3, <2>1 DEF EnterRbac, Inward
<1>4. CASE RbacVerdict(R, k) = "pass"
  <2>1. config.policy /\ ~Exempt(k) =>
            /\ R # None /\ RouteAllowed(R, k)
            /\ ~(k.path = "/v1/tools/call" /\ k.method = "POST")
    BY <1>4 DEF RbacVerdict
  <2> QED BY <1>4, <2>1 DEF EnterRbac, Inward
<1> QED BY <1>2, <1>3, <1>4 DEF RbacVerdict

LEMMA ModuleInward ==
  ASSUME NEW r \in Requests, NEW k, NEW R, EnterModule(r, k, R, Login(R))
  PROVE  Inward(r, k, R, ~(config.auth /\ ModuleOf(k.path) # "none" /\ R # None))
<1> DEFINE settled == ~(config.auth /\ ModuleOf(k.path) # "none" /\ R # None)
<1>1. CASE settled
  <2>1. EnterRbac(r, k, R, Login(R))
    BY <1>1 DEF EnterModule
  <2>2. Inward(r, k, R, TRUE)
    BY <2>1, RbacInward
  <2>3. settled = TRUE
    BY <1>1
  <2> QED BY <2>2, <2>3
<1>2. CASE ~settled
  BY <1>2 DEF EnterModule, Inward
<1> QED BY <1>1, <1>2

\* A request whose principal is settled arrives at its next await, or its
\* refusal, with its phase established.
LEMMA InwardAdvances ==
  ASSUME Types, Phase, NEW r \in Requests, pc[r] # "done",
         NEW settled \in BOOLEAN, Inward(r, request'[r], roles'[r], settled), settled => ModuleSettled(r)',
         EdgeOk(request'[r]), Authenticated(r)',
         UNCHANGED <<config, keys, published, denylist, issued, fetched, disturbed>>,
         request' \in [Requests -> Kinds \cup {NoRequest}], roles' \in [Requests -> RoleSets],
         started' \in [Requests -> SUBSET denylist], known' \in [Requests -> BOOLEAN],
         granted' \in [Requests -> BOOLEAN],
         \A q \in Requests \ {r} : /\ request'[q] = request[q] /\ roles'[q] = roles[q]
                                   /\ started'[q] = started[q] /\ known'[q] = known[q]
                                   /\ granted'[q] = granted[q]
  PROVE  Advances(r)
<1> DEFINE k == request'[r]
           R == roles'[r]
<1>1. Moves(r)
  BY DEF Inward, Moves, Middle, LoggedAnswers
<1>2. Login(R) \in Seq(Events) /\ Append(Login(R), "authz.denied") \in Seq(Events)
  <2>1. <<>> \in Seq(Events) /\ <<"auth.login_success">> \in Seq(Events)
    BY DEF Events
  <2>2. Login(R) \in Seq(Events) /\ "authz.denied" \in Events
    BY <2>1 DEF Login, Events
  <2> QED BY <2>2, AppendProperties
<1>3. /\ audit' \in [Requests -> Seq(Events)]
      /\ \A q \in Requests \ {r} : audit'[q] = audit[q]
  BY <1>2 DEF Inward, Types, Shape
<1>4. OthersKept(r)
  BY <1>1, <1>3, MovesEffect DEF OthersKept
<1>5. LocalTypes'
  BY <1>3 DEF LocalTypes, Types, TypeOK, Shape
<1>6. \/ /\ pc'[r] = "done" /\ answer'[r] = "forbidden"
         /\ audit'[r] = Append(Login(R), "authz.denied")
      \/ /\ audit'[r] = Login(R) /\ answer'[r] = "none"
         /\ \/ pc'[r] = "module"
            \/ /\ pc'[r] = "body" /\ settled
               /\ config.policy /\ ~Exempt(k) => R # None /\ RouteAllowed(R, k)
            \/ /\ pc'[r] = "handler" /\ settled
               /\ config.policy /\ ~Exempt(k) =>
                    /\ R # None /\ RouteAllowed(R, k)
                    /\ ~(k.path = "/v1/tools/call" /\ k.method = "POST")
  BY DEF Inward, Answer, End, Continue, Goto, Types, TypeOK, Shape
<1>7. EntitledSoFar(r)'
  BY <1>6 DEF EntitledSoFar, Served, Authorized, ModuleSettled, MayCall, EdgeOk, CsrfOk, AuthPhases, JwtPhases
<1>8. TrailSoFar(r)'
  BY <1>6 DEF TrailSoFar, Explanation, Login
<1>9. KidSoFar(r)'
  BY <1>6 DEF KidSoFar, JwtPhases
<1> QED BY <1>1, <1>4, <1>5, <1>7, <1>8, <1>9 DEF Advances, SoFar

\* A refusal of the authentication layer.
LEMMA RefuseAdvances ==
  ASSUME Types, Phase, NEW r \in Requests, pc[r] \in AuthPhases \cup {"idle"},
         NEW a \in {"unauthorized", "unavailable", "unknown_kid"}, Refuse(r, a),
         a = "unknown_kid" => (known'[r] => disturbed'[r]),
         UNCHANGED <<config, keys, published, denylist, issued, fetched, disturbed>>,
         request' \in [Requests -> Kinds \cup {NoRequest}],
         started' \in [Requests -> SUBSET denylist], known' \in [Requests -> BOOLEAN],
         granted' \in [Requests -> BOOLEAN],
         \A q \in Requests \ {r} : /\ request'[q] = request[q]
                                   /\ started'[q] = started[q] /\ known'[q] = known[q]
                                   /\ granted'[q] = granted[q]
  PROVE  Advances(r)
<1>1. Moves(r) /\ pc[r] # "done"
  BY DEF Refuse, Moves, LoggedAnswers, AuthPhases, JwtPhases
<1>2. roles[r] = None /\ audit[r] = <<>>
  BY <1>1 DEF Phase, EntitledSoFar, TrailSoFar, Login
<1>3. /\ audit' = [audit EXCEPT ![r] = Append(@, "auth.login_failure")] /\ UNCHANGED roles
      /\ pc'[r] = "done" /\ answer'[r] = a
  BY DEF Refuse, Answer, End, Goto, Audit, Types, TypeOK, Shape
<1>4. audit'[r] = <<"auth.login_failure">>
  BY <1>2, <1>3 DEF Types, Shape
<1>5. <<"auth.login_failure">> \in Seq(Events)
  BY DEF Events
<1>6. /\ audit' \in [Requests -> Seq(Events)]
      /\ \A q \in Requests \ {r} : audit'[q] = audit[q]
  BY <1>2, <1>3, <1>4, <1>5 DEF Types, Shape
<1>7. OthersKept(r)
  BY <1>1, <1>3, <1>6, MovesEffect DEF OthersKept
<1>8. LocalTypes'
  BY <1>3, <1>6 DEF LocalTypes, Types, TypeOK, Shape
<1>9. EntitledSoFar(r)'
  BY <1>3 DEF EntitledSoFar, Served, Middle, AuthPhases, JwtPhases
<1>10. TrailSoFar(r)'
  BY <1>3, <1>4 DEF TrailSoFar, Explanation
<1>11. KidSoFar(r)'
  BY <1>3 DEF KidSoFar, JwtPhases
<1> QED BY <1>1, <1>7, <1>8, <1>9, <1>10, <1>11 DEF Advances, SoFar

\* A request that goes on to another await of the authentication layer.
LEMMA ContinueAdvances ==
  ASSUME Types, Phase, NEW r \in Requests, pc[r] # "done", NEW p \in Middle, Continue(r, p),
         UNCHANGED <<config, published, denylist, issued, roles, audit>>, LocalTypes',
         \A q \in Requests \ {r} :
            /\ request'[q] = request[q] /\ fetched'[q] = fetched[q]
            /\ started'[q] = started[q] /\ known'[q] = known[q] /\ granted'[q] = granted[q]
            /\ \/ UNCHANGED keys /\ disturbed'[q] = disturbed[q]
               \/ disturbed[q] \/ pc[q] = "reread" => disturbed'[q],
         EntitledSoFar(r)', KidSoFar(r)'
  PROVE  Advances(r)
<1>1. Moves(r)
  BY DEF Moves
<1>2. OthersKept(r)
  BY <1>1, MovesEffect DEF OthersKept
<1>3. pc'[r] = p /\ p # "done" /\ answer'[r] = "none"
  BY DEF Continue, Goto, Types, TypeOK, Shape, Middle, AuthPhases, JwtPhases
<1>4. TrailSoFar(r)'
  BY <1>3 DEF Phase, TrailSoFar
<1> QED BY <1>1, <1>2, <1>4 DEF Advances, SoFar

-----------------------------------------------------------------------------
(* Arrival. *)

LEMMA ArriveTypes ==
  ASSUME Types, NEW r \in Requests, NEW k \in Kinds, NEW limited \in BOOLEAN,
         Arrive(r, k, limited)
  PROVE  /\ request' \in [Requests -> Kinds \cup {NoRequest}] /\ request'[r] = k
         /\ started' \in [Requests -> SUBSET denylist] /\ started'[r] = denylist
         /\ known' \in [Requests -> BOOLEAN]
         /\ known'[r] => k.authz = "Bearer" /\ Tokens[k.token].kid \in published
         /\ \A q \in Requests \ {r} : /\ request'[q] = request[q]
                                      /\ started'[q] = started[q] /\ known'[q] = known[q]
         /\ UNCHANGED <<config, keys, published, denylist, issued, fetched, disturbed, granted>>
         /\ granted' \in [Requests -> BOOLEAN]
         /\ pc[r] = "idle"
  BY DEF Arrive, Types, TypeOK, Shape, shared

\* Answered by CORS, the rate limiter, validation or CSRF.
LEMMA EdgeAdvances ==
  ASSUME Types, Phase, NEW r \in Requests, NEW k \in Kinds, NEW limited \in BOOLEAN,
         Arrive(r, k, limited), UNCHANGED <<roles, logs>>,
         NEW a \in Unlogged \ {"gone"}, End(r, a),
         \/ a = "preflight" /\ UNCHANGED audit
         \/ \E event \in Events :
                /\ Audit(r, event)
                /\ \/ a = "rate_limited" /\ event = "policy.rate_limit_hit"
                   \/ /\ a \in {"payload_too_large", "unsupported_media_type"}
                      /\ event = "tool.invoke_rejected"
                   \/ a = "csrf_rejected" /\ event = "auth.csrf_reject"
  PROVE  Advances(r)
<1>1. Moves(r) /\ pc[r] = "idle"
  BY ArriveTypes DEF Moves
<1>2. roles[r] = None /\ audit[r] = <<>>
  BY <1>1 DEF Phase, EntitledSoFar, TrailSoFar, Login
<1>3. pc'[r] = "done" /\ answer'[r] = a
  BY DEF End, Goto, Types, TypeOK, Shape
<1>4. /\ audit' \in [Requests -> Seq(Events)]
      /\ \A q \in Requests \ {r} : audit'[q] = audit[q]
      /\ audit'[r] = Explanation(r)'
  <2>1. CASE a = "preflight" /\ UNCHANGED audit
    BY <1>2, <1>3, <2>1 DEF Types, Shape, Explanation
  <2>2. ASSUME NEW event \in Events, Audit(r, event),
               \/ a = "rate_limited" /\ event = "policy.rate_limit_hit"
               \/ /\ a \in {"payload_too_large", "unsupported_media_type"}
                  /\ event = "tool.invoke_rejected"
               \/ a = "csrf_rejected" /\ event = "auth.csrf_reject"
        PROVE  <1>4!1 /\ <1>4!2 /\ <1>4!3
    <3>1. audit'[r] = <<event>>
      BY <1>2, <2>2 DEF Audit, Types, Shape
    <3>2. <<event>> \in Seq(Events)
      BY <2>2
    <3>3. audit' = [audit EXCEPT ![r] = <<event>>]
      BY <1>2, <2>2 DEF Audit
    <3>4. /\ audit' \in [Requests -> Seq(Events)]
          /\ \A q \in Requests \ {r} : audit'[q] = audit[q]
      BY <3>2, <3>3 DEF Types, Shape
    <3>5. Explanation(r)' = <<event>>
      BY <1>3, <2>2 DEF Explanation
    <3> QED BY <3>1, <3>4, <3>5
  <2> QED BY <2>1, <2>2
<1>5. OthersKept(r)
  BY <1>1, <1>4, ArriveTypes, MovesEffect DEF OthersKept
<1>6. LocalTypes'
  BY <1>4, ArriveTypes DEF LocalTypes, Types, TypeOK, Shape
<1>7. EntitledSoFar(r)'
  BY <1>3 DEF EntitledSoFar, Served, Middle, AuthPhases, JwtPhases, Unlogged
<1>8. TrailSoFar(r)'
  BY <1>3, <1>4 DEF TrailSoFar
<1>9. KidSoFar(r)'
  BY <1>3 DEF KidSoFar, JwtPhases, Unlogged
<1> QED BY <1>1, <1>5, <1>6, <1>7, <1>8, <1>9, ArriveTypes DEF Advances, SoFar

\* What the four layers before authentication refuse, in their order.
LEMMA EdgeLayers ==
  ASSUME NEW k, NEW limited
  PROVE  LET e == EdgeRefusals(k, limited)
         IN  /\ e[1][2] = "rate_limited" /\ e[1][3] = "policy.rate_limit_hit"
             /\ e[2][2] = "payload_too_large" /\ e[2][3] = "tool.invoke_rejected"
             /\ e[3][2] = "unsupported_media_type" /\ e[3][3] = "tool.invoke_rejected"
             /\ e[4][2] = "csrf_rejected" /\ e[4][3] = "auth.csrf_reject"
  BY DEF EdgeRefusals

LEMMA EnterAuthAdvances ==
  ASSUME Types, Phase, NEW r \in Requests, NEW k \in Kinds, NEW limited \in BOOLEAN,
         Arrive(r, k, limited), EnterAuth(r, k), EdgeOk(k)
  PROVE  Advances(r)
<1>1. pc[r] = "idle" /\ roles[r] = None /\ audit[r] = <<>>
  BY ArriveTypes DEF Phase, EntitledSoFar, TrailSoFar, Login
<1>2. CASE ~config.auth \/ Exempt(k)
  <2>1. EnterModule(r, k, None, Login(None)) /\ UNCHANGED roles
    BY <1>2 DEF EnterAuth, Login
  <2>2. Inward(r, k, None, TRUE)
    <3>1. EnterRbac(r, k, None, Login(None))
      BY <2>1 DEF EnterModule
    <3> QED BY <3>1, RbacInward
  <2>3. Authenticated(r)'
    BY <1>2, ArriveTypes DEF Authenticated
  <2>4. roles'[r] = None /\ roles' \in [Requests -> RoleSets]
    BY <1>1, <2>1 DEF Types, Shape
  <2>5. ModuleSettled(r)'
    BY <2>4 DEF ModuleSettled
  <2>6. request'[r] = k /\ EdgeOk(request'[r]) /\ Inward(r, request'[r], roles'[r], TRUE)
    <3>1. request'[r] = k
      BY ArriveTypes
    <3>2. EdgeOk(k) /\ Inward(r, k, roles'[r], TRUE)
      BY <2>2, <2>4
    <3> QED BY <3>1, <3>2
  <2>7. /\ UNCHANGED <<config, keys, published, denylist, issued, fetched, disturbed>>
        /\ request' \in [Requests -> Kinds \cup {NoRequest}]
        /\ started' \in [Requests -> SUBSET denylist] /\ known' \in [Requests -> BOOLEAN]
        /\ granted' \in [Requests -> BOOLEAN] /\ pc[r] # "done"
        /\ \A q \in Requests \ {r} : /\ request'[q] = request[q] /\ roles'[q] = roles[q]
                                     /\ started'[q] = started[q] /\ known'[q] = known[q]
                                     /\ granted'[q] = granted[q]
    BY <1>1, <2>1, ArriveTypes
  <2> QED BY <2>3, <2>4, <2>5, <2>6, <2>7, InwardAdvances
<1>3. CASE Refuse(r, "unauthorized")
  BY <1>1, <1>3, ArriveTypes, RefuseAdvances
<1>4. ASSUME config.auth, ~Exempt(k), NEW p \in {"key", "session"}, Continue(r, p),
             UNCHANGED <<roles, audit>>,
             p = "key" <=> Credential(k) = "bearer" /\ config.jwt
      PROVE  Advances(r)
  <2>1. pc'[r] = p /\ answer'[r] = "none"
    BY <1>1, <1>4 DEF Continue, Goto, Types, TypeOK, Shape
  <2>2. LocalTypes'
    BY <1>4, ArriveTypes DEF LocalTypes, Types, TypeOK, Shape
  <2>3. EntitledSoFar(r)'
    BY <1>1, <1>4, <2>1, ArriveTypes
    DEF EntitledSoFar, Served, Middle, AuthPhases, JwtPhases, EdgeOk, CsrfOk, Credential
  <2>4. KidSoFar(r)'
    BY <1>4, <2>1, ArriveTypes DEF KidSoFar, JwtPhases, Token
  <2>5. p \in Middle
    BY <1>4 DEF Middle, AuthPhases, JwtPhases
  <2> QED BY <1>1, <1>4, <2>2, <2>3, <2>4, <2>5, ArriveTypes, ContinueAdvances
<1> QED BY <1>2, <1>3, <1>4 DEF EnterAuth

LEMMA ArriveAdvances ==
  ASSUME Types, Phase, NEW r \in Requests, NEW k \in Kinds, NEW limited \in BOOLEAN,
         Arrive(r, k, limited)
  PROVE  Advances(r)
<1> DEFINE e == EdgeRefusals(k, limited)
<1>1. CASE End(r, "preflight") /\ UNCHANGED <<roles, audit, logs>>
  BY <1>1, EdgeAdvances DEF Unlogged
<1>2. ASSUME NEW i \in 1..4, End(r, e[i][2]), Audit(r, e[i][3]), UNCHANGED <<roles, logs>>
      PROVE  Advances(r)
  <2>1. i = 1 \/ i = 2 \/ i = 3 \/ i = 4
    BY <1>2
  <2> DEFINE a == e[i][2]
             event == e[i][3]
  <2>2. /\ a \in Unlogged \ {"gone"} /\ event \in Events
        /\ \/ a = "rate_limited" /\ event = "policy.rate_limit_hit"
           \/ /\ a \in {"payload_too_large", "unsupported_media_type"}
              /\ event = "tool.invoke_rejected"
           \/ a = "csrf_rejected" /\ event = "auth.csrf_reject"
    BY <2>1, EdgeLayers DEF Unlogged, Events
  <2> HIDE DEF e
  <2> QED BY <1>2, <2>2, EdgeAdvances
<1>3. CASE EnterAuth(r, k) /\ \A i \in 1..4 : ~e[i][1]
  <2>1. EdgeOk(k)
    <3>1. ~e[2][1] /\ ~e[3][1] /\ ~e[4][1]
      BY <1>3
    <3>2. ~(k.size > MaxBody) /\ ContentTypeOk(k) /\ CsrfOk(k)
      BY <3>1 DEF EdgeRefusals
    <3> QED BY <3>2, PipelineAssumption DEF EdgeOk
  <2> QED BY <1>3, <2>1, EnterAuthAdvances
<1> QED BY <1>1, <1>2, <1>3 DEF Arrive

-----------------------------------------------------------------------------
(* Authentication. *)

\* The frame of a step that only moves r.
Quiet == UNCHANGED <<config, shared, request, fetched, history>>

LEMMA QuietKeeps ==
  ASSUME Types, Quiet
  PROVE  /\ UNCHANGED <<config, keys, published, denylist, issued, fetched, disturbed>>
         /\ UNCHANGED <<request, started, known, granted>> /\ granted' \in [Requests -> BOOLEAN]
         /\ request' \in [Requests -> Kinds \cup {NoRequest}]
         /\ started' \in [Requests -> SUBSET denylist] /\ known' \in [Requests -> BOOLEAN]
         /\ UNCHANGED <<roles, audit>> => LocalTypes'
  BY DEF Quiet, shared, history, Types, TypeOK, Shape, LocalTypes

\* The principal of r is settled.
LEMMA AcceptAdvances ==
  ASSUME Types, Phase, NEW r \in Requests, pc[r] \in AuthPhases, Quiet,
         NEW R \in RoleSets \ {None}, Accept(r, R),
         config.jwt /\ Credential(request[r]) = "bearer" =>
            /\ Token(r).sound /\ Token(r).kid \in issued
            /\ Revoking => Token(r).jti \notin started[r]
            /\ R = Token(r).roles
  PROVE  Advances(r)
<1>1. pc[r] # "done" /\ audit[r] = <<>> /\ EdgeOk(request[r])
  BY DEF Phase, EntitledSoFar, TrailSoFar, Login, AuthPhases, JwtPhases, Middle
<1>2. Append(audit[r], "auth.login_success") = Login(R)
  BY <1>1 DEF Login
<1>3. Inward(r, request[r], R,
             ~(config.auth /\ ModuleOf(request[r].path) # "none" /\ R # None))
  BY <1>2, ModuleInward DEF Accept
<1>4. /\ roles' \in [Requests -> RoleSets] /\ roles'[r] = R
      /\ \A q \in Requests \ {r} : roles'[q] = roles[q]
  BY DEF Accept, Types, Shape
<1>5. Authenticated(r)'
  BY <1>4, QuietKeeps DEF Authenticated, Token, Revoking
<1>6. ~(config.auth /\ ModuleOf(request[r].path) # "none" /\ R # None) => ModuleSettled(r)'
  BY <1>4, QuietKeeps DEF ModuleSettled
<1> QED BY <1>1, <1>3, <1>4, <1>5, <1>6, QuietKeeps, InwardAdvances

LEMMA DecodeAdvances ==
  ASSUME Types, Phase, NEW r \in Requests, pc[r] \in {"key", "reread"}, Quiet,
         Token(r).kid \in keys, DecodeWithKey(r)
  PROVE  Advances(r)
<1>1. /\ pc[r] \in JwtPhases /\ pc[r] \in AuthPhases /\ pc[r] # "done"
      /\ config.auth /\ config.jwt /\ ~Exempt(request[r]) /\ roles[r] = None
      /\ request[r].authz = "Bearer" /\ request[r] \in Kinds /\ EdgeOk(request[r])
  BY DEF Phase, EntitledSoFar, AuthPhases, JwtPhases, Middle
<1>2. request[r].token \in DOMAIN Tokens /\ Token(r).kid \in issued
  BY <1>1, PipelineAssumption DEF Types, TypeOK
<1>3. CASE Refuse(r, "unauthorized")
  BY <1>1, <1>3, QuietKeeps, RefuseAdvances
<1>4. CASE Token(r).sound /\ Continue(r, "denylist") /\ UNCHANGED <<roles, audit>>
  <2>1. pc'[r] = "denylist" /\ answer'[r] = "none"
    BY <1>1, <1>4 DEF Continue, Goto, Types, TypeOK, Shape
  <2>2. EntitledSoFar(r)'
    BY <1>1, <1>2, <1>4, <2>1, QuietKeeps
    DEF EntitledSoFar, Served, Middle, AuthPhases, JwtPhases, EdgeOk, CsrfOk, Token
  <2>3. KidSoFar(r)'
    BY <1>1, <2>1, QuietKeeps DEF Phase, KidSoFar, JwtPhases, Token
  <2>4. "denylist" \in Middle
    BY DEF Middle, AuthPhases, JwtPhases
  <2> QED BY <1>1, <1>4, <2>2, <2>3, <2>4, QuietKeeps, ContinueAdvances
<1>5. CASE Token(r).sound /\ ~MustLookUp(Token(r)) /\ Accept(r, Token(r).roles)
  <2>1. Revoking => Token(r).jti \notin started[r]
    BY <1>5 DEF MustLookUp, Revoking, Types, Shape
  <2>2. Token(r).roles \in RoleSets \ {None}
    BY <1>2, PrincipalAssumption DEF Token, RoleSets
  <2> QED BY <1>1, <1>2, <1>5, <2>1, <2>2, AcceptAdvances
<1> QED BY <1>3, <1>4, <1>5 DEF DecodeWithKey

LEMMA ReadKeyAdvances ==
  ASSUME Types, Phase, NEW r \in Requests, ReadKey(r)
  PROVE  Advances(r)
<1>1. Quiet /\ pc[r] = "key"
  BY DEF ReadKey, Quiet
<1>2. CASE Token(r).kid \in keys
  BY <1>1, <1>2, DecodeAdvances DEF ReadKey
<1>3. CASE Continue(r, "fetch") /\ UNCHANGED <<roles, audit>>
  <2>1. pc'[r] = "fetch" /\ answer'[r] = "none"
    BY <1>1, <1>3 DEF Continue, Goto, Types, TypeOK, Shape
  <2>2. EntitledSoFar(r)'
    BY <1>1, <1>3, <2>1, QuietKeeps
    DEF Phase, EntitledSoFar, Served, Middle, AuthPhases, JwtPhases, EdgeOk, CsrfOk
  <2>3. KidSoFar(r)'
    BY <1>1, <2>1, QuietKeeps DEF Phase, KidSoFar, JwtPhases, Token
  <2>4. "fetch" \in Middle
    BY DEF Middle, AuthPhases, JwtPhases
  <2> QED BY <1>1, <1>3, <2>2, <2>3, <2>4, QuietKeeps, ContinueAdvances
<1> QED BY <1>2, <1>3 DEF ReadKey

LEMMA FetchAdvances ==
  ASSUME Types, Phase, NEW r \in Requests, NEW ok \in BOOLEAN, FetchKeys(r, ok)
  PROVE  Advances(r)
<1>1. /\ pc[r] = "fetch" /\ UNCHANGED <<config, keys, published, denylist, issued, request>>
      /\ UNCHANGED <<started, known, disturbed, granted>>
  BY DEF FetchKeys, shared, history
<1>2. CASE Refuse(r, "unavailable") /\ UNCHANGED fetched
  BY <1>1, <1>2, RefuseAdvances DEF AuthPhases, JwtPhases, Types, TypeOK, Shape
<1>3. CASE /\ fetched' = [fetched EXCEPT ![r] = published]
           /\ Continue(r, "store") /\ UNCHANGED <<roles, audit>>
  <2>1. pc'[r] = "store" /\ answer'[r] = "none" /\ fetched'[r] = published
    BY <1>1, <1>3 DEF Continue, Goto, Types, TypeOK, Shape
  <2>2. LocalTypes'
    BY <1>1, <1>3 DEF LocalTypes, Types, TypeOK, Shape
  <2>3. EntitledSoFar(r)'
    BY <1>1, <1>3, <2>1
    DEF Phase, EntitledSoFar, Served, Middle, AuthPhases, JwtPhases, EdgeOk, CsrfOk
  <2>4. KidSoFar(r)'
    BY <1>1, <2>1 DEF Phase, KidSoFar, JwtPhases, Token
  <2>5. "store" \in Middle /\ \A q \in Requests \ {r} : fetched'[q] = fetched[q]
    BY <1>3 DEF Middle, AuthPhases, JwtPhases, Types, Shape
  <2> QED BY <1>1, <1>3, <2>2, <2>3, <2>4, <2>5, ContinueAdvances
<1> QED BY <1>2, <1>3 DEF FetchKeys

LEMMA StoreAdvances ==
  ASSUME Types, Phase, NEW r \in Requests, StoreKeys(r)
  PROVE  Advances(r)
<1>1. /\ pc[r] = "store" /\ UNCHANGED <<config, published, denylist, issued, request, roles>>
      /\ UNCHANGED <<fetched, audit, started, known, granted>>
      /\ keys' = fetched[r] /\ Continue(r, "reread")
  BY DEF StoreKeys, Refreshed
<1>2. /\ disturbed' \in [Requests -> BOOLEAN]
      /\ \A q \in Requests \ {r} : disturbed[q] \/ pc[q] = "reread" => disturbed'[q]
  BY DEF StoreKeys, Types, Shape
<1>3. pc'[r] = "reread" /\ answer'[r] = "none"
  BY <1>1 DEF Continue, Goto, Types, TypeOK, Shape
<1>4. LocalTypes'
  BY <1>1, <1>2 DEF LocalTypes, Types, TypeOK, Shape
<1>5. EntitledSoFar(r)'
  BY <1>1, <1>3 DEF Phase, EntitledSoFar, Served, Middle, AuthPhases, JwtPhases, EdgeOk, CsrfOk
<1>6. KidSoFar(r)'
  BY <1>1, <1>3 DEF Phase, KidSoFar, JwtPhases, Token
<1>7. "reread" \in Middle
  BY DEF Middle, AuthPhases, JwtPhases
<1> QED BY <1>1, <1>2, <1>4, <1>5, <1>6, <1>7, ContinueAdvances

\* The one place where a published key may be unknown.
LEMMA RereadAdvances ==
  ASSUME Types, Phase, NEW r \in Requests, RereadKey(r)
  PROVE  Advances(r)
<1>1. Quiet /\ pc[r] = "reread"
  BY DEF RereadKey, Quiet
<1>2. CASE Token(r).kid \in keys
  BY <1>1, <1>2, DecodeAdvances DEF RereadKey
<1>3. CASE Token(r).kid \notin keys
  <2>1. known[r] => disturbed[r]
    BY <1>1, <1>3 DEF Phase, KidSoFar
  <2>2. Refuse(r, "unknown_kid") /\ pc[r] \in AuthPhases
    BY <1>1, <1>3 DEF RereadKey, AuthPhases, JwtPhases
  <2> QED BY <1>1, <2>1, <2>2, QuietKeeps, RefuseAdvances
<1> QED BY <1>2, <1>3

LEMMA DenylistAdvances ==
  ASSUME Types, Phase, NEW r \in Requests, NEW ok \in BOOLEAN, CheckDenylist(r, ok)
  PROVE  Advances(r)
<1>1. Quiet /\ pc[r] = "denylist" /\ pc[r] \in AuthPhases
  BY DEF CheckDenylist, Quiet, AuthPhases, JwtPhases
<1>2. /\ request[r].authz = "Bearer" /\ request[r] \in Kinds
      /\ Token(r).sound /\ Token(r).kid \in issued
  BY <1>1 DEF Phase, EntitledSoFar, JwtPhases
<1>3. CASE DenylistVerdict(r, ok) = "clear"
  <2>1. Token(r).jti \notin started[r]
    BY <1>3 DEF DenylistVerdict, Types, Shape
  <2>2. Token(r).roles \in RoleSets \ {None}
    BY <1>2, PipelineAssumption, PrincipalAssumption DEF Token, RoleSets
  <2>3. Accept(r, Token(r).roles)
    BY <1>3 DEF CheckDenylist
  <2> QED BY <1>1, <1>2, <2>1, <2>2, <2>3, AcceptAdvances
<1>4. CASE DenylistVerdict(r, ok) # "clear"
  <2>1. DenylistVerdict(r, ok) \in {"unauthorized", "unavailable"}
    BY <1>4 DEF DenylistVerdict
  <2>2. Refuse(r, DenylistVerdict(r, ok))
    BY <1>4 DEF CheckDenylist
  <2> QED BY <1>1, <2>1, <2>2, QuietKeeps, RefuseAdvances
<1> QED BY <1>3, <1>4

LEMMA SessionAdvances ==
  ASSUME Types, Phase, NEW r \in Requests,
         NEW outcome \in {"valid", "unauthorized", "unavailable"}, ValidateSession(r, outcome)
  PROVE  Advances(r)
<1>1. Quiet /\ pc[r] = "session" /\ pc[r] \in AuthPhases
  BY DEF ValidateSession, Quiet, AuthPhases, JwtPhases
<1>2. ~(config.jwt /\ Credential(request[r]) = "bearer")
  BY <1>1 DEF Phase, EntitledSoFar
<1>3. CASE outcome \in {"unauthorized", "unavailable"} /\ Refuse(r, outcome)
  BY <1>1, <1>3, QuietKeeps, RefuseAdvances
<1>4. ASSUME NEW R \in CookieRoles, Accept(r, R) PROVE Advances(r)
  BY <1>1, <1>2, <1>4, PrincipalAssumption, AcceptAdvances DEF RoleSets
<1> QED BY <1>3, <1>4 DEF ValidateSession

-----------------------------------------------------------------------------
(* Behind authentication. *)

\* The request ends where it stands, without another event in its trail.
LEMMA EndAdvances ==
  ASSUME Types, Phase, NEW r \in Requests, pc[r] \notin {"idle", "done"},
         UNCHANGED <<config, keys, published, denylist, issued, request, roles, fetched, audit>>,
         UNCHANGED <<started, known, disturbed>>, granted' \in [Requests -> BOOLEAN],
         \A q \in Requests \ {r} : granted'[q] = granted[q],
         pc[r] = "handler" => granted'[r] = granted[r],
         \/ End(r, "gone") /\ UNCHANGED logs
         \/ \E a \in {"module_denied", "internal", "handled"} :
                Answer(r, a) /\ (a = "handled" => pc[r] = "handler")
  PROVE  Advances(r)
<1>1. Moves(r) /\ pc[r] # "done"
  BY DEF Moves, LoggedAnswers, Unlogged
<1>2. /\ pc'[r] = "done" /\ answer'[r] \in {"gone", "module_denied", "internal", "handled"}
      /\ answer'[r] = "handled" => pc[r] = "handler"
  BY DEF End, Answer, Goto, Types, TypeOK, Shape
<1>3. OthersKept(r)
  BY <1>1, MovesEffect DEF OthersKept
<1>4. EntitledSoFar(r)'
  BY <1>2 DEF Phase, EntitledSoFar, Served, Authenticated, Authorized, ModuleSettled, Revoking, MayCall,
     EdgeOk, CsrfOk, Token, Middle, AuthPhases, JwtPhases
<1>5. audit'[r] = Login(roles'[r])
  BY <1>1 DEF Phase, TrailSoFar
<1>6. TrailSoFar(r)'
  BY <1>2, <1>5 DEF TrailSoFar, Explanation, Login
<1>7. KidSoFar(r)'
  BY <1>2 DEF KidSoFar, JwtPhases
<1>8. LocalTypes'
  BY DEF LocalTypes, Types, TypeOK, Shape
<1> QED BY <1>1, <1>3, <1>4, <1>6, <1>7, <1>8 DEF Advances, SoFar

LEMMA ModuleAdvances ==
  ASSUME Types, Phase, NEW r \in Requests,
         NEW outcome \in {"granted", "denied", "failed"}, CheckModule(r, outcome)
  PROVE  Advances(r)
<1>1. /\ pc[r] = "module" /\ UNCHANGED <<config, keys, published, denylist, issued, request, roles>>
      /\ UNCHANGED <<fetched, started, known, disturbed>>
      /\ granted' \in [Requests -> BOOLEAN] /\ granted'[r] = (outcome = "granted")
      /\ \A q \in Requests \ {r} : granted'[q] = granted[q]
  BY DEF CheckModule, shared, Types, Shape
<1>2. CASE outcome = "granted" /\ EnterRbac(r, request[r], roles[r], audit[r])
  <2>1. /\ audit[r] = Login(roles[r]) /\ EdgeOk(request[r]) /\ Authenticated(r)
    BY <1>1 DEF Phase, TrailSoFar, EntitledSoFar, Middle
  <2>2. Inward(r, request[r], roles[r], TRUE)
    BY <1>2, <2>1, RbacInward
  <2>3. Authenticated(r)' /\ ModuleSettled(r)'
    BY <1>1, <1>2, <2>1 DEF Authenticated, Token, Revoking, ModuleSettled
  <2> QED BY <1>1, <2>1, <2>2, <2>3, InwardAdvances DEF Types, TypeOK, Shape
<1>3. CASE (Answer(r, "module_denied") \/ Answer(r, "internal")) /\ UNCHANGED audit
  BY <1>1, <1>3, EndAdvances
<1> QED BY <1>2, <1>3 DEF CheckModule

LEMMA ToolAdvances ==
  ASSUME Types, Phase, NEW r \in Requests, NEW ok \in BOOLEAN, CheckTool(r, ok)
  PROVE  Advances(r)
<1>1. Quiet /\ pc[r] = "body" /\ UNCHANGED roles
  BY DEF CheckTool, Quiet
<1>2. CASE Answer(r, "internal") /\ UNCHANGED audit
  BY <1>1, <1>2, QuietKeeps, EndAdvances
<1>3. CASE /\ ToolVerdict(roles[r], request[r].tool)
           /\ Continue(r, "handler") /\ UNCHANGED audit
  <2>1. pc'[r] = "handler" /\ answer'[r] = "none"
    BY <1>1, <1>3 DEF Continue, Goto, Types, TypeOK, Shape
  <2>2. MayCall(r)'
    BY <1>1, <1>3, QuietKeeps DEF MayCall, ToolVerdict
  <2>3. EntitledSoFar(r)'
    BY <1>1, <2>1, <2>2, QuietKeeps DEF Phase, EntitledSoFar, Served, Authenticated, Authorized, ModuleSettled, Revoking,
       EdgeOk, CsrfOk, Token, Middle, AuthPhases, JwtPhases
  <2>4. KidSoFar(r)'
    BY <2>1 DEF KidSoFar, JwtPhases
  <2>5. "handler" \in Middle
    BY DEF Middle
  <2> QED BY <1>1, <1>3, <2>3, <2>4, <2>5, QuietKeeps, ContinueAdvances
<1>4. CASE Answer(r, "forbidden") /\ Audit(r, "authz.denied")
  <2>1. audit[r] = Login(roles[r]) /\ EdgeOk(request[r]) /\ Authenticated(r)
    BY <1>1 DEF Phase, TrailSoFar, EntitledSoFar, Middle
  <2>2. audit' = [audit EXCEPT ![r] = Append(Login(roles[r]), "authz.denied")]
    BY <1>4, <2>1 DEF Audit
  <2>3. Authenticated(r)'
    BY <1>1, <2>1, QuietKeeps DEF Authenticated, Token, Revoking
  <2>4. Inward(r, request[r], roles[r], FALSE)
    BY <1>4, <2>2 DEF Inward
  <2> QED BY <1>1, <2>1, <2>3, <2>4, QuietKeeps, InwardAdvances DEF Types, Shape
<1> QED BY <1>2, <1>3, <1>4 DEF CheckTool

LEMMA HandleAdvances ==
  ASSUME Types, Phase, NEW r \in Requests, Handle(r) \/ Disconnect(r)
  PROVE  Advances(r)
<1>1. Quiet /\ UNCHANGED <<roles, audit>>
  BY DEF Handle, Disconnect, Quiet
<1> QED BY <1>1, QuietKeeps, EndAdvances DEF Handle, Disconnect

-----------------------------------------------------------------------------
(* The steps that are not a request's. *)

\* What the shipper, the issuer and the revoker leave alone.
LEMMA OutsideKeeps ==
  ASSUME Types, Phase, UNCHANGED <<config, pc, request, answer, roles, fetched, audit, keys>>,
         UNCHANGED <<started, disturbed, granted>>,
         issued \subseteq issued', published' \subseteq issued', denylist \subseteq denylist',
         denylist' \subseteq Jtis \ {NoJti}, known' \in [Requests -> BOOLEAN],
         \A r \in Requests : known'[r] => known[r] /\ (published' = published \/ Token(r).kid \in published'),
         channel' \in Seq(Requests), Len(channel') <= Capacity,
         inhand' \in Seq(Requests), Len(inhand') <= 1
  PROVE  Types' /\ Phase'
<1>1. TypeOK'
  BY DEF Types, TypeOK
<1>2. Shape'
  BY DEF Types, Shape
<1>3. ASSUME NEW r \in Requests PROVE SoFar(r)'
  <2>1. EntitledSoFar(r)'
    BY DEF Phase, EntitledSoFar, Served, Authenticated, Authorized, ModuleSettled, Revoking, MayCall, EdgeOk, CsrfOk, Token
  <2>2. TrailSoFar(r)'
    BY DEF Phase, TrailSoFar, Explanation
  <2>3. KidSoFar(r)'
    BY DEF Phase, KidSoFar, Token
  <2> QED BY <2>1, <2>2, <2>3 DEF SoFar
<1> QED BY <1>1, <1>2, <1>3 DEF Types, Phase, SoFar

LEMMA OutsideStep ==
  ASSUME Types, Phase,
         \/ TakeLog \/ ShipLog \/ UNCHANGED vars
         \/ \E K \in KeySets : Rotate(K)
         \/ \E t \in DOMAIN Tokens : Tokens[t].jti # NoJti /\ Revoke(Tokens[t].jti)
  PROVE  Types' /\ Phase'
<1> USE DEF shared, logs, history
<1>1. CASE TakeLog
  <2>1. /\ Len(channel) > 0 /\ Head(channel) \in Requests
        /\ Tail(channel) \in Seq(Requests) /\ Len(Tail(channel)) = Len(channel) - 1
    BY <1>1 DEF TakeLog, Types, TypeOK
  <2>2. /\ channel' \in Seq(Requests) /\ Len(channel') <= Capacity
        /\ inhand' \in Seq(Requests) /\ Len(inhand') <= 1
    BY <1>1, <2>1, PipelineAssumption DEF TakeLog, Types, TypeOK
  <2> QED BY <1>1, <2>2, OutsideKeeps DEF TakeLog, Types, TypeOK, Shape
<1>2. CASE ShipLog
  <2>1. inhand' \in Seq(Requests) /\ Len(inhand') <= 1
    BY <1>2 DEF ShipLog
  <2> QED BY <1>2, <2>1, OutsideKeeps DEF ShipLog, Types, TypeOK, Shape
<1>3. CASE UNCHANGED vars
  BY <1>3, OutsideKeeps DEF vars, Types, TypeOK, Shape
<1>4. ASSUME NEW K \in KeySets, Rotate(K) PROVE Types' /\ Phase'
  BY <1>4, OutsideKeeps DEF Rotate, Types, TypeOK, Shape
<1>5. ASSUME NEW t \in DOMAIN Tokens, Tokens[t].jti # NoJti, Revoke(Tokens[t].jti)
      PROVE  Types' /\ Phase'
  BY <1>5, OutsideKeeps DEF Revoke, Types, TypeOK, Shape, Jtis
<1> QED BY <1>1, <1>2, <1>3, <1>4, <1>5

-----------------------------------------------------------------------------
LEMMA PhaseInit == Init => Types /\ Phase
<1> SUFFICES ASSUME Init PROVE Types /\ Phase
  OBVIOUS
<1>1. TypeOK
  BY PipelineAssumption DEF Init, TypeOK
<1>2. Shape
  BY DEF Init, Shape, RoleSets
<1>3. Phase
  BY DEF Init, Phase, EntitledSoFar, TrailSoFar, KidSoFar, Served, Login, Middle, AuthPhases,
     JwtPhases
<1> QED BY <1>1, <1>2, <1>3 DEF Types

\* Every step is one of a request, which Advances, or one from outside.
LEMMA StepCases ==
  ASSUME Types, Phase, [Next]_vars
  PROVE  \/ \E r \in Requests : Advances(r)
         \/ TakeLog \/ ShipLog \/ UNCHANGED vars
         \/ \E K \in KeySets : Rotate(K)
         \/ \E t \in DOMAIN Tokens : Tokens[t].jti # NoJti /\ Revoke(Tokens[t].jti)
  BY ArriveAdvances, ReadKeyAdvances, FetchAdvances, StoreAdvances, RereadAdvances,
     DenylistAdvances, SessionAdvances, ModuleAdvances, ToolAdvances, HandleAdvances DEF Next

LEMMA PhaseStep == Types /\ Phase /\ [Next]_vars => Types' /\ Phase'
  BY StepCases, AdvancesTypes, AdvancesPhase, OutsideStep

\* The variables keep their types: cached and fetched keys were published by
\* the issuer, and the log channel stays within its capacity.
THEOREM PipelineTypes == Spec => []TypeOK
<1>1. Types => TypeOK
  BY DEF Types
<1> QED BY <1>1, PhaseInit, PhaseStep, PTL DEF Spec

\* A handler only runs for a request that every layer switched on has passed,
\* for all policies, tokens, rotations and revocations, and however the awaits
\* of concurrent requests interleave.
THEOREM OnlyEntitledServed == Spec => []ServedWasEntitled
<1>1. Types /\ Phase => ServedWasEntitled
  BY DEF Phase, EntitledSoFar, Served, Authenticated, Authorized, ModuleSettled, ServedWasEntitled, EdgeOk, CsrfOk
<1> QED BY <1>1, PhaseInit, PhaseStep, PTL DEF Spec

\* The audit events of an answered request are those that explain its answer,
\* and a dropped request leaves no failure behind.
THEOREM TrailsExplain == Spec => []TrailExplainsAnswer
<1>1. ASSUME NEW R PROVE ToSet(Login(R)) \subseteq {"auth.login_success"}
  BY DEF Login, ToSet
<1>2. Types /\ Phase => TrailExplainsAnswer
  BY <1>1 DEF Phase, TrailSoFar, TrailExplainsAnswer
<1> QED BY <1>2, PhaseInit, PhaseStep, PTL DEF Spec

\* A published key is only called unknown if another request's refresh was
\* stored between this request's refresh and its second look.
THEOREM UnknownKidIsARace == Spec => []UnknownKidNeedsOverlap
<1>1. Types /\ Phase => UnknownKidNeedsOverlap
  BY DEF Phase, KidSoFar, UnknownKidNeedsOverlap
<1> QED BY <1>1, PhaseInit, PhaseStep, PTL DEF Spec

-----------------------------------------------------------------------------
(* The request logs.  A log is in exactly one of four places; that the     *)
(* channel holds each log once is what makes the count come out.           *)

LEMMA ToSetAppend ==
  ASSUME NEW S, NEW s \in Seq(S), NEW x
  PROVE  ToSet(Append(s, x)) = ToSet(s) \cup {x}
<1>1. /\ Len(Append(s, x)) = Len(s) + 1 /\ Append(s, x)[Len(s) + 1] = x
      /\ \A i \in 1..Len(s) : Append(s, x)[i] = s[i]
      /\ DOMAIN s = 1..Len(s) /\ DOMAIN Append(s, x) = 1..(Len(s) + 1) /\ Len(s) \in Nat
  OBVIOUS
<1>2. ToSet(Append(s, x)) \subseteq ToSet(s) \cup {x}
  BY <1>1 DEF ToSet
<1>3. ToSet(s) \subseteq ToSet(Append(s, x))
  BY <1>1 DEF ToSet
<1>4. x \in ToSet(Append(s, x))
  BY <1>1 DEF ToSet
<1> QED BY <1>2, <1>3, <1>4

LEMMA ToSetTail ==
  ASSUME NEW S, NEW s \in Seq(S), s # <<>>
  PROVE  ToSet(s) = ToSet(Tail(s)) \cup {Head(s)}
<1>1. /\ Len(s) \in Nat /\ Len(s) > 0 /\ Head(s) = s[1] /\ Len(Tail(s)) = Len(s) - 1
      /\ \A i \in 1..(Len(s) - 1) : Tail(s)[i] = s[i + 1]
      /\ DOMAIN s = 1..Len(s) /\ DOMAIN Tail(s) = 1..(Len(s) - 1)
  OBVIOUS
<1>2. ToSet(Tail(s)) \subseteq ToSet(s)
  BY <1>1 DEF ToSet
<1>3. Head(s) \in ToSet(s)
  BY <1>1 DEF ToSet
<1>4. ASSUME NEW y \in ToSet(s), y # Head(s) PROVE y \in ToSet(Tail(s))
  <2>1. PICK i \in 1..Len(s) : y = s[i]
    BY <1>1, <1>4 DEF ToSet
  <2>2. i # 1 /\ i - 1 \in 1..(Len(s) - 1) /\ Tail(s)[i - 1] = s[i]
    BY <1>1, <1>4, <2>1
  <2> QED BY <1>1, <2>1, <2>2 DEF ToSet
<1> QED BY <1>2, <1>3, <1>4

Ended == {r \in Requests : pc[r] = "done" /\ answer[r] \notin Unlogged}

\* The parts of LogsAccounted, that no log is in two places, and that a request
\* emits one when the log layer or one further in answers it.
Places ==
    /\ logged = ToSet(channel) \cup ToSet(inhand) \cup attempted \cup dropped
    /\ \A i, j \in 1..Len(channel) : channel[i] = channel[j] => i = j
    /\ ToSet(channel) \cap ToSet(inhand) = {}
    /\ (ToSet(channel) \cup ToSet(inhand)) \cap (attempted \cup dropped) = {}
    /\ attempted \cap dropped = {}

Count ==
    /\ IsFiniteSet(logged) /\ IsFiniteSet(attempted) /\ IsFiniteSet(dropped)
    /\ Cardinality(logged) =
            Len(channel) + Len(inhand) + Cardinality(attempted) + Cardinality(dropped)

Logs == logged = Ended /\ Places /\ Count

LEMMA AddOne ==
  ASSUME NEW S, IsFiniteSet(S), NEW x, x \notin S
  PROVE  /\ IsFiniteSet(S \cup {x}) /\ Cardinality(S \cup {x}) = Cardinality(S) + 1
         /\ Cardinality(S) \in Nat
  BY FS_AddElement, FS_CardinalityType

\* A log is emitted once: for a request that was not answered before.
LEMMA EmitKeeps ==
  ASSUME Types, Logs, NEW r \in Requests, pc[r] # "done", EmitLog(r)
  PROVE  Places' /\ Count'
<1>1. r \notin logged /\ logged' = logged \cup {r} /\ UNCHANGED <<inhand, attempted>>
  BY DEF Logs, Ended, EmitLog
<1>2. /\ r \notin ToSet(channel) /\ r \notin ToSet(inhand)
      /\ r \notin attempted /\ r \notin dropped
  BY <1>1 DEF Logs, Places
<1>t. channel \in Seq(Requests) /\ Len(channel) \in Nat /\ Len(inhand) \in Nat
  BY DEF Types, TypeOK
<1>3. /\ IsFiniteSet(logged') /\ Cardinality(logged') = Cardinality(logged) + 1
      /\ Cardinality(logged) \in Nat
  BY <1>1, AddOne DEF Logs, Count
<1>4. Cardinality(attempted) \in Nat /\ Cardinality(dropped) \in Nat
  BY FS_CardinalityType DEF Logs, Count
<1>5. CASE Len(channel) < Capacity
  <2>1. channel' = Append(channel, r) /\ UNCHANGED dropped
    BY <1>5 DEF EmitLog, TrySend
  <2>2. ToSet(channel') = ToSet(channel) \cup {r}
    BY <1>t, <2>1, ToSetAppend
  <2>3. /\ Len(channel') = Len(channel) + 1 /\ channel'[Len(channel) + 1] = r
        /\ \A i \in 1..Len(channel) : channel'[i] = channel[i] /\ channel[i] \in ToSet(channel)
    BY <1>t, <2>1 DEF ToSet
  <2>4. \A i, j \in 1..Len(channel') : channel'[i] = channel'[j] => i = j
    <3> SUFFICES ASSUME NEW i \in 1..(Len(channel) + 1), NEW j \in 1..(Len(channel) + 1),
                        channel'[i] = channel'[j]
                 PROVE  i = j
      BY <2>3
    <3>1. CASE i \in 1..Len(channel) /\ j \in 1..Len(channel)
      BY <2>3, <3>1 DEF Logs, Places
    <3>2. CASE i = Len(channel) + 1 \/ j = Len(channel) + 1
      BY <1>2, <1>t, <2>3, <3>2
    <3> QED BY <1>t, <3>1, <3>2
  <2>5. Places'
    BY <1>1, <1>2, <2>1, <2>2, <2>4 DEF Logs, Places
  <2>6. Count'
    BY <1>1, <1>3, <1>4, <1>t, <2>1, <2>3 DEF Logs, Count
  <2> QED BY <2>5, <2>6
<1>6. CASE ~(Len(channel) < Capacity)
  <2>1. UNCHANGED channel /\ dropped' = dropped \cup {r}
    BY <1>6 DEF EmitLog, TrySend
  <2>2. Places'
    BY <1>1, <1>2, <2>1 DEF Logs, Places
  <2>3. IsFiniteSet(dropped') /\ Cardinality(dropped') = Cardinality(dropped) + 1
    BY <1>2, <2>1, AddOne DEF Logs, Count
  <2>4. Count'
    BY <1>1, <1>3, <1>4, <1>t, <2>1, <2>3 DEF Logs, Count
  <2> QED BY <2>2, <2>4
<1> QED BY <1>5, <1>6

LEMMA AdvancesLogs ==
  ASSUME Types, Logs, NEW r \in Requests, Advances(r)
  PROVE  Logs'
<1>1. /\ pc[r] # "done" /\ Moves(r) /\ \A q \in Requests \ {r} : pc'[q] = pc[q] /\ answer'[q] = answer[q]
      /\ Types'
  BY AdvancesTypes DEF Advances, OthersKept
<1>2. ASSUME UNCHANGED logs, pc'[r] # "done" \/ answer'[r] \in Unlogged PROVE Logs'
  <2>1. Ended' = Ended
    BY <1>1, <1>2 DEF Ended
  <2> QED BY <1>2, <2>1 DEF logs, Logs, Places, Count
<1>3. ASSUME NEW a \in LoggedAnswers, Answer(r, a) PROVE Logs'
  <2>1. pc'[r] = "done" /\ answer'[r] = a /\ a \notin Unlogged
    BY <1>3 DEF Answer, End, Goto, Types, TypeOK, Shape, LoggedAnswers, Unlogged
  <2>2. Ended' = Ended \cup {r}
    BY <1>1, <2>1 DEF Ended
  <2> QED BY <1>1, <1>3, <2>2, EmitKeeps DEF Answer, EmitLog, Logs
<1>4. ASSUME NEW p \in Middle, Continue(r, p) PROVE Logs'
  <2>1. pc'[r] # "done"
    BY <1>4 DEF Continue, Goto, Types, TypeOK, Middle, AuthPhases, JwtPhases
  <2> QED BY <1>2, <1>4, <2>1 DEF Continue
<1>5. ASSUME NEW a \in Unlogged, End(r, a), UNCHANGED logs PROVE Logs'
  BY <1>2, <1>5 DEF End, Types, Shape
<1> QED BY <1>1, <1>3, <1>4, <1>5 DEF Moves

\* The shipper moves a log on, and the others do not touch any.
LEMMA OutsideLogs ==
  ASSUME Types, Logs,
         \/ TakeLog \/ ShipLog \/ UNCHANGED vars
         \/ \E K \in KeySets : Rotate(K)
         \/ \E t \in DOMAIN Tokens : Tokens[t].jti # NoJti /\ Revoke(Tokens[t].jti)
  PROVE  Logs'
<1>t. /\ channel \in Seq(Requests) /\ Len(channel) \in Nat
      /\ inhand \in Seq(Requests) /\ Len(inhand) \in Nat /\ Len(inhand) <= 1
  BY DEF Types, TypeOK
<1>e. UNCHANGED <<pc, answer>>
  BY DEF TakeLog, ShipLog, Rotate, Revoke, vars
<1>1. CASE TakeLog
  <2>1. /\ inhand = <<>> /\ channel # <<>> /\ inhand' = <<Head(channel)>>
        /\ channel' = Tail(channel) /\ UNCHANGED <<logged, attempted, dropped>>
    BY <1>1 DEF TakeLog
  <2>2. /\ Len(channel) > 0 /\ Len(channel') = Len(channel) - 1
        /\ \A i \in 1..(Len(channel) - 1) : channel'[i] = channel[i + 1]
        /\ Head(channel) = channel[1] /\ DOMAIN channel' = 1..(Len(channel) - 1)
    BY <1>t, <2>1
  <2>3. /\ ToSet(channel) = ToSet(channel') \cup {Head(channel)}
        /\ ToSet(inhand) = {} /\ ToSet(inhand') = {Head(channel)}
        /\ Len(inhand) = 0 /\ Len(inhand') = 1
    <3>1. ToSet(channel) = ToSet(channel') \cup {Head(channel)}
      BY <1>t, <2>1, ToSetTail
    <3>2. DOMAIN inhand = {} /\ Len(inhand) = 0 /\ Len(inhand') = 1
      BY <2>1
    <3>3. DOMAIN inhand' = {1} /\ inhand'[1] = Head(channel)
      BY <2>1
    <3>4. ToSet(inhand) = {} /\ ToSet(inhand') = {Head(channel)}
      BY <3>2, <3>3 DEF ToSet
    <3> QED BY <3>1, <3>2, <3>4
  <2>4. \A i, j \in 1..Len(channel') : channel'[i] = channel'[j] => i = j
    BY <1>t, <2>2 DEF Logs, Places
  <2>5. Head(channel) \notin ToSet(channel')
    <3> SUFFICES ASSUME NEW i \in 1..(Len(channel) - 1), channel'[i] = channel[1] PROVE FALSE
      BY <2>2 DEF ToSet
    <3>1. channel[i + 1] = channel[1] /\ i + 1 \in 1..Len(channel) /\ 1 \in 1..Len(channel)
      BY <1>t, <2>2
    <3> QED BY <3>1 DEF Logs, Places
  <2>6. Places'
    BY <2>1, <2>3, <2>4, <2>5 DEF Logs, Places
  <2>7. Cardinality(attempted) \in Nat /\ Cardinality(dropped) \in Nat
    BY FS_CardinalityType DEF Logs, Count
  <2>8. Count'
    BY <1>t, <2>1, <2>2, <2>3, <2>7 DEF Logs, Count
  <2> QED BY <1>e, <2>1, <2>6, <2>8 DEF Logs, Ended
<1>2. CASE ShipLog
  <2>1. /\ inhand # <<>> /\ inhand' = <<>> /\ attempted' = attempted \cup ToSet(inhand)
        /\ UNCHANGED <<channel, logged, dropped>>
    BY <1>2 DEF ShipLog
  <2>2. Len(inhand) = 1 /\ ToSet(inhand) = {inhand[1]}
    <3>0. Len(inhand) # 0
      BY <1>t, <2>1, EmptySeq
    <3>a. Len(inhand) = 1
      <4>1. ASSUME NEW n \in Nat, n <= 1, n # 0 PROVE n = 1
        BY <4>1
      <4>2. Len(inhand) \in Nat /\ Len(inhand) <= 1
        BY <1>t
      <4> QED BY <3>0, <4>1, <4>2
    <3>b. DOMAIN inhand = 1..Len(inhand)
      BY <1>t, LenProperties
    <3>1. Len(inhand) = 1 /\ DOMAIN inhand = 1..1
      BY <3>a, <3>b
    <3>2. DOMAIN inhand = {1}
      BY <3>1
    <3> QED BY <3>1, <3>2 DEF ToSet
  <2>3. ToSet(inhand') = {} /\ Len(inhand') = 0
    BY <2>1 DEF ToSet
  <2>4. inhand[1] \notin attempted
    BY <2>2 DEF Logs, Places
  <2>5. /\ IsFiniteSet(attempted') /\ Cardinality(attempted') = Cardinality(attempted) + 1
        /\ Cardinality(attempted) \in Nat
    BY <2>1, <2>2, <2>4, AddOne DEF Logs, Count
  <2>6. Places'
    BY <2>1, <2>3 DEF Logs, Places
  <2>7. Cardinality(dropped) \in Nat
    BY FS_CardinalityType DEF Logs, Count
  <2>8. Count'
    BY <1>t, <2>1, <2>2, <2>3, <2>5, <2>7 DEF Logs, Count
  <2> QED BY <1>e, <2>1, <2>6, <2>8 DEF Logs, Ended
<1>3. CASE UNCHANGED logs
  BY <1>e, <1>3 DEF logs, Logs, Places, Count, Ended
<1> QED BY <1>1, <1>2, <1>3 DEF Rotate, Revoke, vars, logs

\* Every log that was emitted is in exactly one place, for any capacity of the
\* channel and any pace of the shipper.
THEOREM NoLogLost == Spec => []LogsAccounted
<1>1. Init => Logs
  <2> SUFFICES ASSUME Init PROVE Logs
    OBVIOUS
  <2>1. ToSet(channel) = {} /\ ToSet(inhand) = {} /\ Len(channel) = 0 /\ Len(inhand) = 0
    BY DEF Init, ToSet
  <2>2. Places
    BY <2>1 DEF Init, Places
  <2>3. Count
    BY <2>1, FS_EmptySet DEF Init, Count
  <2>4. Ended = {}
    BY DEF Init, Ended
  <2> QED BY <2>2, <2>3, <2>4 DEF Init, Logs
<1>2. Types /\ Phase /\ Logs /\ [Next]_vars => Logs'
  BY StepCases, AdvancesLogs, OutsideLogs
<1>3. Logs => LogsAccounted
  BY DEF Logs, Places, Count, LogsAccounted
<1> QED BY <1>1, <1>2, <1>3, PhaseInit, PhaseStep, PTL DEF Spec
=============================================================================
