-------------------------- MODULE RequestPipeline --------------------------
(***************************************************************************)
(* A request's way through the layers that app() (gateway/src/lib.rs) puts *)
(* around the handlers, outermost first: CORS, rate limit, validation,     *)
(* CSRF, request log, authentication, module access, RBAC, handler; with   *)
(* the local validation of bearer tokens (auth/jwt.rs), whose key set all  *)
(* requests share, and the channel of request logs (observability.rs).     *)
(*                                                                         *)
(* A layer without an await acts in the step of the await before it.  The  *)
(* token buckets are RateLimiter's promise (a refusal needs Burst earlier  *)
(* requests), cookie sessions are SessionCache's outcomes and the grants   *)
(* ModuleAccess's.  Response headers are left out.                         *)
(***************************************************************************)
EXTENDS Naturals, Sequences, FiniteSets, SequencesExt

CONSTANTS
    Requests,
    Kinds,       \* [method, path, size, ctype, authz, token, cookie, csrf, tool]
    Configs,     \* [auth, csrf, jwt, require_jti, revocation, redis, policy]
    Tokens,      \* bearer tokens: token -> [kid, jti, roles, sound]
    NoKid, NoJti,
    KeySets,     \* sets of kids the issuer publishes
    CookieRoles, \* sets of roles BetterAuth answers for a session
    RolePermissions, \* policy.roles
    Allowlist,   \* policy.tools: tool -> [enabled, allowed_roles]
    DefaultAllow,
    MaxBody, Burst, Capacity

ASSUME PipelineAssumption ==
    /\ {MaxBody, Burst, Capacity} \subseteq Nat
    /\ \A k \in Kinds : k.size \in Nat /\ (k.authz = "Bearer" => k.token \in DOMAIN Tokens)

VARIABLES
    config,    \* chosen at startup
    keys,      \* JwtValidator.keys: kids in the cache
    published, \* external: the issuer's key set
    denylist,  \* external: jtis in Redis
    channel,   \* logs waiting for the shipper
    inhand,    \* log the shipper is sending, <<>> or one element
    pc, request, answer,
    roles,     \* roles of the request's Principal, None before there is one
    fetched,   \* key set a refresh has been answered with
    audit,     \* audit events of a request, in order
    logged, dropped, attempted, \* logs emitted, refused by the channel, sent
    issued,    \* history: kids ever published
    started,   \* history: denylist when the request arrived
    known,     \* history: the request's kid has been published ever since
    disturbed, \* history: another refresh was stored during the request's
    granted    \* history: the module of the request's path was granted

vars == <<config, keys, published, denylist, channel, inhand, pc, request, answer, roles,
          fetched, audit, logged, dropped, attempted, issued, started, known, disturbed,
          granted>>
shared == <<keys, published, denylist, issued>>
logs == <<channel, inhand, logged, dropped, attempted>>
history == <<started, known, disturbed, granted>>

None == {"none"}
NoRequest == [method |-> "GET", path |-> "/health", size |-> 0, ctype |-> "", authz |-> "none",
              token |-> "", cookie |-> "", csrf |-> "absent", tool |-> ""]

\* None stands for the absence of a Principal: no principal has it as roles.
ASSUME PrincipalAssumption ==
    None \notin CookieRoles \cup {Tokens[t].roles : t \in DOMAIN Tokens}

Init ==
    /\ config \in Configs
    /\ keys = {} /\ denylist = {}
    /\ published \in KeySets /\ issued = published
    /\ channel = <<>> /\ inhand = <<>>
    /\ pc = [r \in Requests |-> "idle"]
    /\ request = [r \in Requests |-> NoRequest]
    /\ answer = [r \in Requests |-> "none"]
    /\ roles = [r \in Requests |-> None]
    /\ fetched = [r \in Requests |-> {}]
    /\ audit = [r \in Requests |-> <<>>]
    /\ logged = {} /\ dropped = {} /\ attempted = {}
    /\ started = [r \in Requests |-> {}]
    /\ known = [r \in Requests |-> FALSE]
    /\ disturbed = [r \in Requests |-> FALSE]
    /\ granted = [r \in Requests |-> FALSE]

-----------------------------------------------------------------------------
(* What the layers decide. *)

Exempt(k) == k.path \in {"/health", "/version", "/metrics"}
StateChanging(m) == m \in {"POST", "PUT", "PATCH", "DELETE"}

\* route_bucket: three prefixes have buckets of their own.
RouteBucket(p) ==
    IF p \in {"/api/exponential/tasks", "/api/exponential/projects", "/api/exponential/teams"}
    THEN p ELSE "other"
\* The bucket a request draws on: its session cookie (or address), its route
\* group and its lane.
RateKey(k) == <<k.cookie, RouteBucket(k.path), IF k.method \in {"GET", "HEAD"} THEN "read" ELSE "write">>
Exhausted(k) ==
    Cardinality({q \in Requests : /\ pc[q] # "idle" /\ answer[q] \notin {"preflight", "rate_limited"}
                                  /\ RateKey(request[q]) = RateKey(k)}) >= Burst

ContentTypeOk(k) ==
    \/ k.method \notin {"POST", "PUT", "PATCH"}
    \/ k.ctype = "application/json"
    \/ k.ctype = "multipart/form-data" /\ k.method = "POST" /\ k.path = "/api/greenbooks/import/quickbooks"

\* Double submit; any Authorization of the bearer scheme (whatever its case)
\* makes it unnecessary.
CsrfOk(k) ==
    \/ ~config.csrf \/ Exempt(k) \/ ~StateChanging(k.method)
    \/ k.authz \in {"Bearer", "bearer"}
    \/ k.csrf = "match"

\* extract_credential: "Bearer " as written, else a session cookie.
Credential(k) ==
    IF k.authz = "Bearer" THEN "bearer" ELSE IF k.cookie # "" THEN "cookie" ELSE "none"

ModuleOf(p) ==
    CASE p \in {"/api/exponential/tasks", "/api/exponential/projects", "/api/exponential/teams"} -> "exponential"
      [] p = "/api/greenbooks/import/quickbooks" -> "greenbooks"
      [] OTHER -> "none"

\* principal_has_permission.
HasPermission(R, p) ==
    \E x \in R \cap DOMAIN RolePermissions : {"*", p} \cap RolePermissions[x] # {}

\* route_to_permission; "" where a route needs none.
RoutePermission(m, p) ==
    LET data == IF StateChanging(m) THEN "data:write" ELSE "data:read"
    IN  CASE p = "/v1/tools/call" -> "tools:invoke"
          [] p = "/v1/tools" /\ m = "GET" -> "tools:list"
          [] p = "/v1/admin/policy" -> "admin:policy"
          [] p = "/v1/admin/audit" -> "admin:audit"
          [] p = "/v1/tools" /\ m # "GET" -> data
          [] ModuleOf(p) = "exponential" -> data
          [] OTHER -> ""

\* evaluate_route_access.
RouteAllowed(R, k) ==
    LET p == RoutePermission(k.method, k.path)
    IN  HasPermission(R, "*") \/ p = "" \/ HasPermission(R, p)

\* evaluate_tool_call.
ToolAllowed(R, t) ==
    \/ HasPermission(R, "*")
    \/ t \notin DOMAIN Allowlist /\ DefaultAllow
    \/ t \in DOMAIN Allowlist /\ Allowlist[t].enabled /\ R \cap Allowlist[t].allowed_roles # {}

-----------------------------------------------------------------------------
(* How a request moves on and ends. *)

Goto(r, p) == pc' = [pc EXCEPT ![r] = p]
Audit(r, event) == audit' = [audit EXCEPT ![r] = Append(@, event)]

\* Answered before the request log layer.
End(r, a) ==
    /\ Goto(r, "done")
    /\ answer' = [answer EXCEPT ![r] = a]

\* Mutant: a full channel makes room by forgetting its oldest log.
ForgetOldest(r) == Append(IF Len(channel) < Capacity THEN channel ELSE Tail(channel), r)
\* Mutant: the log is queued whatever the length of the channel.
NoCapacity(r) == Append(channel, r)
\* try_send: nothing is queued in a full channel.
TrySend(r) == IF Len(channel) < Capacity THEN Append(channel, r) ELSE channel

\* request_log_middleware on the way out, for every answer from further in.
EmitLog(r) ==
    /\ logged' = logged \cup {r}
    /\ channel' = TrySend(r)
    /\ dropped' = IF Len(channel) < Capacity THEN dropped ELSE dropped \cup {r}
    /\ UNCHANGED <<inhand, attempted>>

Answer(r, a) == End(r, a) /\ EmitLog(r)
Continue(r, p) == Goto(r, p) /\ UNCHANGED answer /\ UNCHANGED logs

\* RBAC decides without an await, except for a tool call, whose body it reads.
RbacVerdict(R, k) ==
    IF ~config.policy \/ Exempt(k) THEN "pass"
    ELSE IF R = None THEN "denied"
    ELSE IF ~RouteAllowed(R, k) THEN "denied"
    ELSE IF k.path = "/v1/tools/call" /\ k.method = "POST" THEN "body"
    ELSE "pass"

\* From module access inwards: rbac_middleware up to its first await.
EnterRbac(r, k, R, before) ==
    LET v == RbacVerdict(R, k)
    IN  IF v = "denied"
        THEN /\ Answer(r, "forbidden")
             /\ audit' = [audit EXCEPT ![r] = before \o <<"authz.denied">>]
        ELSE /\ Continue(r, IF v = "body" THEN "body" ELSE "handler")
             /\ audit' = [audit EXCEPT ![r] = before]

\* module_access_middleware: only with authentication on, for a module's
\* path and a known principal.
EnterModule(r, k, R, before) ==
    IF config.auth /\ ModuleOf(k.path) # "none" /\ R # None
    THEN Continue(r, "module") /\ audit' = [audit EXCEPT ![r] = before]
    ELSE EnterRbac(r, k, R, before)

\* The principal is known.
Accept(r, R) ==
    /\ roles' = [roles EXCEPT ![r] = R]
    /\ EnterModule(r, request[r], R, Append(audit[r], "auth.login_success"))

\* Mutant: an upstream failure is not audited.
QuietRefuse(r, a) == Answer(r, a) /\ UNCHANGED <<roles, audit>>
Refuse(r, a) ==
    /\ Answer(r, a)
    /\ Audit(r, "auth.login_failure")
    /\ UNCHANGED roles

-----------------------------------------------------------------------------
(* The layers before authentication, and the choice of the validator. *)

\* What may refuse, in order, with its answer and its audit event.
EdgeRefusals(k, limited) ==
    <<<<limited, "rate_limited", "policy.rate_limit_hit">>,
      <<k.size > MaxBody, "payload_too_large", "tool.invoke_rejected">>,
      <<~ContentTypeOk(k), "unsupported_media_type", "tool.invoke_rejected">>,
      <<~CsrfOk(k), "csrf_rejected", "auth.csrf_reject">>>>

\* auth_middleware up to its first await.
EnterAuth(r, k) ==
    LET c == Credential(k)
    IN  IF ~config.auth \/ Exempt(k)
        THEN EnterModule(r, k, None, <<>>) /\ UNCHANGED roles
        ELSE IF c = "none" \/ (c = "bearer" /\ config.jwt /\ Tokens[k.token].kid = NoKid)
        THEN Refuse(r, "unauthorized")
        ELSE /\ Continue(r, IF c = "bearer" /\ config.jwt THEN "key" ELSE "session")
             /\ UNCHANGED <<roles, audit>>

Arrive(r, k, limited) ==
    /\ pc[r] = "idle"
    /\ limited => Exhausted(k)
    /\ request' = [request EXCEPT ![r] = k]
    /\ started' = [started EXCEPT ![r] = denylist]
    /\ known' = [known EXCEPT ![r] = k.authz = "Bearer" /\ Tokens[k.token].kid \in published]
    /\ LET layers == EdgeRefusals(k, limited)
       IN  \/ /\ k.method = "OPTIONS"
              /\ End(r, "preflight")
              /\ UNCHANGED <<roles, audit, logs>>
           \/ \E i \in 1..4 :
              /\ k.method # "OPTIONS"
              /\ layers[i][1] /\ \A j \in 1..(i - 1) : ~layers[j][1]
              /\ End(r, layers[i][2])
              /\ Audit(r, layers[i][3])
              /\ UNCHANGED <<roles, logs>>
           \/ /\ k.method # "OPTIONS" /\ \A i \in 1..4 : ~layers[i][1]
              /\ EnterAuth(r, k)
    /\ UNCHANGED <<config, shared, fetched, disturbed, granted>>

-----------------------------------------------------------------------------
(* JwtValidator::validate_session. *)

Token(r) == Tokens[request[r].token]

\* JwtValidator::new: without a Redis URL revocation is switched off, with a
\* warning, even when it is configured.
Revoking == config.revocation /\ config.redis
MustLookUp(t) == Revoking /\ t.jti # NoJti

\* decode_with_key, then validate_claims up to the denylist.
DecodeWithKey(r) ==
    LET t == Token(r)
    IN  \/ /\ ~t.sound \/ (config.require_jti /\ t.jti = NoJti)
           /\ Refuse(r, "unauthorized")
        \/ /\ t.sound /\ (config.require_jti => t.jti # NoJti)
           /\ IF MustLookUp(t) THEN Continue(r, "denylist") /\ UNCHANGED <<roles, audit>>
              ELSE Accept(r, t.roles)

\* The cached key, or the start of a refresh.
ReadKey(r) ==
    /\ pc[r] = "key"
    /\ IF Token(r).kid \in keys THEN DecodeWithKey(r)
       ELSE Continue(r, "fetch") /\ UNCHANGED <<roles, audit>>
    /\ UNCHANGED <<config, shared, request, fetched, history>>

\* refresh_jwks is answered, or fails.
FetchKeys(r, ok) ==
    /\ pc[r] = "fetch"
    /\ IF ok
       THEN /\ fetched' = [fetched EXCEPT ![r] = published]
            /\ Continue(r, "store") /\ UNCHANGED <<roles, audit>>
       ELSE Refuse(r, "unavailable") /\ UNCHANGED fetched
    /\ UNCHANGED <<config, shared, request, history>>

\* Mutant: keys already cached are kept and nothing is replaced.
KeepCached(r) == IF keys = {} THEN fetched[r] ELSE keys
\* The whole map is replaced.
Refreshed(r) == fetched[r]

\* The answer is stored once the write lock is held.
StoreKeys(r) ==
    /\ pc[r] = "store"
    /\ keys' = Refreshed(r)
    /\ disturbed' = [q \in Requests |-> disturbed[q] \/ (q # r /\ pc[q] = "reread")]
    /\ Continue(r, "reread")
    /\ UNCHANGED <<config, published, denylist, issued, request, roles, fetched, audit,
                   started, known, granted>>

\* The key is looked up again.
RereadKey(r) ==
    /\ pc[r] = "reread"
    /\ IF Token(r).kid \in keys THEN DecodeWithKey(r) ELSE Refuse(r, "unknown_kid")
    /\ UNCHANGED <<config, shared, request, fetched, history>>

\* Mutant: an error of Redis lets the token through.
FailOpen(r, ok) == IF ok /\ Token(r).jti \in denylist THEN "unauthorized" ELSE "clear"
\* is_revoked: an error of Redis is a 503.
DenylistVerdict(r, ok) ==
    IF ~ok THEN "unavailable" ELSE IF Token(r).jti \in denylist THEN "unauthorized" ELSE "clear"

CheckDenylist(r, ok) ==
    /\ pc[r] = "denylist"
    /\ LET v == DenylistVerdict(r, ok)
       IN  IF v = "clear" THEN Accept(r, Token(r).roles) ELSE Refuse(r, v)
    /\ UNCHANGED <<config, shared, request, fetched, history>>

\* BetterAuth validates cookies, and bearer tokens without a JWT setup.
ValidateSession(r, outcome) ==
    /\ pc[r] = "session"
    /\ \/ outcome \in {"unauthorized", "unavailable"} /\ Refuse(r, outcome)
       \/ outcome = "valid" /\ \E R \in CookieRoles : Accept(r, R)
    /\ UNCHANGED <<config, shared, request, fetched, history>>

-----------------------------------------------------------------------------
(* The layers behind authentication. *)

\* load_module_access_for_principal has answered; a refusal is not audited.
CheckModule(r, outcome) ==
    /\ pc[r] = "module"
    /\ \/ outcome = "granted" /\ EnterRbac(r, request[r], roles[r], audit[r])
       \/ outcome = "denied" /\ Answer(r, "module_denied") /\ UNCHANGED audit
       \/ outcome = "failed" /\ Answer(r, "internal") /\ UNCHANGED audit
    /\ granted' = [granted EXCEPT ![r] = outcome = "granted"]
    /\ UNCHANGED <<config, shared, request, roles, fetched, started, known, disturbed>>

\* A body that does not name a tool is left to the handler.
ToolVerdict(R, t) == t = "unparsable" \/ ToolAllowed(R, t)

\* The body of a tool call is read.
CheckTool(r, ok) ==
    /\ pc[r] = "body"
    /\ IF ~ok THEN Answer(r, "internal") /\ UNCHANGED audit
       ELSE IF ToolVerdict(roles[r], request[r].tool)
       THEN Continue(r, "handler") /\ UNCHANGED audit
       ELSE Answer(r, "forbidden") /\ Audit(r, "authz.denied")
    /\ UNCHANGED <<config, shared, request, roles, fetched, history>>

\* The handler, or fallback_handler, answers.
Handle(r) ==
    /\ pc[r] = "handler"
    /\ Answer(r, "handled")
    /\ UNCHANGED <<config, shared, request, roles, fetched, audit, history>>

\* The client leaves: the request is dropped at an await, without a log.
Disconnect(r) ==
    /\ pc[r] \notin {"idle", "done"}
    /\ End(r, "gone")
    /\ UNCHANGED <<config, shared, logs, request, roles, fetched, audit, history>>

-----------------------------------------------------------------------------
(* The shipper, the issuer, the revoker. *)

\* rx.recv().
TakeLog ==
    /\ inhand = <<>> /\ channel # <<>>
    /\ inhand' = <<Head(channel)>>
    /\ channel' = Tail(channel)
    /\ UNCHANGED <<config, shared, pc, request, answer, roles, fetched, audit,
                   logged, dropped, attempted, history>>

\* The POST ends, well or not: a failure is only warned about.
ShipLog ==
    /\ inhand # <<>>
    /\ attempted' = attempted \cup ToSet(inhand)
    /\ inhand' = <<>>
    /\ UNCHANGED <<config, shared, pc, request, answer, roles, fetched, audit,
                   channel, logged, dropped, history>>

Rotate(K) ==
    /\ published' = K
    /\ issued' = issued \cup K
    /\ known' = [r \in Requests |-> known[r] /\ Token(r).kid \in K]
    /\ UNCHANGED <<config, keys, denylist, pc, request, answer, roles, fetched, audit, logs,
                   started, disturbed, granted>>

Revoke(j) ==
    /\ denylist' = denylist \cup {j}
    /\ UNCHANGED <<config, keys, published, issued, pc, request, answer, roles, fetched, audit, logs, history>>

Next ==
    \/ \E r \in Requests :
        \/ \E k \in Kinds, limited \in BOOLEAN : Arrive(r, k, limited)
        \/ ReadKey(r) \/ StoreKeys(r) \/ RereadKey(r) \/ Handle(r) \/ Disconnect(r)
        \/ \E ok \in BOOLEAN : FetchKeys(r, ok) \/ CheckDenylist(r, ok) \/ CheckTool(r, ok)
        \/ \E outcome \in {"valid", "unauthorized", "unavailable"} : ValidateSession(r, outcome)
        \/ \E outcome \in {"granted", "denied", "failed"} : CheckModule(r, outcome)
    \/ TakeLog \/ ShipLog
    \/ \E K \in KeySets : Rotate(K)
    \/ \E t \in DOMAIN Tokens : Tokens[t].jti # NoJti /\ Revoke(Tokens[t].jti)

Spec == Init /\ [][Next]_vars

-----------------------------------------------------------------------------
TypeOK ==
    /\ keys \subseteq issued /\ published \subseteq issued
    /\ \A r \in Requests : fetched[r] \subseteq issued
    /\ pc \in [Requests -> {"idle", "key", "fetch", "store", "reread", "denylist", "session",
                           "module", "body", "handler", "done"}]
    /\ request \in [Requests -> Kinds \cup {NoRequest}]
    /\ channel \in Seq(Requests) /\ Len(channel) <= Capacity
    /\ inhand \in Seq(Requests) /\ Len(inhand) <= 1

\* A tool call of r is allowed by the policy.
MayCall(r) ==
    request[r].path = "/v1/tools/call" /\ request[r].method = "POST" /\ request[r].tool # "unparsable" =>
        ToolAllowed(roles[r], request[r].tool)

\* The request reaches a handler.
Served(r) == pc[r] = "handler" \/ answer[r] = "handled"

\* What reaches a handler passed every layer that is on, in whatever order the
\* awaits of requests, rotations and revocations fell: size and content type;
\* for a write the CSRF token or an Authorization of the bearer scheme; a
\* principal, for a bearer token the one of a sound token, under a key the
\* issuer published at some time (a withdrawn one is honoured until the next
\* refresh), with a jti not on the denylist when the request arrived (if Redis
\* is there to be asked); the grant of the path's module; and the permissions
\* of the policy.  A bearer scheme that does not authenticate the request, a
\* lower-case "bearer" beside a cookie, satisfies CSRF too: see
\* CookieWritesCarryToken.
ServedWasEntitled ==
    \A r \in Requests : Served(r) =>
        LET k == request[r]
            bearer == config.auth /\ config.jwt /\ Credential(k) = "bearer"
        IN  /\ k.size <= MaxBody /\ ContentTypeOk(k)
            /\ ~Exempt(k) =>
               /\ config.csrf /\ StateChanging(k.method) =>
                    k.csrf = "match" \/ k.authz \in {"Bearer", "bearer"}
               /\ config.auth => roles[r] # None
               /\ bearer => /\ Token(r).sound /\ Token(r).kid \in issued
                            /\ Revoking => Token(r).jti \notin started[r]
                            /\ roles[r] = Token(r).roles
               /\ config.auth /\ ModuleOf(k.path) # "none" => granted[r]
               /\ config.policy => roles[r] # None /\ RouteAllowed(roles[r], k) /\ MayCall(r)

\* docs/AUTH.md: "Cookie-authenticated write requests must satisfy CSRF": a
\* write served on the strength of a cookie carries the double-submit token.
CookieWritesCarryToken ==
    \A r \in Requests : Served(r) =>
        LET k == request[r]
        IN  config.auth /\ config.csrf /\ ~Exempt(k) /\ StateChanging(k.method)
                /\ Credential(k) = "cookie" => k.csrf = "match"

\* The events that explain an answer, after the login of a known principal.
Explanation(r) ==
    LET login == IF roles[r] = None THEN <<>> ELSE <<"auth.login_success">>
    IN  CASE answer[r] \in {"unauthorized", "unavailable", "unknown_kid"} -> <<"auth.login_failure">>
          [] answer[r] = "rate_limited" -> <<"policy.rate_limit_hit">>
          [] answer[r] \in {"payload_too_large", "unsupported_media_type"} -> <<"tool.invoke_rejected">>
          [] answer[r] = "csrf_rejected" -> <<"auth.csrf_reject">>
          [] answer[r] = "forbidden" -> Append(login, "authz.denied")
          [] OTHER -> login

\* The audit trail of every answered request is exactly the events above: none
\* missing, doubled or left from another layer, and a request that was dropped
\* has no failure in its trail.  The trail of a request refused by module access
\* is its login alone: see DenialsAudited.
TrailExplainsAnswer ==
    \A r \in Requests :
        /\ pc[r] = "done" /\ answer[r] # "gone" => audit[r] = Explanation(r)
        /\ answer[r] = "gone" => ToSet(audit[r]) \subseteq {"auth.login_success"}

\* docs/AUDIT_EVENTS.md: "Every auth/authz/tool decision emits an event --
\* especially denials", authz.denied for a 403: an answer that denies access
\* to an authenticated principal has that event in its trail.
DenialsAudited ==
    \A r \in Requests : answer[r] \in {"forbidden", "module_denied"} =>
        "authz.denied" \in ToSet(audit[r])

\* request_log_middleware, log_tx and the shipper: each log that was emitted is
\* in exactly one place, waiting, being sent, sent, or dropped by a full
\* channel and counted as dropped.  Which requests emit one is another matter:
\* the layers outside the log layer answer without a log.
LogsAccounted ==
    /\ logged = ToSet(channel) \cup ToSet(inhand) \cup attempted \cup dropped
    /\ Cardinality(logged) = Len(channel) + Len(inhand) + Cardinality(attempted) + Cardinality(dropped)

\* A token whose key was published all along is refused as unknown only if
\* another request stored its key set between this one's store and read.
UnknownKidNeedsOverlap ==
    \A r \in Requests : answer[r] = "unknown_kid" /\ known[r] => disturbed[r]
=============================================================================
