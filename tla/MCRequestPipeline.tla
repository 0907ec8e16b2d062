------------------------- MODULE MCRequestPipeline -------------------------
(* Two requests of every kind the layers tell apart, a key rotation, four   *)
(* tokens under different keys, a log channel of one.                      *)
EXTENDS RequestPipeline

CONSTANTS r1, r2
MCRequests == {r1, r2}
Symmetry == Permutations(MCRequests)

Plain == [method |-> "GET", path |-> "/api/exponential/tasks", size |-> 1, ctype |-> "",
          authz |-> "none", token |-> "", cookie |-> "", csrf |-> "absent", tool |-> ""]
Bearer(t) == [Plain EXCEPT !.authz = "Bearer", !.token = t]
Call == [Plain EXCEPT !.method = "POST", !.path = "/v1/tools/call", !.ctype = "application/json",
                      !.cookie = "s1", !.csrf = "match", !.tool = "sleep"]

MCKinds == {
    [Plain EXCEPT !.method = "OPTIONS"],
    [Plain EXCEPT !.path = "/health"],
    [Plain EXCEPT !.cookie = "s1"],
    [Call EXCEPT !.size = 9],
    [Call EXCEPT !.ctype = "text/plain"],
    [Call EXCEPT !.csrf = "differs", !.authz = "bearer"],
    [Call EXCEPT !.csrf = "absent"],
    Call, [Call EXCEPT !.tool = "shell"],
    [Call EXCEPT !.tool = "unparsable"],
    [Call EXCEPT !.path = "/api/greenbooks/import/quickbooks", !.ctype = "multipart/form-data"],
    Bearer("old"), Bearer("new"), Bearer("malformed"),
    [Bearer("expired") EXCEPT !.method = "POST", !.ctype = "application/json"]}

\* old has no jti, expired is not sound, malformed has no kid.
MCTokens == [t \in {"old", "new", "expired", "malformed"} |->
    [kid |-> CASE t = "old" -> "k1" [] t = "malformed" -> "none" [] OTHER -> "k2",
     jti |-> IF t = "old" THEN "none" ELSE "j1",
     roles |-> {"viewer"},
     sound |-> t # "expired"]]
MCKeySets == {{"k1"}, {"k1", "k2"}}
MCRoles == {{"admin"}, {"developer"}}
MCRolePermissions == [x \in {"admin", "viewer", "developer"} |->
    CASE x = "admin" -> {"*"} [] x = "viewer" -> {"data:read"} [] OTHER -> {"tools:invoke", "data:read"}]
MCAllowlist == [t \in {"sleep"} |-> [enabled |-> TRUE, allowed_roles |-> {"developer"}]]

Full == [auth |-> TRUE, csrf |-> TRUE, jwt |-> TRUE, require_jti |-> TRUE, revocation |-> TRUE,
         redis |-> TRUE, policy |-> TRUE]
MCConfigs == {Full,
    [Full EXCEPT !.auth = FALSE],
    [Full EXCEPT !.redis = FALSE],
    [Full EXCEPT !.jwt = FALSE, !.policy = FALSE, !.csrf = FALSE]}
=============================================================================
