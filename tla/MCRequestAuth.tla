---------------------------- MODULE MCRequestAuth ---------------------------
EXTENDS RequestAuth

Auth(scope, admin) == [mode |-> "enabled", jwks_url |-> "url", cache_ttl_seconds |-> 2,
                       audience |-> "siglet", required_scope |-> scope, admin_scope |-> admin]
Off == [Auth(None, None) EXCEPT !.mode = "disabled"]

\* The signaling API, the token API with an admin scope and disabled, the management
\* API, and configurations that validate refuses: a blank scope, a cache that never
\* holds, and an admin scope that everybody has.
MCConfigs ==
    [signaling |-> {Auth("api", None), Auth(Blank, None),
                    [Auth("api", None) EXCEPT !.cache_ttl_seconds = 0]},
     token |-> {Auth("api", "admin"), Auth("api", "api"), Off},
     management |-> {Auth(None, None)}]

Call(header, aud, scopes, path) ==
    [header |-> header, aud |-> aud, scopes |-> scopes, sub |-> "p", path |-> path]

\* One call for each outcome of the middleware.
MCCalls ==
    {Call("ok", "siglet", {"api"}, "p"), Call("ok", "siglet", {"api"}, "q"),
     Call("ok", "siglet", {"api", "admin"}, "q"), Call("ok", "siglet", {"admin", "siglet-mgmt-api:read"}, None),
     Call("ok", "other", {"api"}, "p"), Call("missing", "siglet", {"api"}, None)}
=============================================================================
