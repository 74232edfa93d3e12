---------------------------- MODULE RequestAuth ----------------------------
(***************************************************************************)
(* The JWT middleware of the siglet server (siglet/src/server/auth/mod.rs):    *)
(* verify_jwt over an HttpKeyProvider, whose cache of the identity provider's   *)
(* JWKS is refreshed by whichever request finds it old or lacking its kid.       *)
(*                                                                         *)
(* The layer is one the server builds from a valid configuration: for the signaling   *)
(* API, for the token API, or for reads or writes of the management API.          *)
(*                                                                         *)
(* The identity provider is external: it signs with its newest key, publishes   *)
(* that key and the one before it, and never reuses a kid.                     *)
(***************************************************************************)
EXTENDS SigletConfig, FiniteSets, FiniteSetsExt

CONSTANTS Requests,        \* connections on which requests arrive
          Configs,         \* per API: its configured authentication
          Calls,           \* what requests carry: header, audience, scopes and subject of
                           \* the token; participant_context_id of the route, or None
          Latency,         \* bound: duration of a fetch
          MaxRotations,    \* bound: rotations of the identity provider's key
          MaxFaults        \* bound: failed fetches

ASSUME AuthAssumption ==
    /\ Latency \in Nat \ {0} /\ MaxRotations \in Nat /\ MaxFaults \in Nat
    /\ Calls # {}

\* The configurations of an API are enabled or disabled, and cache_ttl_seconds is unsigned.
ASSUME ConfigsAssumption ==
    /\ DOMAIN Configs = {"signaling", "token", "management"}
    /\ \A api \in DOMAIN Configs : \A cfg \in Configs[api] :
           cfg.mode \in {"enabled", "disabled"} /\ cfg.cache_ttl_seconds \in Nat

-----------------------------------------------------------------------------
(* The layers of the server *)

Disabled == [mode |-> "disabled", cache_ttl |-> 0, expected_audience |-> None,
             required_scope |-> None, admin_scope |-> None,
             no_participant_context |-> "pass_through"]

enabled_http_require_token(cache_ttl, audience, required_scope, admin_scope) ==
    [mode |-> "enabled", cache_ttl |-> cache_ttl, expected_audience |-> audience,
     required_scope |-> required_scope, admin_scope |-> admin_scope,
     no_participant_context |-> "require_token"]

build_signaling_auth_layer(cfg) ==
    IF cfg.mode = "disabled" THEN {Disabled}
    ELSE {enabled_http_require_token(cfg.cache_ttl_seconds, cfg.audience,
                                     cfg.required_scope, None)}

build_token_api_auth_layer(cfg) ==
    IF cfg.mode = "disabled" THEN {Disabled}
    ELSE {enabled_http_require_token(cfg.cache_ttl_seconds, cfg.audience,
                                     cfg.required_scope, cfg.admin_scope)}

build_management_api_auth_layers(cfg) ==
    IF cfg.mode = "disabled" THEN {Disabled}
    ELSE {enabled_http_require_token(cfg.cache_ttl_seconds, cfg.audience, scope, None) :
             scope \in {"siglet-mgmt-api:read", "siglet-mgmt-api:write"}}

\* Every layer main hands to run_server.
Layers ==
    LET Valid(api) == {cfg \in Configs[api] : ValidAuth(cfg)}
    IN  UNION ({build_signaling_auth_layer(cfg) : cfg \in Valid("signaling")}
               \cup {build_token_api_auth_layer(cfg) : cfg \in Valid("token")}
               \cup {build_management_api_auth_layers(cfg) : cfg \in Valid("management")})

-----------------------------------------------------------------------------

Kids == 1..(MaxRotations + 1)
NoSet == 0

VARIABLES layer,      \* AuthState
          newest,     \* identity provider: kid of its signing key
          gone,       \* gone[k]: for how long kid k has not been published (capped)
          cache,      \* CachedJwks: newest kid of the set, and its age
          req,        \* req[r]: the request on connection r
          faults

vars == <<layer, newest, gone, cache, req, faults>>

\* The set published while kid n signs.
JwkSet(n) == {k \in Kids : n - 1 <= k /\ k <= n}

MaxGone == layer.cache_ttl + Latency

Idle == [at |-> "idle", call |-> CHOOSE c \in Calls : TRUE, kid |-> 1,
         set |-> NoSet, age |-> 0, forced |-> FALSE, result |-> "none"]

InFlight(r) == req[r].at \in {"fetch", "answer", "handler"}

\* Type invariant.
TypeOK ==
    /\ layer \in Layers /\ newest \in Kids /\ gone \in [Kids -> 0..MaxGone]
    /\ cache \in [set : Kids \cup {NoSet}, age : 0..layer.cache_ttl]
    /\ req \in [Requests -> [at : {"idle", "fetch", "answer", "handler"},
                             call : Calls, kid : Kids,
                             set : Kids \cup {NoSet}, age : 0..Latency, forced : BOOLEAN,
                             result : {"none", "passed", "unknown_kid", "refused"}]]
    /\ faults \in 0..MaxFaults

Init ==
    /\ layer \in Layers /\ newest = 1 /\ gone = [k \in Kids |-> 0]
    /\ cache = [set |-> NoSet, age |-> 0]
    /\ req = [r \in Requests |-> Idle] /\ faults = 0

-----------------------------------------------------------------------------
(* verify_jwt *)

scope_grants(call, scope) == scope \in call.scopes

\* Mutant: the admin scope stands in for the required one.
Authorize_AdminAlone(call) ==
    LET is_admin == layer.admin_scope # None /\ scope_grants(call, layer.admin_scope)
    IN  IF call.aud # layer.expected_audience THEN "refused"
        ELSE IF ~is_admin /\ ~scope_grants(call, layer.required_scope) THEN "refused"
        ELSE IF call.path # None /\ ~is_admin /\ call.sub # call.path THEN "refused"
        ELSE "passed"

\* decode with the key of the kid, then the scope, then the subject.  Tokens are signed with
\* the key their kid names and are in force: what decode says of signature, algorithm, exp and
\* nbf is the library's, and only refuses more.
Authorize(call) ==
    LET is_admin == layer.admin_scope # None /\ scope_grants(call, layer.admin_scope)
    IN  IF call.aud # layer.expected_audience THEN "refused"
        ELSE IF ~scope_grants(call, layer.required_scope) THEN "refused"
        ELSE IF call.path # None /\ ~is_admin /\ call.sub # call.path THEN "refused"
        ELSE "passed"

\* A request the layer lets through goes to its handler, any other is answered.
Conclude(request, result) ==
    IF result = "passed"
    THEN [Idle EXCEPT !.at = "handler", !.result = result,
                      !.call = request.call, !.kid = request.kid]
    ELSE [Idle EXCEPT !.result = result,
                      !.kid = IF result = "unknown_kid" THEN request.kid ELSE @]

\* Mutant: the age of the cached set is not looked at.
Cached_AnyAge == cache.set # NoSet

Cached == cache.set # NoSet /\ cache.age < layer.cache_ttl

Checked(call) ==
    layer.mode = "enabled" /\ (call.path # None \/ layer.no_participant_context = "require_token")

\* A request arrives, with the newest key of the identity provider.  The middleware's
\* decisions up to its first await: no verification, a bad header, a cached key, a fetch.
Arrive(r) ==
    /\ req[r].at = "idle"
    /\ \E call \in Calls :
        LET request == [Idle EXCEPT !.call = call, !.kid = newest] IN
        req' = [req EXCEPT ![r] =
            IF ~Checked(call) THEN Conclude(request, "passed")
            ELSE IF call.header # "ok" THEN Conclude(request, "refused")
            ELSE IF Cached /\ request.kid \in JwkSet(cache.set)
                 THEN Conclude(request, Authorize(call))
            ELSE [request EXCEPT !.at = "fetch", !.forced = Cached]]
    /\ UNCHANGED <<layer, newest, gone, cache, faults>>

\* A retired token: the client goes on using the token of its last request.
ArriveAgain(r) ==
    /\ req[r].at = "idle" /\ req[r].result = "passed"
    /\ Checked(req[r].call)
    /\ req' = [req EXCEPT ![r] =
            IF Cached /\ req[r].kid \in JwkSet(cache.set)
            THEN Conclude(req[r], Authorize(req[r].call))
            ELSE [req[r] EXCEPT !.at = "fetch", !.forced = Cached, !.result = "none"]]
    /\ UNCHANGED <<layer, newest, gone, cache, faults>>

\* The identity provider answers with the set it publishes now.
FetchJwks(r) ==
    /\ req[r].at = "fetch"
    /\ req' = [req EXCEPT ![r].at = "answer", ![r].set = newest]
    /\ UNCHANGED <<layer, newest, gone, cache, faults>>

\* Mutant: after the refresh the kid is looked up in the cache as it was.
Refreshed_OldCache(r) ==
    LET q == req[r] IN
    IF cache.set # NoSet /\ q.kid \in JwkSet(cache.set)
    THEN Conclude(q, Authorize(q.call)) ELSE Conclude(q, "unknown_kid")

\* Mutant: a missing kid always forces one more.
Refreshed_Forever(r) ==
    LET q == req[r] IN
    IF q.kid \in JwkSet(q.set) THEN Conclude(q, Authorize(q.call))
    ELSE [q EXCEPT !.at = "fetch", !.set = NoSet, !.age = 0, !.forced = TRUE]

\* What the request does with the set it has fetched itself: if that was the refresh for
\* an old cache, a missing kid forces one more.
Refreshed(r) ==
    LET q == req[r] IN
    IF q.kid \in JwkSet(q.set) THEN Conclude(q, Authorize(q.call))
    ELSE IF ~q.forced THEN [q EXCEPT !.at = "fetch", !.set = NoSet, !.age = 0, !.forced = TRUE]
    ELSE Conclude(q, "unknown_kid")

\* force_refresh stores what came, even when a later fetch was faster.
StoreJwks(r) ==
    /\ req[r].at = "answer"
    /\ cache' = [set |-> req[r].set, age |-> 0]
    /\ req' = [req EXCEPT ![r] = Refreshed(r)]
    /\ UNCHANGED <<layer, newest, gone, faults>>

FetchFails(r) ==
    /\ req[r].at \in {"fetch", "answer"} /\ faults < MaxFaults /\ faults' = faults + 1
    /\ req' = [req EXCEPT ![r] = Conclude(req[r], "refused")]
    /\ UNCHANGED <<layer, newest, gone, cache>>

\* The handler behind the layer answers.
Handle(r) ==
    /\ req[r].at = "handler"
    /\ req' = [req EXCEPT ![r].at = "idle"]
    /\ UNCHANGED <<layer, newest, gone, cache, faults>>

-----------------------------------------------------------------------------
(* The identity provider, and time *)

RotateIdpKey ==
    /\ newest <= MaxRotations /\ newest' = newest + 1
    /\ UNCHANGED <<layer, gone, cache, req, faults>>

Tick ==
    /\ \A r \in Requests : req[r].at \in {"fetch", "answer"} => req[r].age < Latency
    /\ gone' = [k \in Kids |-> IF k < newest - 1 THEN Min({gone[k] + 1, MaxGone}) ELSE 0]
    /\ cache' = [cache EXCEPT !.age = IF cache.set = NoSet THEN 0 ELSE Min({@ + 1, layer.cache_ttl})]
    /\ req' = [r \in Requests |-> IF req[r].at \in {"fetch", "answer"}
                                  THEN [req[r] EXCEPT !.age = @ + 1] ELSE req[r]]
    /\ UNCHANGED <<layer, newest, faults>>

Next ==
    \/ \E r \in Requests :
          \/ Arrive(r) \/ ArriveAgain(r)
          \/ FetchJwks(r) \/ StoreJwks(r) \/ FetchFails(r) \/ Handle(r)
    \/ RotateIdpKey \/ Tick

\* A fetch ends by answer or timeout, a handler answers.
Fairness ==
    \A r \in Requests : WF_vars(FetchJwks(r)) /\ WF_vars(StoreJwks(r)) /\ WF_vars(Handle(r))

Spec == Init /\ [][Next]_vars /\ Fairness

-----------------------------------------------------------------------------
(* Properties *)

\* A request is refused for an unknown kid only if the identity provider has stopped
\* publishing its key, however fetches overtake each other.
NoFalseUnknownKid ==
    \A r \in Requests : req[r].result = "unknown_kid" => req[r].kid \notin JwkSet(newest)

\* A key that the identity provider stopped publishing is not accepted for longer than a
\* fetch and the life of a cache entry, although an old answer may be stored late.
RetiredKeyExpires ==
    [][\A r \in Requests :
           req[r].at # "handler" /\ req'[r].at = "handler" /\ Checked(req'[r].call)
               => gone[req'[r].kid] < layer.cache_ttl + Latency]_vars

\* Whoever reaches a handler of an enabled layer holds the required scope for this
\* audience, and acts for the participant in the path unless a second scope, named in a
\* valid configuration of the token API, makes it an admin.
AcceptedIsEntitled ==
    \A r \in Requests :
        LET c == req[r].call IN
        req[r].at = "handler" /\ Checked(c) =>
            /\ c.header = "ok" /\ c.aud = layer.expected_audience
            /\ layer.required_scope \in c.scopes
            /\ \/ c.path \in {None, c.sub}
               \/ layer.admin_scope \in c.scopes \ {layer.required_scope}

\* Every request is answered: a request fetches the JWKS at most twice.
RequestsAnswered ==
    \A r \in Requests : InFlight(r) ~> ~InFlight(r)

=============================================================================
