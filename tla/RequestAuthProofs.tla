------------------------- MODULE RequestAuthProofs -------------------------
(***************************************************************************)
(* Proofs about RequestAuth: a request that is told its kid is unknown holds    *)
(* a key that is no longer published, whoever reaches a handler is entitled to,    *)
(* and a retired key is accepted no longer than a fetch and a cache entry last.     *)
(*                                                                         *)
(* A fetched set is only ever behind the identity provider: what is missing     *)
(* from it on the old side is missing for good (Behind), and what is still in it   *)
(* has been gone for no longer than the fetch has lasted (AnswerFresh), or than    *)
(* the cache entry and the fetch it came from (CacheFresh).                       *)
(***************************************************************************)
EXTENDS RequestAuth, TLAPS

-----------------------------------------------------------------------------
(* The layers *)

\* What validate guarantees of every layer that is enabled.
SoundLayer(l) ==
    /\ l.cache_ttl \in Nat
    /\ l.mode = "enabled" =>
           /\ l.cache_ttl > 0
           /\ l.admin_scope # None => l.admin_scope # l.required_scope

\* Every layer the server builds from a valid configuration is sound.
LEMMA LayersSound ==
    ASSUME NEW l \in Layers
    PROVE  SoundLayer(l)
<1> DEFINE Valid(api) == {cfg \in Configs[api] : ValidAuth(cfg)}
<1>1. \/ \E cfg \in Valid("signaling") : l \in build_signaling_auth_layer(cfg)
      \/ \E cfg \in Valid("token") : l \in build_token_api_auth_layer(cfg)
      \/ \E cfg \in Valid("management") : l \in build_management_api_auth_layers(cfg)
  BY DEF Layers
<1>2. SoundLayer(Disabled)
  BY DEF SoundLayer, Disabled
<1>3. ASSUME NEW api \in {"signaling", "token", "management"}, NEW cfg \in Valid(api)
      PROVE  cfg.mode \in {"enabled", "disabled"} /\ cfg.cache_ttl_seconds \in Nat
             /\ ValidAuth(cfg)
  BY ConfigsAssumption
<1>4. ASSUME NEW ttl \in Nat \ {0}, NEW aud, NEW scope, NEW admin, admin # None => admin # scope
      PROVE  SoundLayer(enabled_http_require_token(ttl, aud, scope, admin))
  BY <1>4 DEF SoundLayer, enabled_http_require_token
<1>5. CASE \E cfg \in Valid("signaling") : l \in build_signaling_auth_layer(cfg)
  <2>1. PICK cfg \in Valid("signaling") : l \in build_signaling_auth_layer(cfg)
    BY <1>5
  <2>2. CASE cfg.mode = "disabled"
    BY <1>2, <2>1, <2>2 DEF build_signaling_auth_layer
  <2>3. CASE cfg.mode = "enabled"
    <3>1. cfg.cache_ttl_seconds \in Nat \ {0}
      BY <1>3, <2>3 DEF ValidAuth
    <3> QED BY <1>4, <2>1, <2>3, <3>1 DEF build_signaling_auth_layer
  <2> QED BY <1>3, <2>2, <2>3
<1>6. CASE \E cfg \in Valid("token") : l \in build_token_api_auth_layer(cfg)
  <2>1. PICK cfg \in Valid("token") : l \in build_token_api_auth_layer(cfg)
    BY <1>6
  <2>2. CASE cfg.mode = "disabled"
    BY <1>2, <2>1, <2>2 DEF build_token_api_auth_layer
  <2>3. CASE cfg.mode = "enabled"
    <3>1. /\ cfg.cache_ttl_seconds \in Nat \ {0}
          /\ cfg.admin_scope # None => cfg.admin_scope # cfg.required_scope
      BY <1>3, <2>3 DEF ValidAuth
    <3> QED BY <1>4, <2>1, <2>3, <3>1 DEF build_token_api_auth_layer
  <2> QED BY <1>3, <2>2, <2>3
<1>7. CASE \E cfg \in Valid("management") : l \in build_management_api_auth_layers(cfg)
  <2>1. PICK cfg \in Valid("management") : l \in build_management_api_auth_layers(cfg)
    BY <1>7
  <2>2. CASE cfg.mode = "disabled"
    BY <1>2, <2>1, <2>2 DEF build_management_api_auth_layers
  <2>3. CASE cfg.mode = "enabled"
    <3>1. cfg.cache_ttl_seconds \in Nat \ {0}
      BY <1>3, <2>3 DEF ValidAuth
    <3> QED BY <1>4, <2>1, <2>3, <3>1 DEF build_management_api_auth_layers
  <2> QED BY <1>3, <2>2, <2>3
<1> QED BY <1>1, <1>5, <1>6, <1>7

\* Min of a pair is the smaller one.
LEMMA MinOfPair ==
    ASSUME NEW a \in Nat, NEW b \in Nat
    PROVE  /\ Min({a, b}) \in Nat /\ Min({a, b}) <= a /\ Min({a, b}) <= b
           /\ Min({a, b}) \in {a, b}
<1>1. \E x \in {a, b} : \A y \in {a, b} : x <= y
  <2>1. CASE a <= b
    BY <2>1
  <2>2. CASE b <= a
    BY <2>2
  <2> QED BY <2>1, <2>2
<1>2. Min({a, b}) \in {a, b} /\ \A y \in {a, b} : Min({a, b}) <= y
  BY <1>1 DEF Min
<1> QED BY <1>2

-----------------------------------------------------------------------------
(* The inductive invariant: what holds of each request q *)

RequestType ==
    [at : {"idle", "fetch", "answer", "handler"}, call : Calls, kid : Kids,
     set : Kids \cup {NoSet}, age : 0..Latency, forced : BOOLEAN,
     result : {"none", "passed", "unknown_kid", "refused"}]

\* A request in the middleware has passed the header check and is not yet judged, a
\* request in its handler has passed.
Judged(q) ==
    /\ q.at \in {"fetch", "answer"} =>
           Checked(q.call) /\ q.call.header = "ok" /\ q.result = "none"
    /\ q.at = "handler" => q.result = "passed"

\* The call may pass the layer.
Entitled(c) ==
    /\ c.header = "ok" /\ c.aud = layer.expected_audience
    /\ layer.required_scope \in c.scopes
    /\ \/ c.path \in {None, c.sub}
       \/ layer.admin_scope \in c.scopes \ {layer.required_scope}

\* Passing the layer is remembered only with a call that may pass it.
PassedEntitled(q) == q.result = "passed" /\ Checked(q.call) => Entitled(q.call)

\* No kid and no fetched set is ahead of the identity provider, and a fetched set is
\* not behind the kid it was fetched for.
Behind(q) ==
    /\ q.kid <= newest
    /\ q.at = "answer" => q.set \in Kids /\ q.set <= newest /\ q.kid <= q.set

\* A key of a fetched set has been gone for no longer than the fetch has lasted.
AnswerFresh(q) ==
    q.at = "answer" => \A k \in JwkSet(q.set) : gone[k] <= q.age

TrulyUnknown(q) == q.result = "unknown_kid" => q.kid \notin JwkSet(newest)

RequestInv(q) ==
    /\ q \in RequestType
    /\ Judged(q) /\ PassedEntitled(q) /\ Behind(q) /\ AnswerFresh(q) /\ TrulyUnknown(q)

\* What is published is not gone.
PublishedNow == \A k \in Kids : k >= newest - 1 => gone[k] = 0

\* A key of the cached set has been gone for no longer than the entry has been there,
\* after a fetch.
CacheFresh ==
    cache.set # NoSet => \A k \in JwkSet(cache.set) : gone[k] <= cache.age + Latency

AuthInv ==
    /\ TypeOK /\ PublishedNow /\ CacheFresh
    /\ \A r \in Requests : RequestInv(req[r])

-----------------------------------------------------------------------------
(* Operators *)

\* NoSet is no kid.
LEMMA NoSetIsNoKid == NoSet \notin Kids
  BY AuthAssumption DEF NoSet, Kids

\* Kids are naturals.
LEMMA KidsAreNat == Kids \subseteq Nat
  BY AuthAssumption DEF Kids

\* A request that is not there satisfies everything.
LEMMA IdleShape ==
    /\ Idle \in RequestType
    /\ Idle.at = "idle" /\ Idle.result = "none" /\ Idle.kid = 1 /\ Idle.set = NoSet
    /\ Idle.age = 0 /\ Idle.forced = FALSE
<1>1. (CHOOSE c \in Calls : TRUE) \in Calls
  BY AuthAssumption
<1>2. 1 \in Kids /\ 0 \in 0..Latency
  BY AuthAssumption DEF Kids
<1> QED BY <1>1, <1>2 DEF Idle, RequestType

\* What becomes of a request that is decided.
LEMMA ConcludeShape ==
    ASSUME NEW q, q.call \in Calls, q.kid \in Kids,
           NEW result \in {"passed", "unknown_kid", "refused"}
    PROVE  /\ Conclude(q, result) \in RequestType
           /\ Conclude(q, result).result = result
           /\ result = "passed" =>
                  /\ Conclude(q, result).at = "handler"
                  /\ Conclude(q, result).call = q.call /\ Conclude(q, result).kid = q.kid
           /\ result # "passed" => Conclude(q, result).at = "idle"
           /\ result = "unknown_kid" => Conclude(q, result).kid = q.kid
           /\ result = "refused" => Conclude(q, result).kid = 1
  BY IdleShape DEF Conclude, RequestType

\* A call the layer authorizes is entitled: the admin scope is not the required one.
LEMMA AuthorizeSound ==
    ASSUME layer \in Layers, layer.mode = "enabled", NEW c, c.header = "ok"
    PROVE  /\ Authorize(c) \in {"passed", "refused"}
           /\ Authorize(c) = "passed" => Entitled(c)
<1>1. layer.admin_scope # None => layer.admin_scope # layer.required_scope
  BY LayersSound DEF SoundLayer
<1> QED BY <1>1 DEF Authorize, Entitled, scope_grants

\* A decided request satisfies the invariant, if the decision is right.
LEMMA ConcludeRight ==
    ASSUME AuthInv, NEW q, q.call \in Calls, q.kid \in Kids, q.kid <= newest,
           NEW result \in {"passed", "unknown_kid", "refused"},
           result = "passed" /\ Checked(q.call) => Entitled(q.call),
           result = "unknown_kid" => q.kid \notin JwkSet(newest)
    PROVE  RequestInv(Conclude(q, result))
<1> DEFINE c == Conclude(q, result)
<1>1. /\ c \in RequestType /\ c.result = result
      /\ result = "passed" => c.at = "handler" /\ c.call = q.call /\ c.kid = q.kid
      /\ result # "passed" => c.at = "idle"
      /\ result = "unknown_kid" => c.kid = q.kid
      /\ result = "refused" => c.kid = 1
  BY ConcludeShape
<1> HIDE DEF c
<1>2. newest \in Kids /\ 1 <= newest
  BY AuthAssumption DEF AuthInv, TypeOK, Kids
<1>3. RequestInv(c)
  BY <1>1, <1>2 DEF RequestInv, Judged, PassedEntitled, Behind, AnswerFresh, TrulyUnknown
<1> QED BY <1>3 DEF c

\* A decision by the layer is right.
LEMMA AuthorizeRight ==
    ASSUME AuthInv, NEW q, q.call \in Calls, q.kid \in Kids, q.kid <= newest,
           Checked(q.call), q.call.header = "ok"
    PROVE  RequestInv(Conclude(q, Authorize(q.call)))
<1>1. /\ Authorize(q.call) \in {"passed", "refused"}
      /\ Authorize(q.call) = "passed" => Entitled(q.call)
  BY AuthorizeSound DEF AuthInv, TypeOK, Checked
<1> QED BY <1>1, ConcludeRight

\* A step that changes only request r, to one that satisfies the invariant, keeps it.
LEMMA RequestStep ==
    ASSUME AuthInv, NEW r \in Requests, NEW q, RequestInv(q),
           req' = [req EXCEPT ![r] = q], UNCHANGED <<layer, newest, gone>>,
           UNCHANGED cache \/ (cache' \in [set : Kids \cup {NoSet}, age : 0..layer.cache_ttl]
                               /\ CacheFresh'),
           faults' \in 0..MaxFaults
    PROVE  AuthInv'
<1>1. req \in [Requests -> RequestType] /\ q \in RequestType
  BY DEF AuthInv, TypeOK, RequestType, RequestInv
<1>2. req' \in [Requests -> RequestType]
      /\ \A s \in Requests : req'[s] = IF s = r THEN q ELSE req[s]
  BY <1>1
<1>3. TypeOK'
  BY <1>2 DEF AuthInv, TypeOK, RequestType, MaxGone
<1>4. PublishedNow' /\ CacheFresh'
  BY DEF AuthInv, PublishedNow, CacheFresh
<1>5. ASSUME NEW s \in Requests PROVE RequestInv(req[s])'
  <2>1. RequestInv(req'[s])
    BY <1>2 DEF AuthInv
  <2> QED BY <2>1 DEF RequestInv, Judged, PassedEntitled, Behind, AnswerFresh, TrulyUnknown,
                    Checked, Entitled
<1> QED BY <1>3, <1>4, <1>5 DEF AuthInv

-----------------------------------------------------------------------------
(* The actions *)

\* AuthInv holds initially.
LEMMA InitAuth == Init => AuthInv
<1> SUFFICES ASSUME Init PROVE AuthInv
  OBVIOUS
<1>1. SoundLayer(layer)
  BY LayersSound DEF Init
<1>2. 1 \in Kids /\ Latency \in Nat /\ MaxFaults \in Nat /\ MaxGone \in Nat
  BY <1>1, AuthAssumption DEF Kids, SoundLayer, MaxGone
<1>3. TypeOK
  BY <1>1, <1>2, IdleShape DEF Init, TypeOK, RequestType, SoundLayer
<1>4. PublishedNow /\ CacheFresh
  BY DEF Init, PublishedNow, CacheFresh
<1>5. ASSUME NEW r \in Requests PROVE RequestInv(req[r])
  <2>1. req[r] = Idle /\ newest = 1
    BY DEF Init
  <2> QED BY <2>1, IdleShape DEF RequestInv, Judged, PassedEntitled, Behind, AnswerFresh, TrulyUnknown
<1> QED BY <1>3, <1>4, <1>5 DEF AuthInv

\* What the invariant says of one request.
LEMMA RequestFacts ==
    ASSUME AuthInv, NEW r \in Requests
    PROVE  /\ req \in [Requests -> RequestType] /\ req[r] \in RequestType
           /\ RequestInv(req[r]) /\ newest \in Kids /\ newest \in Nat
           /\ faults \in 0..MaxFaults
  BY KidsAreNat DEF AuthInv, TypeOK, RequestType

\* Arrive keeps AuthInv.
LEMMA ArriveAuth ==
    ASSUME AuthInv, NEW r \in Requests, Arrive(r) PROVE AuthInv'
<1>1. PICK call \in Calls :
        LET request == [Idle EXCEPT !.call = call, !.kid = newest] IN
        req' = [req EXCEPT ![r] =
            IF ~Checked(call) THEN Conclude(request, "passed")
            ELSE IF call.header # "ok" THEN Conclude(request, "refused")
            ELSE IF Cached /\ request.kid \in JwkSet(cache.set)
                 THEN Conclude(request, Authorize(call))
            ELSE [request EXCEPT !.at = "fetch", !.forced = Cached]]
  BY DEF Arrive
<1> DEFINE request == [Idle EXCEPT !.call = call, !.kid = newest]
           asked == [request EXCEPT !.at = "fetch", !.forced = Cached]
<1>2. /\ newest \in Kids /\ newest \in Nat /\ faults \in 0..MaxFaults
  BY RequestFacts
<1>3. /\ request \in RequestType /\ request.call = call /\ request.kid = newest
      /\ request.result = "none" /\ request.age = 0
  BY <1>2, IdleShape DEF RequestType
<1>4. /\ asked \in RequestType /\ asked.call = call /\ asked.kid = newest
      /\ asked.at = "fetch" /\ asked.result = "none"
  <2>1. Cached \in BOOLEAN
    BY DEF Cached
  <2> QED BY <1>3, <2>1 DEF RequestType
<1> HIDE DEF request, asked
<1>5. CASE ~Checked(call)
  <2>1. req' = [req EXCEPT ![r] = Conclude(request, "passed")]
    BY <1>1, <1>5 DEF request
  <2>2. RequestInv(Conclude(request, "passed"))
    BY <1>2, <1>3, <1>5, ConcludeRight
  <2> QED BY <1>2, <2>1, <2>2, RequestStep DEF Arrive
<1>6. CASE Checked(call) /\ call.header # "ok"
  <2>1. req' = [req EXCEPT ![r] = Conclude(request, "refused")]
    BY <1>1, <1>6 DEF request
  <2>2. RequestInv(Conclude(request, "refused"))
    BY <1>2, <1>3, ConcludeRight
  <2> QED BY <1>2, <2>1, <2>2, RequestStep DEF Arrive
<1>7. CASE Checked(call) /\ call.header = "ok" /\ Cached /\ request.kid \in JwkSet(cache.set)
  <2>1. req' = [req EXCEPT ![r] = Conclude(request, Authorize(call))]
    BY <1>1, <1>7 DEF request
  <2>2. RequestInv(Conclude(request, Authorize(request.call)))
    BY <1>2, <1>3, <1>7, AuthorizeRight
  <2> QED BY <1>2, <1>3, <2>1, <2>2, RequestStep DEF Arrive
<1>8. CASE Checked(call) /\ call.header = "ok" /\ ~(Cached /\ request.kid \in JwkSet(cache.set))
  <2>1. req' = [req EXCEPT ![r] = asked]
    BY <1>1, <1>8 DEF request, asked
  <2>2. RequestInv(asked)
    BY <1>2, <1>4, <1>8 DEF RequestInv, Judged, PassedEntitled, Behind, AnswerFresh, TrulyUnknown
  <2> QED BY <1>2, <2>1, <2>2, RequestStep DEF Arrive
<1> QED BY <1>5, <1>6, <1>7, <1>8

\* ArriveAgain keeps AuthInv.
LEMMA ArriveAgainAuth ==
    ASSUME AuthInv, NEW r \in Requests, ArriveAgain(r) PROVE AuthInv'
<1>1. /\ req[r] \in RequestType /\ RequestInv(req[r]) /\ newest \in Nat /\ faults \in 0..MaxFaults
  BY RequestFacts
<1>2. /\ req[r].call \in Calls /\ req[r].kid \in Kids /\ req[r].kid <= newest
      /\ req[r].result = "passed" /\ Checked(req[r].call) /\ req[r].call.header = "ok"
  BY <1>1 DEF ArriveAgain, RequestType, RequestInv, Behind, PassedEntitled, Entitled
<1>3. CASE Cached /\ req[r].kid \in JwkSet(cache.set)
  <2>1. req' = [req EXCEPT ![r] = Conclude(req[r], Authorize(req[r].call))]
    BY <1>3 DEF ArriveAgain
  <2>2. RequestInv(Conclude(req[r], Authorize(req[r].call)))
    BY <1>2, AuthorizeRight
  <2> QED BY <1>1, <2>1, <2>2, RequestStep DEF ArriveAgain
<1>4. CASE ~(Cached /\ req[r].kid \in JwkSet(cache.set))
  <2> DEFINE asked == [req[r] EXCEPT !.at = "fetch", !.forced = Cached, !.result = "none"]
  <2>1. /\ asked \in RequestType /\ asked.call = req[r].call /\ asked.kid = req[r].kid
        /\ asked.at = "fetch" /\ asked.result = "none"
    BY <1>1 DEF RequestType, Cached
  <2>2. req' = [req EXCEPT ![r] = asked]
    BY <1>4 DEF ArriveAgain
  <2> HIDE DEF asked
  <2>3. RequestInv(asked)
    BY <1>2, <2>1 DEF RequestInv, Judged, PassedEntitled, Behind, AnswerFresh, TrulyUnknown
  <2> QED BY <1>1, <2>2, <2>3, RequestStep DEF ArriveAgain
<1> QED BY <1>3, <1>4

\* FetchJwks keeps AuthInv.
LEMMA FetchJwksAuth ==
    ASSUME AuthInv, NEW r \in Requests, FetchJwks(r) PROVE AuthInv'
<1> DEFINE q == [req[r] EXCEPT !.at = "answer", !.set = newest]
<1>1. /\ req \in [Requests -> RequestType] /\ req[r] \in RequestType /\ RequestInv(req[r])
      /\ newest \in Kids /\ newest \in Nat /\ faults \in 0..MaxFaults
  BY RequestFacts
<1>2. /\ q \in RequestType /\ q.at = "answer" /\ q.set = newest /\ q.call = req[r].call
      /\ q.kid = req[r].kid /\ q.age = req[r].age /\ q.result = req[r].result
  BY <1>1 DEF RequestType
<1>3. req' = [req EXCEPT ![r] = q]
  BY <1>1 DEF FetchJwks, RequestType
<1> HIDE DEF q
<1>4. AnswerFresh(q)
  <2>1. \A k \in JwkSet(newest) : gone[k] = 0
    BY <1>1 DEF JwkSet, AuthInv, PublishedNow
  <2>2. q.age \in Nat
    BY <1>2, AuthAssumption DEF RequestType
  <2> QED BY <1>2, <2>1, <2>2 DEF AnswerFresh
<1>5. RequestInv(q)
  BY <1>1, <1>2, <1>4 DEF FetchJwks, RequestInv, Judged, PassedEntitled, Behind, TrulyUnknown
<1> QED BY <1>1, <1>3, <1>5, RequestStep DEF FetchJwks

\* StoreJwks keeps AuthInv.
LEMMA StoreJwksAuth ==
    ASSUME AuthInv, NEW r \in Requests, StoreJwks(r) PROVE AuthInv'
<1> DEFINE q == req[r]
<1>1. /\ req \in [Requests -> RequestType] /\ q \in RequestType /\ RequestInv(q)
      /\ newest \in Kids /\ newest \in Nat /\ faults \in 0..MaxFaults
  BY RequestFacts
<1>2. /\ q.at = "answer" /\ q.call \in Calls /\ q.kid \in Kids /\ q.kid <= newest
      /\ q.set \in Kids /\ q.set <= newest /\ q.kid <= q.set /\ q.age \in 0..Latency
      /\ Checked(q.call) /\ q.call.header = "ok" /\ q.result = "none"
      /\ \A k \in JwkSet(q.set) : gone[k] <= q.age
  BY <1>1 DEF StoreJwks, RequestType, RequestInv, Judged, Behind, AnswerFresh
<1>3. cache' \in [set : Kids \cup {NoSet}, age : 0..layer.cache_ttl] /\ CacheFresh'
  <2>1. SoundLayer(layer)
    BY LayersSound DEF AuthInv, TypeOK
  <2>2. cache' = [set |-> q.set, age |-> 0] /\ gone' = gone
    BY DEF StoreJwks
  <2>3. gone \in [Kids -> Int]
    BY AuthAssumption, <2>1 DEF AuthInv, TypeOK, MaxGone, SoundLayer
  <2>4. \A k \in JwkSet(q.set) : gone[k] <= 0 + Latency
    BY <1>2, <2>3, AuthAssumption DEF JwkSet
  <2> QED BY <1>2, <2>1, <2>2, <2>4 DEF CacheFresh, SoundLayer, JwkSet
<1>4. req' = [req EXCEPT ![r] = Refreshed(r)]
  BY DEF StoreJwks
<1>5. RequestInv(Refreshed(r))
  <2>1. CASE q.kid \in JwkSet(q.set)
    BY <1>2, <2>1, AuthorizeRight DEF Refreshed
  <2>2. CASE q.kid \notin JwkSet(q.set) /\ ~q.forced
    <3> DEFINE again == [q EXCEPT !.at = "fetch", !.set = NoSet, !.age = 0, !.forced = TRUE]
    <3>1. /\ again \in RequestType /\ again.at = "fetch" /\ again.call = q.call
          /\ again.kid = q.kid /\ again.result = q.result
      <4> HIDE DEF q
      <4>1. 0 \in 0..Latency
        BY AuthAssumption
      <4> QED BY <1>1, <4>1 DEF RequestType
    <3>2. Refreshed(r) = again
      BY <2>2 DEF Refreshed
    <3> HIDE DEF again, q
    <3>3. RequestInv(again)
      BY <1>2, <3>1 DEF RequestInv, Judged, PassedEntitled, Behind, AnswerFresh, TrulyUnknown
    <3> QED BY <3>2, <3>3
  <2>3. CASE q.kid \notin JwkSet(q.set) /\ q.forced
    <3>1. q.kid \notin JwkSet(newest)
      <4> HIDE DEF q
      <4>1. q.kid \in Nat /\ q.set \in Nat
        BY <1>2, KidsAreNat
      <4>2. q.kid < q.set - 1
        BY <1>2, <2>3, <4>1 DEF JwkSet
      <4>3. q.kid < newest - 1
        BY <1>1, <1>2, <4>1, <4>2
      <4> QED BY <1>1, <4>1, <4>3 DEF JwkSet
    <3> QED BY <1>2, <2>3, <3>1, ConcludeRight DEF Refreshed
  <2> QED BY <2>1, <2>2, <2>3
<1> QED BY <1>1, <1>3, <1>4, <1>5, RequestStep DEF StoreJwks

\* FetchFails keeps AuthInv.
LEMMA FetchFailsAuth ==
    ASSUME AuthInv, NEW r \in Requests, FetchFails(r) PROVE AuthInv'
<1>1. /\ req[r] \in RequestType /\ RequestInv(req[r]) /\ faults \in 0..MaxFaults
  BY RequestFacts
<1>2. req[r].call \in Calls /\ req[r].kid \in Kids /\ req[r].kid <= newest
  BY <1>1 DEF RequestType, RequestInv, Behind
<1>3. RequestInv(Conclude(req[r], "refused"))
  BY <1>2, ConcludeRight
<1>4. faults' \in 0..MaxFaults
  BY <1>1, AuthAssumption DEF FetchFails
<1> QED BY <1>3, <1>4, RequestStep DEF FetchFails

\* Handle keeps AuthInv.
LEMMA HandleAuth ==
    ASSUME AuthInv, NEW r \in Requests, Handle(r) PROVE AuthInv'
<1> DEFINE q == [req[r] EXCEPT !.at = "idle"]
<1>1. /\ req \in [Requests -> RequestType] /\ req[r] \in RequestType /\ RequestInv(req[r])
      /\ faults \in 0..MaxFaults
  BY RequestFacts
<1>2. /\ q \in RequestType /\ q.at = "idle" /\ q.call = req[r].call
      /\ q.kid = req[r].kid /\ q.result = req[r].result
  BY <1>1 DEF RequestType
<1>3. req' = [req EXCEPT ![r] = q]
  BY <1>1 DEF Handle, RequestType
<1> HIDE DEF q
<1>4. RequestInv(q)
  BY <1>1, <1>2 DEF RequestInv, Judged, PassedEntitled, Behind, AnswerFresh, TrulyUnknown
<1> QED BY <1>1, <1>3, <1>4, RequestStep DEF Handle

\* RotateIdpKey keeps AuthInv.
LEMMA RotateAuth == ASSUME AuthInv, RotateIdpKey PROVE AuthInv'
<1>1. newest \in Nat /\ newest' = newest + 1 /\ newest' \in Kids
  BY KidsAreNat, AuthAssumption DEF AuthInv, TypeOK, RotateIdpKey, Kids
<1>2. TypeOK'
  BY <1>1 DEF AuthInv, TypeOK, RotateIdpKey, MaxGone
<1>3. PublishedNow'
  BY <1>1, KidsAreNat DEF AuthInv, PublishedNow, RotateIdpKey
<1>4. CacheFresh'
  BY DEF AuthInv, CacheFresh, RotateIdpKey
<1>5. ASSUME NEW r \in Requests PROVE RequestInv(req[r])'
  <2>1. RequestInv(req[r])
    BY DEF AuthInv
  <2>2. req' = req /\ layer' = layer /\ gone' = gone
    BY DEF RotateIdpKey
  <2>3. Behind(req[r])' /\ TrulyUnknown(req[r])'
    <3>1. req[r].kid \in Kids /\ req[r].kid \in Nat /\ req[r].kid <= newest
      BY <2>1, KidsAreNat DEF RequestInv, RequestType, Behind
    <3>2. req[r].set \in Kids => req[r].set \in Nat
      BY KidsAreNat
    <3>3. Behind(req[r])'
      BY <1>1, <2>1, <2>2, <3>1, <3>2 DEF RequestInv, Behind
    <3>4. req[r].kid \notin JwkSet(newest) => req[r].kid \notin JwkSet(newest + 1)
      BY <1>1, <3>1 DEF JwkSet
    <3>5. TrulyUnknown(req[r])'
      <4>1. JwkSet(newest)' = JwkSet(newest + 1)
        BY <1>1 DEF JwkSet
      <4> QED BY <2>1, <2>2, <3>4, <4>1 DEF RequestInv, TrulyUnknown
    <3> QED BY <3>3, <3>5
  <2> QED BY <2>1, <2>2, <2>3 DEF RequestInv, Judged, PassedEntitled, AnswerFresh, Checked, Entitled
<1> QED BY <1>2, <1>3, <1>4, <1>5 DEF AuthInv

\* Tick keeps AuthInv.
LEMMA TickAuth == ASSUME AuthInv, Tick PROVE AuthInv'
<1>1. SoundLayer(layer)
  BY LayersSound DEF AuthInv, TypeOK
<1>2. layer.cache_ttl \in Nat /\ Latency \in Nat /\ MaxGone \in Nat /\ newest \in Nat
  BY <1>1, AuthAssumption, KidsAreNat DEF SoundLayer, MaxGone, AuthInv, TypeOK
<1>3. /\ gone \in [Kids -> 0..MaxGone] /\ req \in [Requests -> RequestType]
      /\ cache \in [set : Kids \cup {NoSet}, age : 0..layer.cache_ttl]
  BY DEF AuthInv, TypeOK, RequestType
<1>4. \A k \in Kids : /\ gone'[k] \in 0..MaxGone /\ gone'[k] <= gone[k] + 1
                      /\ k >= newest - 1 => gone'[k] = 0
  <2> SUFFICES ASSUME NEW k \in Kids
               PROVE  /\ gone'[k] \in 0..MaxGone /\ gone'[k] <= gone[k] + 1
                      /\ k >= newest - 1 => gone'[k] = 0
    OBVIOUS
  <2>1. gone'[k] = IF k < newest - 1 THEN Min({gone[k] + 1, MaxGone}) ELSE 0
    BY DEF Tick
  <2>2. gone[k] \in Nat /\ k \in Nat
    BY <1>2, <1>3, KidsAreNat
  <2>3. /\ Min({gone[k] + 1, MaxGone}) \in Nat /\ Min({gone[k] + 1, MaxGone}) <= gone[k] + 1
        /\ Min({gone[k] + 1, MaxGone}) <= MaxGone
    BY <1>2, <2>2, MinOfPair
  <2> QED BY <1>2, <2>1, <2>2, <2>3
<1>5. gone' \in [Kids -> 0..MaxGone]
  BY <1>4 DEF Tick
<1>6. /\ cache' \in [set : Kids \cup {NoSet}, age : 0..layer.cache_ttl]
      /\ cache'.set = cache.set
      /\ cache.set # NoSet => cache'.age = cache.age + 1 \/ cache'.age = layer.cache_ttl
  <2>1. /\ Min({cache.age + 1, layer.cache_ttl}) \in Nat
        /\ Min({cache.age + 1, layer.cache_ttl}) <= layer.cache_ttl
        /\ Min({cache.age + 1, layer.cache_ttl}) \in {cache.age + 1, layer.cache_ttl}
    BY <1>2, <1>3, MinOfPair
  <2> QED BY <1>2, <1>3, <2>1 DEF Tick
<1>7. CacheFresh'
  <2> SUFFICES ASSUME cache.set # NoSet, NEW k \in JwkSet(cache.set)
               PROVE  gone'[k] <= cache'.age + Latency
    BY <1>6 DEF CacheFresh, JwkSet
  <2>1. k \in Kids /\ gone[k] <= cache.age + Latency
    BY DEF AuthInv, CacheFresh, JwkSet
  <2>2. gone[k] \in Nat /\ cache.age \in Nat /\ gone'[k] \in 0..MaxGone /\ gone'[k] <= gone[k] + 1
    BY <1>2, <1>3, <1>4, <2>1
  <2>3. CASE cache'.age = cache.age + 1
    BY <1>2, <2>1, <2>2, <2>3
  <2>4. CASE cache'.age = layer.cache_ttl
    BY <1>2, <2>2, <2>4 DEF MaxGone
  <2> QED BY <1>6, <2>3, <2>4
<1>8. PublishedNow'
  BY <1>4 DEF PublishedNow, Tick
<1>9. ASSUME NEW r \in Requests PROVE RequestInv(req[r])'
  <2> DEFINE q == req[r]
  <2>1. RequestInv(q) /\ q \in RequestType
    BY <1>3 DEF AuthInv
  <2>2. /\ req'[r] \in RequestType /\ req'[r].at = q.at /\ req'[r].call = q.call
        /\ req'[r].kid = q.kid /\ req'[r].set = q.set /\ req'[r].result = q.result
        /\ q.at = "answer" => req'[r].age = q.age + 1
    <3>1. CASE q.at \in {"fetch", "answer"}
      <4>1. req'[r] = [q EXCEPT !.age = @ + 1] /\ q.age < Latency
        BY <3>1 DEF Tick
      <4> QED BY <1>2, <2>1, <4>1 DEF RequestType
    <3>2. CASE q.at \notin {"fetch", "answer"}
      BY <2>1, <3>2 DEF Tick
    <3> QED BY <3>1, <3>2
  <2>3. AnswerFresh(req[r])'
    <3> SUFFICES ASSUME q.at = "answer", NEW k \in JwkSet(q.set)
                 PROVE  gone'[k] <= q.age + 1
      BY <2>2 DEF AnswerFresh, JwkSet
    <3>1. k \in Kids /\ gone[k] <= q.age /\ q.age \in Nat
      BY <2>1, <1>2 DEF RequestInv, AnswerFresh, JwkSet, RequestType
    <3> QED BY <1>2, <1>3, <1>4, <3>1
  <2>4. layer' = layer /\ newest' = newest
    BY DEF Tick
  <2> HIDE DEF q
  <2> QED BY <2>1, <2>2, <2>3, <2>4
        DEF RequestInv, RequestType, Judged, PassedEntitled, Behind, TrulyUnknown, Checked, Entitled, JwkSet
<1>10. req' \in [Requests -> RequestType]
  <2>1. \A r \in Requests : req'[r] \in RequestType
    BY <1>9 DEF RequestInv, RequestType
  <2> QED BY <2>1 DEF Tick
<1>11. TypeOK'
  <2>1. layer' = layer /\ newest' = newest /\ faults' = faults
    BY DEF Tick
  <2> QED BY <1>5, <1>6, <1>10, <2>1 DEF AuthInv, TypeOK, RequestType, MaxGone
<1> QED BY <1>7, <1>8, <1>9, <1>11 DEF AuthInv

\* Every step keeps AuthInv.
LEMMA NextAuth == AuthInv /\ [Next]_vars => AuthInv'
<1> SUFFICES ASSUME AuthInv, [Next]_vars PROVE AuthInv'
  OBVIOUS
<1>1. ASSUME NEW r \in Requests, Arrive(r) PROVE AuthInv'
  BY <1>1, ArriveAuth
<1>2. ASSUME NEW r \in Requests, ArriveAgain(r) PROVE AuthInv'
  BY <1>2, ArriveAgainAuth
<1>3. ASSUME NEW r \in Requests, FetchJwks(r) PROVE AuthInv'
  BY <1>3, FetchJwksAuth
<1>4. ASSUME NEW r \in Requests, StoreJwks(r) PROVE AuthInv'
  BY <1>4, StoreJwksAuth
<1>5. ASSUME NEW r \in Requests, FetchFails(r) PROVE AuthInv'
  BY <1>5, FetchFailsAuth
<1>6. ASSUME NEW r \in Requests, Handle(r) PROVE AuthInv'
  BY <1>6, HandleAuth
<1>7. CASE RotateIdpKey
  BY <1>7, RotateAuth
<1>8. CASE Tick
  BY <1>8, TickAuth
<1>9. CASE UNCHANGED vars
  BY <1>9 DEF vars, AuthInv, TypeOK, MaxGone, PublishedNow, CacheFresh, RequestInv, Judged,
              PassedEntitled, Behind, AnswerFresh, TrulyUnknown, Checked, Entitled
<1> QED BY <1>1, <1>2, <1>3, <1>4, <1>5, <1>6, <1>7, <1>8, <1>9 DEF Next

-----------------------------------------------------------------------------
(* Theorems *)

\* The inductive invariant holds in every reachable state.
THEOREM AuthInvariant == Spec => []AuthInv
  BY InitAuth, NextAuth, PTL DEF Spec

\* Layer, cache, requests and the identity provider always have their types.
THEOREM AuthTypeCorrect == Spec => []TypeOK
<1>1. AuthInv => TypeOK
  BY DEF AuthInv
<1> QED BY <1>1, AuthInvariant, PTL

\* A request that verify_jwt refuses for an unknown kid holds a key that is no longer
\* published: no order in which concurrent fetches store their sets refuses a live key.
THEOREM UnknownIsUnpublished == Spec => []NoFalseUnknownKid
<1>1. AuthInv => NoFalseUnknownKid
  BY DEF AuthInv, NoFalseUnknownKid, RequestInv, TrulyUnknown
<1> QED BY <1>1, AuthInvariant, PTL

\* Whoever reaches a handler of an enabled layer is entitled to.
THEOREM HandlersGuarded == Spec => []AcceptedIsEntitled
<1>1. AuthInv => AcceptedIsEntitled
  BY DEF AuthInv, AcceptedIsEntitled, RequestInv, Judged, PassedEntitled, Entitled
<1> QED BY <1>1, AuthInvariant, PTL

\* No step lets a request with a retired key reach its handler later than a fetch and
\* the life of a cache entry after the retirement.
THEOREM RetiredKeysExpire == Spec => RetiredKeyExpires
<1> DEFINE Accepts ==
      \A r \in Requests :
          req[r].at # "handler" /\ req'[r].at = "handler" /\ Checked(req'[r].call)
              => gone[req'[r].kid] < layer.cache_ttl + Latency
<1>1. ASSUME AuthInv, [Next]_vars PROVE [Accepts]_vars
  <2> SUFFICES ASSUME NEW r \in Requests, req[r].at # "handler", req'[r].at = "handler",
                      Checked(req'[r].call), Next
               PROVE  gone[req'[r].kid] < layer.cache_ttl + Latency
    BY <1>1
  <2>1. SoundLayer(layer) /\ layer.mode = "enabled"
    BY <1>1, LayersSound DEF AuthInv, TypeOK, Checked
  <2>2. layer.cache_ttl \in Nat \ {0} /\ Latency \in Nat \ {0}
    BY <2>1, AuthAssumption DEF SoundLayer
  <2>3. gone \in [Kids -> Nat] /\ req \in [Requests -> RequestType] /\ newest \in Kids
        /\ RequestInv(req[r]) /\ cache.age \in Nat
    BY <1>1, <2>2 DEF AuthInv, TypeOK, RequestType, MaxGone
  <2>4. ASSUME NEW s \in Requests, s # r,
               Arrive(s) \/ ArriveAgain(s) \/ FetchJwks(s) \/ StoreJwks(s) \/ FetchFails(s) \/ Handle(s)
        PROVE  FALSE
    <3>1. req'[r] = req[r]
      BY <2>3, <2>4 DEF Arrive, ArriveAgain, FetchJwks, StoreJwks, FetchFails, Handle
    <3> QED BY <3>1
  <2>5. ASSUME NEW q, req' = [req EXCEPT ![r] = q] PROVE req'[r] = q
    BY <2>3, <2>5
  <2>6. ASSUME NEW q, q.call \in Calls, q.kid \in Kids, NEW result \in {"passed", "refused", "unknown_kid"},
               req'[r] = Conclude(q, result)
        PROVE  req'[r].kid = q.kid
    BY <2>6, ConcludeShape
  <2>7. CASE Arrive(r)
    <3>1. PICK call \in Calls :
            LET request == [Idle EXCEPT !.call = call, !.kid = newest] IN
            req'[r] =
                IF ~Checked(call) THEN Conclude(request, "passed")
                ELSE IF call.header # "ok" THEN Conclude(request, "refused")
                ELSE IF Cached /\ request.kid \in JwkSet(cache.set)
                     THEN Conclude(request, Authorize(call))
                ELSE [request EXCEPT !.at = "fetch", !.forced = Cached]
      BY <2>3, <2>7 DEF Arrive
    <3> DEFINE request == [Idle EXCEPT !.call = call, !.kid = newest]
               asked == [request EXCEPT !.at = "fetch", !.forced = Cached]
    <3>2. request.call = call /\ request.kid = newest /\ asked.at = "fetch"
      BY <2>3, IdleShape DEF RequestType
    <3>3. \E result \in {"passed", "refused"} : req'[r] = Conclude(request, result)
      <4>1. Authorize(call) \in {"passed", "refused"}
        BY DEF Authorize
      <4> HIDE DEF request, asked
      <4>2. \/ \E result \in {"passed", "refused"} : req'[r] = Conclude(request, result)
            \/ req'[r] = asked
        BY <3>1, <4>1 DEF request, asked
      <4> QED BY <3>2, <4>2
    <3> HIDE DEF request, asked
    <3>4. req'[r].kid = newest
      BY <2>3, <2>6, <3>2, <3>3
    <3>5. gone[newest] = 0
      BY <1>1, <2>3, KidsAreNat DEF AuthInv, PublishedNow
    <3> QED BY <2>2, <3>4, <3>5
  <2>8. CASE ArriveAgain(r)
    <3>1. req[r].call \in Calls /\ req[r].kid \in Kids
      BY <2>3 DEF RequestType
    <3>2. Cached /\ req[r].kid \in JwkSet(cache.set)
          /\ req'[r] = Conclude(req[r], Authorize(req[r].call))
      <4> DEFINE asked == [req[r] EXCEPT !.at = "fetch", !.forced = Cached, !.result = "none"]
      <4>1. asked.at = "fetch"
        BY <2>3 DEF RequestType
      <4> HIDE DEF asked
      <4>2. req'[r] = IF Cached /\ req[r].kid \in JwkSet(cache.set)
                      THEN Conclude(req[r], Authorize(req[r].call)) ELSE asked
        BY <2>3, <2>8 DEF ArriveAgain, asked
      <4> QED BY <4>1, <4>2
    <3>3. Authorize(req[r].call) \in {"passed", "refused"}
      BY DEF Authorize
    <3>4. req'[r].kid = req[r].kid
      BY <2>6, <3>1, <3>2, <3>3
    <3>5. gone[req[r].kid] <= cache.age + Latency /\ cache.age < layer.cache_ttl
      BY <1>1, <3>2 DEF AuthInv, CacheFresh, Cached
    <3>6. gone[req[r].kid] \in Nat
      BY <2>3, <3>1
    <3> QED BY <2>2, <2>3, <3>4, <3>5, <3>6
  <2>9. CASE StoreJwks(r)
    <3> DEFINE q == req[r]
    <3>1. /\ q.at = "answer" /\ q.call \in Calls /\ q.kid \in Kids /\ q.age \in 0..Latency
          /\ \A k \in JwkSet(q.set) : gone[k] <= q.age
      BY <2>3, <2>9 DEF StoreJwks, RequestType, RequestInv, AnswerFresh
    <3>2. req'[r] = Refreshed(r)
      BY <2>3, <2>9 DEF StoreJwks
    <3>3. q.kid \in JwkSet(q.set) /\ req'[r] = Conclude(q, Authorize(q.call))
      <4> DEFINE again == [q EXCEPT !.at = "fetch", !.set = NoSet, !.age = 0, !.forced = TRUE]
      <4>1. again.at = "fetch"
        BY <2>3 DEF RequestType
      <4>2. Conclude(q, "unknown_kid").at = "idle"
        BY <3>1, ConcludeShape
      <4> HIDE DEF again
      <4>3. req'[r] = IF q.kid \in JwkSet(q.set) THEN Conclude(q, Authorize(q.call))
                      ELSE IF ~q.forced THEN again ELSE Conclude(q, "unknown_kid")
        BY <3>2 DEF Refreshed, again
      <4> QED BY <4>1, <4>2, <4>3
    <3>4. Authorize(q.call) \in {"passed", "refused"}
      BY DEF Authorize
    <3>5. req'[r].kid = q.kid
      BY <2>6, <3>1, <3>3, <3>4
    <3>6. gone[q.kid] \in Nat /\ gone[q.kid] <= q.age
      BY <2>3, <3>1, <3>3
    <3> QED BY <2>2, <3>1, <3>5, <3>6
  <2>10. CASE FetchJwks(r) \/ FetchFails(r) \/ Handle(r)
    <3>1. ASSUME FetchJwks(r) PROVE FALSE
      BY <2>3, <3>1 DEF FetchJwks, RequestType
    <3>2. ASSUME Handle(r) PROVE FALSE
      BY <2>3, <3>2 DEF Handle, RequestType
    <3>3. ASSUME FetchFails(r) PROVE FALSE
      <4>1. req'[r] = Conclude(req[r], "refused")
        BY <2>3, <3>3 DEF FetchFails
      <4>2. req[r].call \in Calls /\ req[r].kid \in Kids
        BY <2>3 DEF RequestType
      <4> QED BY <4>1, <4>2, ConcludeShape
    <3> QED BY <2>10, <3>1, <3>2, <3>3
  <2>11. CASE RotateIdpKey
    BY <2>11 DEF RotateIdpKey
  <2>12. CASE Tick
    <3>1. req'[r].at = req[r].at
      BY <2>3, <2>12 DEF Tick, RequestType
    <3> QED BY <3>1
  <2> QED BY <2>4, <2>7, <2>8, <2>9, <2>10, <2>11, <2>12 DEF Next
<1>2. Spec => [][Accepts]_vars
  BY <1>1, AuthInvariant, PTL DEF Spec
<1> QED BY <1>2 DEF RetiredKeyExpires

=============================================================================
