------------------------------ MODULE S3Proxy ------------------------------
(***************************************************************************)
(* S3Proxy (facet-proxy/src/s3/mod.rs) and its operation parser               *)
(* (facet-proxy/src/s3/opparser.rs), with requests under way while the rules    *)
(* they are checked against change.                                           *)
(*                                                                         *)
(* Pingora, which is external, calls upstream_peer and upstream_request_filter *)
(* for every attempt: an attempt on a reused connection that fails before the   *)
(* upstream answered is made again, from the client's request and with the      *)
(* same context.  verify_token and evaluate are the awaits of the filter; the   *)
(* code after evaluate runs to the end of the filter.                          *)
(***************************************************************************)
EXTENDS AuthorizationRules, SequencesExt

CONSTANTS Requests,
          Http,          \* requests a client may send
          resolve(_),    \* ParticipantContextResolver: a participant, or NoParticipant
          url_path(_),   \* the path Url::parse makes of a path: dot segments are resolved
          proxy_domain,  \* the domain buckets are stripped from, or "" for none
          Styles,        \* UpstreamStyles configured
          Endpoints,     \* upstream endpoints parse_endpoint may meet: "valid", "invalid port"
          MaxRetries,    \* bound: attempts pingora makes again
          NoParticipant, NoToken, NoHost

ASSUME ProxyAssumption ==
    /\ MaxRetries \in Nat
    /\ Styles \subseteq {"path", "virtual"}   \* UpstreamStyle
    /\ NoParticipant \notin Participants

\* A request has a path that starts with a slash, and its participant, if there is one, is
\* one that rules are kept for.
ASSUME HttpAssumption ==
    \A h \in Http :
        /\ h.path \in Seq(STRING) /\ Len(h.path) >= 2 /\ h.path[1] = Empty
        /\ h.query \in Seq(STRING)
        /\ h.host # NoHost => h.host \in [label : STRING, domain : STRING]
        /\ resolve(h.path) \in Participants \cup {NoParticipant}

VARIABLES upstream_style, endpoint,
          phase,         \* phase[q]: how far the request is
          http,          \* http[q]: session.req_header()
          ctx,           \* ctx[q]: S3ProxyContext
          peer,          \* peer[q]: host connected to
          upstream,      \* upstream[q]: the request built for the upstream
          answer,        \* answer[q]: status of the error answered, 0 for none
          retries        \* retries[q]

proxyVars == <<upstream_style, endpoint, phase, http, ctx, peer, upstream, answer, retries>>
vars == <<ruleVars, proxyVars>>

-----------------------------------------------------------------------------
(* Addresses: "" is <<"">>, and host.label is what precedes the domain *)

\* trim_start_matches('/')
Trimmed(path) ==
    LET i == SelectInSeq(path, LAMBDA part : part # Empty)
    IN  IF i = 0 THEN <<Empty>> ELSE SubSeq(path, i, Len(path))

Unparsed == [bucket |-> Empty, key |-> <<Empty>>]

extract_bucket_from_host(host) ==
    IF proxy_domain # Empty /\ host.domain = proxy_domain THEN host.label ELSE Empty

\* Mutant: the bucket is all but the last part.
try_parse_path_style_LastSlash(path) ==
    LET parts == Trimmed(path)
    IN  [bucket |-> Head(parts), key |-> IF Len(parts) = 1 THEN <<Empty>> ELSE <<Last(parts)>>]

try_parse_path_style(path) ==
    LET parts == Trimmed(path)
    IN  [bucket |-> Head(parts), key |-> IF Len(parts) = 1 THEN <<Empty>> ELSE Tail(parts)]

parse_incoming_request(host, path) ==
    IF extract_bucket_from_host(host) # Empty
    THEN [bucket |-> extract_bucket_from_host(host), key |-> Trimmed(path)]
    ELSE try_parse_path_style(path)

\* The host connected to: bucket "" for the endpoint itself.
build_upstream_host(parsed) == IF upstream_style = "path" THEN Empty ELSE parsed.bucket

\* The request line and the Host header, which are built apart from the connection.
build_upstream_uri_and_host(parsed) ==
    IF upstream_style = "path"
    THEN [uri |-> <<Empty, parsed.bucket>> \o (IF parsed.key = <<Empty>> THEN <<>> ELSE parsed.key),
          host |-> Empty]
    ELSE [uri |-> <<Empty>> \o parsed.key, host |-> parsed.bucket]

-----------------------------------------------------------------------------
(* Operations *)

\* S3Resources: the expressions rules are usually made with.  Nothing is escaped.
exact_match(file) == [from |-> <<Empty>> \o file, open |-> FALSE]
all_objects_in_bucket(bucket) == [from |-> <<Empty, bucket>>, open |-> TRUE]

Reads == [acl |-> "GetObjectAcl", tagging |-> "GetObjectTagging", torrent |-> "GetObjectTorrent",
          legalhold |-> "GetObjectLegalHold", retention |-> "GetObjectRetention",
          versionId |-> "GetObjectVersion",
          listtype |-> "ListBucket", versions |-> "ListBucketVersions",
          uploads |-> "ListBucketMultipartUploads", location |-> "GetBucketLocation"]
Writes == [acl |-> "PutObjectAcl", tagging |-> "PutObjectTagging",
           legalhold |-> "PutObjectLegalHold", retention |-> "PutObjectRetention",
           restore |-> "RestoreObject"]

\* The arms on method and query parameter.
ByParameter(method) ==
    CASE method = "GET" -> Reads
      [] method = "PUT" -> Writes
      [] method = "POST" -> [delete |-> "DeleteObject"]
      [] OTHER -> <<>>

is_bucket_operation(query) ==
    Range(query) \cap {"listtype", "versions", "delete", "uploads", "location"} # {}

ByMethod(method, bucketOp) ==
    CASE method = "GET" -> IF bucketOp THEN "ListBucket" ELSE "GetObject"
      [] method = "HEAD" -> "GetObject"
      [] method \in {"PUT", "POST"} -> "PutObject"
      [] method = "DELETE" -> "DeleteObject"
      [] OTHER -> "other"

parse_action(method, query) ==
    LET i == SelectInSeq(query, LAMBDA k : k \in DOMAIN ByParameter(method))
    IN  IF i # 0 THEN ByParameter(method)[query[i]]
        ELSE ByMethod(method, is_bucket_operation(query))

\* The resource is the path of the parsed URL, not the path that is sent on.
parse_operation(scope, h) ==
    [scope |-> scope, action |-> parse_action(h.method, h.query), resource |-> url_path(h.path)]

-----------------------------------------------------------------------------
NewContext == [participant |-> "anonymous", parsed |-> Unparsed, scope |-> Empty]
NotSent == [uri |-> <<>>, host |-> Empty, token |-> NoToken, signedFor |-> NoParticipant]

Init ==
    /\ RulesInit
    /\ upstream_style \in Styles
    /\ endpoint \in Endpoints
    /\ phase = [q \in Requests |-> "none"]
    /\ http \in [Requests -> Http]
    /\ ctx = [q \in Requests |-> NewContext]
    /\ peer = [q \in Requests |-> Empty]
    /\ upstream = [q \in Requests |-> NotSent]
    /\ answer = [q \in Requests |-> 0]
    /\ retries = [q \in Requests |-> 0]

configVars == <<upstream_style, endpoint>>

Arrive(q) ==
    /\ phase[q] = "none"
    /\ phase' = [phase EXCEPT ![q] = "received"]
    /\ UNCHANGED <<configVars, http, ctx, peer, upstream, answer, retries, ruleVars>>

\* client_error and internal_error: pingora answers and drops the attempt.
Refuse(q, status) ==
    /\ phase' = [phase EXCEPT ![q] = "answered"]
    /\ answer' = [answer EXCEPT ![q] = status]
    /\ UNCHANGED <<configVars, http, peer, upstream, retries, ruleVars>>

\* An error of upstream_peer, after the context was resolved or before.
PeerFails(q) ==
    LET h == http[q]
    IN  /\ phase[q] = "received"
        /\ \/ h.host = NoHost /\ UNCHANGED ctx /\ Refuse(q, 400)
           \/ h.host # NoHost /\ resolve(h.path) = NoParticipant /\ UNCHANGED ctx /\ Refuse(q, 500)
           \/ /\ h.host # NoHost /\ resolve(h.path) # NoParticipant
              /\ ctx' = [ctx EXCEPT ![q].participant = resolve(h.path)]
              /\ \/ parse_incoming_request(h.host, h.path).bucket = Empty /\ Refuse(q, 400)
                 \/ /\ parse_incoming_request(h.host, h.path).bucket # Empty
                    /\ endpoint = "invalid port"
                    /\ Refuse(q, 500)

UpstreamPeer(q) ==
    LET h == http[q]
        parsed == parse_incoming_request(h.host, h.path)
    IN  /\ phase[q] = "received"
        /\ h.host # NoHost /\ resolve(h.path) # NoParticipant
        /\ parsed.bucket # Empty /\ endpoint # "invalid port"
        /\ ctx' = [ctx EXCEPT ![q].participant = resolve(h.path), ![q].parsed = parsed]
        /\ peer' = [peer EXCEPT ![q] = build_upstream_host(parsed)]
        /\ phase' = [phase EXCEPT ![q] = "connected"]
        /\ UNCHANGED <<configVars, http, upstream, answer, retries, ruleVars>>

\* upstream_request_filter up to the verification: the upstream request starts as the
\* client's and gets its URI, which has no query, and its Host.
RewriteRequest(q) ==
    /\ phase[q] = "connected" /\ http[q].token # NoToken
    /\ upstream' = [upstream EXCEPT ![q] =
                       [uri |-> build_upstream_uri_and_host(ctx[q].parsed).uri,
                        host |-> build_upstream_uri_and_host(ctx[q].parsed).host,
                        token |-> http[q].token, signedFor |-> NoParticipant]]
    /\ phase' = [phase EXCEPT ![q] = "verifying"]
    /\ UNCHANGED <<configVars, http, ctx, peer, answer, retries, ruleVars>>

TokenMissing(q) ==
    phase[q] = "connected" /\ http[q].token = NoToken /\ UNCHANGED ctx /\ Refuse(q, 400)

\* verify_token checks the audience of the participant; the scope is a claim.
VerifyToken(q) ==
    /\ phase[q] = "verifying"
    /\ \/ /\ http[q].token.audience = ctx[q].participant /\ http[q].token.scope # Empty
          /\ ctx' = [ctx EXCEPT ![q].scope = http[q].token.scope]
          /\ phase' = [phase EXCEPT ![q] = "verified"]
          /\ UNCHANGED <<configVars, http, peer, upstream, answer, retries, ruleVars>>
       \/ /\ http[q].token.audience # ctx[q].participant \/ http[q].token.scope = Empty
          /\ UNCHANGED ctx /\ Refuse(q, 403)

Operation(q) == parse_operation(ctx[q].scope, http[q])

\* Authorized: the token is removed, the request signed and sent.
Forward(q) ==
    /\ phase[q] = "verified" /\ evaluate(ctx[q].participant, Operation(q))
    /\ upstream' = [upstream EXCEPT ![q].token = NoToken, ![q].signedFor = ctx[q].participant]
    /\ phase' = [phase EXCEPT ![q] = "forwarded"]
    /\ UNCHANGED <<configVars, http, ctx, peer, answer, retries, ruleVars>>

Unauthorized(q) ==
    /\ phase[q] = "verified" /\ ~evaluate(ctx[q].participant, Operation(q))
    /\ UNCHANGED ctx /\ Refuse(q, 403)

\* The URL cannot be parsed, or the store, the credential resolver or the signing fails.
FilterFails(q) == phase[q] = "verified" /\ UNCHANGED ctx /\ Refuse(q, 500)

\* The reused connection was closed by the upstream: pingora starts the attempt again.
Retry(q) ==
    /\ phase[q] = "forwarded" /\ retries[q] < MaxRetries
    /\ retries' = [retries EXCEPT ![q] = @ + 1]
    /\ phase' = [phase EXCEPT ![q] = "received"]
    /\ UNCHANGED <<configVars, http, ctx, peer, upstream, answer, ruleVars>>

Handle(q) == \/ PeerFails(q) \/ UpstreamPeer(q) \/ RewriteRequest(q) \/ TokenMissing(q)
             \/ VerifyToken(q) \/ Forward(q) \/ Unauthorized(q) \/ FilterFails(q)

Next == \/ RulesNext /\ UNCHANGED proxyVars
        \/ \E q \in Requests : Arrive(q) \/ Handle(q) \/ Retry(q)

Spec == Init /\ [][Next]_vars

-----------------------------------------------------------------------------
(* Properties *)

\* Phases, contexts and upstream requests fit together, and the rules are kept as
\* their store keeps them.
TypeOK ==
    /\ RulesTypeOK
    /\ \A q \in Requests :
        /\ phase[q] \in {"none", "received", "connected", "verifying", "verified", "forwarded", "answered"}
        /\ phase[q] \in {"connected", "verifying", "verified", "forwarded"}
               => ctx[q].participant \in Participants /\ ctx[q].parsed # Unparsed
        /\ (phase[q] = "answered") = (answer[q] # 0)
        /\ retries[q] \in 0..MaxRetries

\* How an S3 service reads a request with that addressing.
Reading(style, bucket, path) ==
    IF style = "virtual" THEN [bucket |-> bucket, key |-> Tail(path)]
    ELSE [bucket |-> path[2], key |-> IF Len(path) = 2 THEN <<Empty>> ELSE SubSeq(path, 3, Len(path))]

\* Whatever addressing the client and the upstream use, the upstream reads the bucket and
\* the key the client addressed, on the connection opened for that bucket, signed for the
\* participant of the request and without the client's token (build_upstream_uri_and_host
\* against parse_incoming_request, in two callbacks of pingora).  Paths that start with
\* more than one slash are left out: the proxy drops all of them.
ForwardedAsAddressed ==
    \A q \in Requests :
        LET bucket == extract_bucket_from_host(http[q].host)
        IN  phase[q] = "forwarded" =>
                /\ http[q].path[2] # Empty \/ Len(http[q].path) = 2 =>
                       Reading(upstream_style, upstream[q].host, upstream[q].uri)
                           = Reading(IF bucket = Empty THEN "path" ELSE "virtual", bucket, http[q].path)
                /\ upstream[q].host = peer[q]
                /\ upstream[q].signedFor = resolve(http[q].path)
                /\ upstream[q].token = NoToken

Requested(q) == parse_operation(http[q].token.scope, http[q])

\* A request for an object that is sent on as it was written: its bucket is in the path
\* and one slash precedes it, the path is its own normal form, and there is no query.
SentAsWritten(h) ==
    /\ extract_bucket_from_host(h.host) = Empty
    /\ h.path[2] # Empty /\ Len(h.path) > 2 /\ h.path # <<Empty, h.path[2], Empty>>
    /\ url_path(h.path) = h.path
    /\ h.query = <<>>

\* What the upstream does, under the same token, on the request built for it: an operation
\* on the object it reads from the request's host and URI, which has no query.
Performed(q) ==
    LET object == Reading(upstream_style, upstream[q].host, upstream[q].uri)
    IN  [scope |-> http[q].token.scope, action |-> ByMethod(http[q].method, FALSE),
         resource |-> <<Empty, object.bucket>> \o object.key]

\* A request is forwarded, on every attempt, only if a rule saved for its participant and
\* not removed since allows the operation the filter made of it, whichever store keeps the
\* rules (upstream_request_filter asks evaluate on each attempt).  If it is sent as it was
\* written, that rule allows what the upstream then does.  Of the others the rule speaks
\* of something else: the query, the dots and the host that decided are not sent.
ForwardedUnderRule ==
    [][\A q \in Requests :
          phase[q] # "forwarded" /\ phase'[q] = "forwarded" =>
              /\ Allow(maybe[resolve(http[q].path)], Requested(q))
              /\ SentAsWritten(http[q]) => Allow(maybe[resolve(http[q].path)], Performed(q))]_vars

\* A rule no later call was about lets its requests through: saving and removing other
\* rules, of other scopes, resources or participants, does not take it away.
RulesHonoured ==
    [][\A q \in Requests :
          phase[q] = "verified" /\ answer'[q] = 403
              => ~Allow(surely[resolve(http[q].path)], Requested(q))]_vars

=============================================================================
