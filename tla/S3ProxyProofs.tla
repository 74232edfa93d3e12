--------------------------- MODULE S3ProxyProofs ---------------------------
(***************************************************************************)
(* Proofs about S3Proxy for any requests, participants, rules and retries,   *)
(* over either rule store.                                                   *)
(***************************************************************************)
EXTENDS S3Proxy, SequenceTheorems, WellFoundedInduction, TLAPS

\* A rule as the configured store gives it back.
Kept(rule) == [rule EXCEPT !.actions = Stored(@)]

\* The rules stay between the two promises of the stores.
RulesBetween ==
    \A p \in Participants :
        /\ \A r \in rules[p] : \E m \in maybe[p] : r = Kept(m)
        /\ \A s \in surely[p] : Kept(s) \in rules[p]

RulesShaped ==
    /\ DOMAIN rules = Participants /\ DOMAIN surely = Participants
    /\ DOMAIN maybe = Participants

RulesInv == RulesTypeOK /\ RulesShaped /\ RulesBetween

\* Keeping a rule changes nothing but its actions, and gives an action only to a rule
\* that has none.
LEMMA KeptFacts ==
    ASSUME NEW rule \in RuleSet
    PROVE  /\ Kept(rule) = [scope |-> rule.scope, actions |-> Stored(rule.actions),
                            resource |-> rule.resource]
           /\ store # "postgres" => Kept(rule) = rule
<1>1. PICK s, a, r : rule = [scope |-> s, actions |-> a, resource |-> r]
  BY RuleSetAssumption
<1>2. Kept(rule) = [scope |-> s, actions |-> Stored(a), resource |-> r]
  BY <1>1 DEF Kept
<1>3. store # "postgres" => Stored(a) = a
  BY DEF Stored
<1> QED
  BY <1>1, <1>2, <1>3

\* Without rules the stores agree.
LEMMA RulesInitInv == RulesInit => RulesInv
BY RulesAssumption DEF RulesInit, RulesInv, RulesTypeOK, RulesShaped, RulesBetween

\* Saving and removing keep the rules between the promises.
LEMMA RulesNextInv ==
    ASSUME RulesInv, RulesNext
    PROVE  RulesInv'
<1> USE RulesAssumption
<1>1. store' = store /\ changes' \in 0..MaxChanges /\ store \in {"memory", "postgres"}
      /\ store \in Stores
  BY DEF RulesInv, RulesTypeOK, RulesNext, SaveRule, RemoveRule, RemoveRules
<1>2. \A x : Kept(x)' = Kept(x) /\ \A a : Stored(a)' = Stored(a)
  BY <1>1 DEF Kept, Stored
<1>3. PICK p \in Participants :
        \/ \E rule \in RuleSet : SaveRule(p, rule) \/ RemoveRule(p, rule)
        \/ RemoveRules(p)
  BY DEF RulesNext
<1>4. RulesShaped'
  BY <1>3 DEF RulesInv, RulesShaped, SaveRule, RemoveRule, RemoveRules
<1> DEFINE Fits(kept, sure, may) ==
             /\ sure \subseteq RuleSet /\ may \subseteq RuleSet
             /\ kept \subseteq {Kept(r) : r \in RuleSet}
             /\ store = "postgres" => \A r, s \in kept : SameKey(r, s) => r = s
             /\ \A r \in kept : \E m \in may : r = Kept(m)
             /\ \A s \in sure : Kept(s) \in kept
<1>5. \A x \in Participants : Fits(rules[x], surely[x], maybe[x])
  BY DEF RulesInv, RulesTypeOK, RulesBetween, Kept
<1>6. \A x \in Participants \ {p} :
        rules'[x] = rules[x] /\ surely'[x] = surely[x] /\ maybe'[x] = maybe[x]
  BY <1>3 DEF RulesInv, RulesShaped, SaveRule, RemoveRule, RemoveRules
<1>7. Fits(rules'[p], surely'[p], maybe'[p])
  <2>1. ASSUME NEW rule \in RuleSet, SaveRule(p, rule)
        PROVE  Fits(rules'[p], surely'[p], maybe'[p])
    <3>1. /\ rules'[p] = {r \in rules[p] : store = "memory" \/ ~SameKey(r, rule)} \cup {Kept(rule)}
          /\ surely'[p] = {r \in surely[p] : ~SameKey(r, rule)} \cup {rule}
          /\ maybe'[p] = maybe[p] \cup {rule}
      BY <2>1 DEF SaveRule, Saved, Kept, RulesInv, RulesShaped
    <3>2. \A s \in RuleSet : SameKey(Kept(s), rule) = SameKey(s, rule)
      BY KeptFacts DEF SameKey
    <3>3. \A r \in rules[p] : SameKey(r, Kept(rule)) = SameKey(r, rule)
                              /\ SameKey(Kept(rule), r) = SameKey(r, rule)
      BY KeptFacts DEF SameKey
    <3> HIDE DEF Kept, SameKey
    <3>4. /\ surely'[p] \subseteq RuleSet /\ maybe'[p] \subseteq RuleSet
          /\ rules'[p] \subseteq {Kept(r) : r \in RuleSet}
      BY <3>1, <1>5
    <3>5. ASSUME store = "postgres", NEW r \in rules'[p], NEW s \in rules'[p], SameKey(r, s)
          PROVE  r = s
      BY <3>1, <3>3, <3>5, <1>5
    <3>6. \A r \in rules'[p] : \E m \in maybe'[p] : r = Kept(m)
      BY <3>1, <1>5
    <3>7. \A s \in surely'[p] : Kept(s) \in rules'[p]
      BY <3>1, <3>2, <1>5
    <3> QED
      BY <3>4, <3>5, <3>6, <3>7
  <2>2. ASSUME NEW rule \in RuleSet, RemoveRule(p, rule)
        PROVE  Fits(rules'[p], surely'[p], maybe'[p])
    <3>1. /\ rules'[p] = {r \in rules[p] : IF store = "memory" THEN r # rule ELSE ~SameKey(r, rule)}
          /\ surely'[p] = {r \in surely[p] : ~SameKey(r, rule)}
          /\ maybe'[p] = maybe[p] \ {rule}
      BY <2>2 DEF RemoveRule, Removed, RulesInv, RulesShaped
    <3>2. \A s \in RuleSet : SameKey(Kept(s), rule) = SameKey(s, rule)
      BY KeptFacts DEF SameKey
    <3>3. \A s \in RuleSet : store = "memory" => Kept(s) = s
      BY KeptFacts
    <3>4. SameKey(rule, rule)
      BY DEF SameKey
    <3> HIDE DEF Kept, SameKey
    <3>5. /\ surely'[p] \subseteq RuleSet /\ maybe'[p] \subseteq RuleSet
          /\ rules'[p] \subseteq {Kept(r) : r \in RuleSet}
          /\ store = "postgres" => \A r, s \in rules'[p] : SameKey(r, s) => r = s
      BY <3>1, <1>5
    <3>6. \A r \in rules'[p] : \E m \in maybe'[p] : r = Kept(m)
      BY <3>1, <3>2, <3>3, <3>4, <1>5
    <3>7. \A s \in surely'[p] : Kept(s) \in rules'[p]
      BY <3>1, <3>2, <3>3, <3>4, <1>5
    <3> QED
      BY <3>5, <3>6, <3>7
  <2>3. ASSUME RemoveRules(p)
        PROVE  Fits(rules'[p], surely'[p], maybe'[p])
    BY <2>3 DEF RemoveRules, RulesInv, RulesShaped
  <2> QED
    BY <1>3, <2>1, <2>2, <2>3
<1>8. \A x \in Participants : Fits(rules'[x], surely'[x], maybe'[x])
  BY <1>5, <1>6, <1>7
<1>9. RulesTypeOK'
  <2>1. \A x \in Participants : rules'[x] \subseteq {[r EXCEPT !.actions = Stored(@)'] : r \in RuleSet}
    BY <1>8, <1>2 DEF Kept
  <2> QED
    BY <1>1, <1>8, <2>1 DEF RulesTypeOK
<1>10. RulesBetween'
  BY <1>2, <1>8 DEF RulesBetween
<1> QED
  BY <1>4, <1>9, <1>10 DEF RulesInv

-----------------------------------------------------------------------------
(* Operations *)

\* A set of numbers has a least one, which Min gives.
LEMMA MinIsLeast ==
    ASSUME NEW S \in SUBSET Nat, S # {}
    PROVE  Min(S) \in S
<1>1. PICK x \in S : \A y \in S : ~(<<y, x>> \in OpToRel(<, Nat))
  BY NatLessThanWellFounded, WFMin
<1>2. \A y \in S : ~(y < x)
  BY <1>1, Zenon DEF OpToRel
<1>3. \A y \in S : x <= y
  BY <1>2
<1> QED
  BY <1>3 DEF Min

\* No request stands for the empty action.
LEMMA ActionNamed ==
    ASSUME NEW h \in Http
    PROVE  parse_action(h.method, h.query) # Empty
<1> DEFINE Table == ByParameter(h.method)
           I == {i \in 1..Len(h.query) : h.query[i] \in DOMAIN Table}
<1>1. \A k \in DOMAIN Table : Table[k] # Empty
  <2>1. CASE h.method = "GET"
    <3>1. Table = Reads
      BY <2>1, Zenon DEF ByParameter
    <3>2. \A k \in DOMAIN Table :
            Table[k] \in {"GetObjectAcl", "GetObjectTagging", "GetObjectTorrent",
                         "GetObjectLegalHold", "GetObjectRetention", "GetObjectVersion",
                         "ListBucket", "ListBucketVersions", "ListBucketMultipartUploads",
                         "GetBucketLocation"}
      BY <3>1 DEF Reads
    <3> QED
      BY <3>2, Zenon DEF Empty
  <2>2. CASE h.method = "PUT"
    <3>1. Table = Writes
      BY <2>2, Zenon DEF ByParameter
    <3>2. \A k \in DOMAIN Table :
            Table[k] \in {"PutObjectAcl", "PutObjectTagging", "PutObjectLegalHold",
                         "PutObjectRetention", "RestoreObject"}
      BY <3>1 DEF Writes
    <3> QED
      BY <3>2, Zenon DEF Empty
  <2>3. CASE h.method = "POST"
    <3>1. Table = [delete |-> "DeleteObject"]
      BY <2>3, Zenon DEF ByParameter
    <3>2. \A k \in DOMAIN Table : Table[k] = "DeleteObject"
      BY <3>1
    <3> QED
      BY <3>2, Zenon DEF Empty
  <2>4. CASE h.method \notin {"GET", "PUT", "POST"}
    <3>1. Table = <<>>
      BY <2>4, Zenon DEF ByParameter
    <3> QED
      BY <3>1
  <2> QED
    BY <2>1, <2>2, <2>3, <2>4
<1>2. ByMethod(h.method, is_bucket_operation(h.query)) # Empty
  BY Zenon DEF ByMethod, Empty
<1>3. CASE I = {}
  <2>1. parse_action(h.method, h.query) = ByMethod(h.method, is_bucket_operation(h.query))
    BY <1>3 DEF parse_action, SelectInSeq
  <2> QED
    BY <1>2, <2>1
<1>4. CASE I # {}
  <2>1. Len(h.query) \in Nat
    BY HttpAssumption
  <2>2. Min(I) \in I
    <3>1. I \in SUBSET Nat
      BY <2>1
    <3> HIDE DEF I
    <3> QED
      BY <1>4, <3>1, MinIsLeast
  <2>3. parse_action(h.method, h.query) = Table[h.query[Min(I)]]
    BY <1>4, <2>1, <2>2 DEF parse_action, SelectInSeq
  <2> QED
    BY <1>1, <2>2, <2>3
<1> QED
  BY <1>3, <1>4

-----------------------------------------------------------------------------
(* Addresses *)

HostFor(style, parsed) == IF style = "path" THEN Empty ELSE parsed.bucket

UriFor(style, parsed) ==
    IF style = "path"
    THEN <<Empty, parsed.bucket>> \o (IF parsed.key = <<Empty>> THEN <<>> ELSE parsed.key)
    ELSE <<Empty>> \o parsed.key

\* Two parts are one without the first, and so on.
LEMMA TailFacts ==
    ASSUME NEW s \in Seq(STRING), Len(s) >= 1
    PROVE  /\ Tail(s) \in Seq(STRING) /\ Len(Tail(s)) = Len(s) - 1 /\ Head(s) = s[1]
           /\ Len(s) >= 2 => Tail(s)[1] = s[2]
           /\ Len(s) = 1 => s = <<s[1]>>
           /\ Len(s) >= 2 => Tail(Tail(s)) = SubSeq(s, 3, Len(s))
<1>1. /\ Tail(s) \in Seq(STRING) /\ Len(Tail(s)) = Len(s) - 1 /\ Head(s) = s[1]
      /\ \A i \in 1..(Len(s) - 1) : Tail(s)[i] = s[i + 1]
  OBVIOUS
<1>2. ASSUME Len(s) = 1 PROVE s = <<s[1]>>
  <2>1. s[1] \in STRING /\ <<s[1]>> \in Seq(STRING) /\ Len(<<s[1]>>) = 1
    BY <1>2
  <2>2. \A i \in 1..1 : s[i] = <<s[1]>>[i]
    OBVIOUS
  <2> QED
    BY <1>2, <2>1, <2>2, SeqEqual
<1>3. ASSUME Len(s) >= 2 PROVE Tail(Tail(s)) = SubSeq(s, 3, Len(s))
  <2>1. Tail(s) = SubSeq(s, 2, Len(s))
    BY <1>3
  <2>2. 2 \in 1..Len(s) /\ Len(s) \in 2..Len(s)
    BY <1>3
  <2>3. Tail(SubSeq(s, 2, Len(s))) = SubSeq(s, 2 + 1, Len(s))
    BY <2>2, HeadTailOfSubSeq
  <2> QED
    BY <2>1, <2>3
<1> QED
  BY <1>1, <1>2, <1>3

\* A path with one slash in front loses just that.
LEMMA TrimmedIsTail ==
    ASSUME NEW path \in Seq(STRING), Len(path) >= 2, path[1] = Empty,
           path[2] # Empty \/ Len(path) = 2
    PROVE  Trimmed(path) = Tail(path)
<1> DEFINE I == {i \in 1..Len(path) : path[i] # Empty}
<1>1. CASE path[2] # Empty
  <2>1. 2 \in I /\ \A i \in I : i \in Nat /\ i >= 2
    BY <1>1
  <2>2. Min(I) = 2
    BY <2>1 DEF Min
  <2>3. Trimmed(path) = LET i == IF I # {} THEN Min(I) ELSE 0
                        IN  IF i = 0 THEN <<Empty>> ELSE SubSeq(path, i, Len(path))
    BY Zenon DEF Trimmed, SelectInSeq
  <2>4. I # {}
    BY <2>1
  <2> HIDE DEF I
  <2>5. Trimmed(path) = SubSeq(path, 2, Len(path))
    BY <2>2, <2>3, <2>4
  <2> QED
    BY <2>5
<1>2. CASE path[2] = Empty
  <2>1. Len(path) = 2 /\ \A i \in 1..2 : i = 1 \/ i = 2
    BY <1>2
  <2>2. I = {}
    BY <1>2, <2>1
  <2>3. Trimmed(path) = <<Empty>>
    BY <2>2 DEF Trimmed, SelectInSeq
  <2>4. Tail(path) \in Seq(STRING) /\ Len(Tail(path)) = 1 /\ Tail(path)[1] = Empty
    BY <1>2, <2>1
  <2> DEFINE t == Tail(path)
  <2> HIDE DEF t
  <2>5. t = <<t[1]>> /\ t[1] = Empty
    <3>1. t \in Seq(STRING) /\ Len(t) = 1 /\ t[1] = Empty
      BY <2>4 DEF t
    <3> QED
      BY <3>1, TailFacts
  <2> QED
    BY <2>3, <2>5 DEF t
<1> QED
  BY <1>1, <1>2

\* An address is read from the rewritten request as it was written into it.
LEMMA UriReadBack ==
    ASSUME NEW b \in STRING, NEW k \in Seq(STRING), Len(k) >= 1,
           NEW style \in {"path", "virtual"}
    PROVE  LET parsed == [bucket |-> b, key |-> k]
           IN  Reading(style, HostFor(style, parsed), UriFor(style, parsed)) = parsed
<1> DEFINE parsed == [bucket |-> b, key |-> k]
<1>1. CASE style = "virtual"
  <2>1. UriFor(style, parsed) = <<Empty>> \o k /\ HostFor(style, parsed) = b
    BY <1>1 DEF UriFor, HostFor
  <2>2. Tail(<<Empty>> \o k) = k
    OBVIOUS
  <2> QED
    BY <1>1, <2>1, <2>2 DEF Reading
<1>2. CASE style = "path" /\ k = <<Empty>>
  <2>1. UriFor(style, parsed) = <<Empty, b>>
    BY <1>2 DEF UriFor
  <2> QED
    BY <1>2, <2>1 DEF Reading
<1>3. CASE style = "path" /\ k # <<Empty>>
  <2> DEFINE u == <<Empty, b>> \o k
  <2>1. UriFor(style, parsed) = u
    BY <1>3 DEF UriFor
  <2>2. Len(u) = 2 + Len(k) /\ Len(u) # 2 /\ u[2] = b
    OBVIOUS
  <2>3. SubSeq(u, 3, Len(u)) = k
    OBVIOUS
  <2> QED
    BY <1>3, <2>1, <2>2, <2>3 DEF Reading
<1> QED
  BY <1>1, <1>2, <1>3

\* The upstream reads what the client addressed, whichever of the two styles each uses.
LEMMA AddressKept ==
    ASSUME NEW h \in Http, h.host # NoHost, NEW style \in {"path", "virtual"},
           h.path[2] # Empty \/ Len(h.path) = 2
    PROVE  LET b == extract_bucket_from_host(h.host)
               parsed == parse_incoming_request(h.host, h.path)
           IN  Reading(style, HostFor(style, parsed), UriFor(style, parsed))
                   = Reading(IF b = Empty THEN "path" ELSE "virtual", b, h.path)
<1> DEFINE b == extract_bucket_from_host(h.host)
           parsed == parse_incoming_request(h.host, h.path)
           path == h.path
           parts == Tail(path)
<1>1. path \in Seq(STRING) /\ Len(path) >= 2 /\ path[1] = Empty /\ b \in STRING
      /\ Empty \in STRING
  BY HttpAssumption DEF extract_bucket_from_host, path
<1> HIDE DEF path, parts
<1>2. Trimmed(path) = parts
  BY <1>1, TrimmedIsTail DEF parts, path
<1>3. parts \in Seq(STRING) /\ Len(parts) = Len(path) - 1 /\ parts[1] = path[2]
      /\ Head(parts) = path[2] /\ path[2] \in STRING
  BY <1>1, TailFacts DEF parts
<1>4. CASE b # Empty
  <2>1. parsed = [bucket |-> b, key |-> parts]
    BY <1>2, <1>4 DEF path, parse_incoming_request
  <2>2. Reading("virtual", b, path) = [bucket |-> b, key |-> parts]
    BY DEF Reading, parts
  <2>3. Len(parts) >= 1
    BY <1>1, <1>3
  <2>4. Reading(style, HostFor(style, parsed), UriFor(style, parsed)) = parsed
    BY <1>1, <1>3, <2>1, <2>3, UriReadBack
  <2> QED
    BY <1>4, <2>1, <2>2, <2>4 DEF path
<1>5. CASE b = Empty
  <2> DEFINE k == IF Len(parts) = 1 THEN <<Empty>> ELSE Tail(parts)
  <2>1. parsed = [bucket |-> path[2], key |-> k]
    BY <1>2, <1>3, <1>5 DEF path, parse_incoming_request, try_parse_path_style
  <2>2. k \in Seq(STRING) /\ Len(k) >= 1
    <3>1. <<Empty>> \in Seq(STRING) /\ Len(<<Empty>>) = 1
      BY <1>1
    <3>2. Len(parts) # 1 => Len(parts) >= 2
      BY <1>1, <1>3
    <3>3. Len(parts) # 1 => Tail(parts) \in Seq(STRING) /\ Len(Tail(parts)) = Len(parts) - 1
      BY <1>3, <3>2, TailFacts
    <3>4. CASE Len(parts) = 1
      BY <3>1, <3>4
    <3>5. CASE Len(parts) # 1
      BY <1>3, <3>2, <3>3, <3>5
    <3> QED
      BY <3>4, <3>5
  <2>3. k = IF Len(path) = 2 THEN <<Empty>> ELSE SubSeq(path, 3, Len(path))
    <3>1. Tail(parts) = SubSeq(path, 3, Len(path))
      BY <1>1, TailFacts DEF parts
    <3>2. (Len(parts) = 1) = (Len(path) = 2)
      BY <1>1, <1>3
    <3> QED
      BY <3>1, <3>2
  <2>4. Reading("path", b, path) = [bucket |-> path[2], key |-> k]
    BY <2>3 DEF Reading
  <2>5. Reading(style, HostFor(style, parsed), UriFor(style, parsed)) = parsed
    BY <1>3, <2>1, <2>2, UriReadBack
  <2> QED
    BY <1>5, <2>1, <2>4, <2>5 DEF path
<1> QED
  BY <1>4, <1>5

-----------------------------------------------------------------------------
(* Requests *)

Phases == {"none", "received", "connected", "verifying", "verified", "forwarded", "answered"}
Routed == {"connected", "verifying", "verified", "forwarded"}
Rewritten == {"verifying", "verified", "forwarded"}

\* What a request's context, connection and upstream request are worth in each phase,
\* computed from the request alone: nothing of an earlier attempt is left.
RequestRight(style, ph, h, c, connected, u, status) ==
    LET parsed == parse_incoming_request(h.host, h.path) IN
    /\ ph \in Routed => /\ h.host # NoHost /\ resolve(h.path) \in Participants
                        /\ c.participant = resolve(h.path)
                        /\ c.parsed = parsed /\ parsed.bucket # Empty
                        /\ connected = HostFor(style, parsed)
    /\ ph \in Rewritten => u.uri = UriFor(style, parsed) /\ u.host = HostFor(style, parsed)
    /\ ph \in {"verified", "forwarded"} => c.scope = h.token.scope
    /\ ph = "forwarded" => u.token = NoToken /\ u.signedFor = resolve(h.path)
    /\ (ph = "answered") = (status # 0)

Shaped ==
    /\ upstream_style \in Styles
    /\ http \in [Requests -> Http] /\ phase \in [Requests -> Phases]
    /\ answer \in [Requests -> Nat] /\ retries \in [Requests -> 0..MaxRetries]
    /\ DOMAIN ctx = Requests /\ DOMAIN peer = Requests /\ DOMAIN upstream = Requests
    /\ \A q \in Requests : /\ DOMAIN ctx[q] = {"participant", "parsed", "scope"}
                           /\ DOMAIN upstream[q] = {"uri", "host", "token", "signedFor"}

Right(q) == RequestRight(upstream_style, phase[q], http[q], ctx[q], peer[q], upstream[q], answer[q])

ProxyInv == Shaped /\ \A q \in Requests : Right(q)

Inv == RulesInv /\ ProxyInv

\* Initially no request has come.
LEMMA ProxyInitInv == Init => Inv
<1> SUFFICES ASSUME Init PROVE Inv
  OBVIOUS
<1>1. RulesInv
  BY RulesInitInv DEF Init
<1>2. Shaped
  BY ProxyAssumption DEF Init, Shaped, Phases, NewContext, NotSent
<1>3. ASSUME NEW q \in Requests PROVE Right(q)
  <2>1. phase[q] = "none" /\ answer[q] = 0
    BY <1>3 DEF Init
  <2> QED
    BY <2>1 DEF Right, RequestRight, Routed, Rewritten
<1> QED
  BY <1>1, <1>2, <1>3 DEF Inv, ProxyInv

\* A step of one request leaves the others alone.
LEMMA OthersRight ==
    ASSUME ProxyInv, NEW q \in Requests, Shaped', UNCHANGED <<upstream_style, http>>,
           \A x \in Requests \ {q} : /\ phase'[x] = phase[x] /\ ctx'[x] = ctx[x]
                                     /\ peer'[x] = peer[x] /\ upstream'[x] = upstream[x]
                                     /\ answer'[x] = answer[x],
           RequestRight(upstream_style, phase'[q], http[q], ctx'[q], peer'[q], upstream'[q],
                        answer'[q])
    PROVE  ProxyInv'
<1>1. ASSUME NEW x \in Requests PROVE Right(x)'
  <2>1. CASE x = q
    BY <2>1 DEF Right
  <2>2. CASE x # q
    BY <2>2 DEF ProxyInv, Right
  <2> QED
    BY <2>1, <2>2
<1> QED
  BY <1>1 DEF ProxyInv

\* Every step of a request keeps it right, a repeated attempt too.
LEMMA RequestStep ==
    ASSUME ProxyInv, NEW q \in Requests, Arrive(q) \/ Handle(q) \/ Retry(q)
    PROVE  ProxyInv'
<1> USE ProxyAssumption DEF ProxyInv
<1> DEFINE h == http[q]
           parsed == parse_incoming_request(h.host, h.path)
<1>1. h \in Http /\ Right(q) /\ Shaped
  BY DEF Shaped
<1>2. resolve(h.path) \in Participants \cup {NoParticipant}
  BY <1>1, HttpAssumption
<1> HIDE DEF parsed
<1>3. ASSUME Arrive(q) PROVE ProxyInv'
  <2>1. Shaped'
    BY <1>1, <1>3 DEF Arrive, Shaped, Phases, configVars
  <2>2. phase[q] = "none" /\ phase'[q] = "received" /\ answer'[q] = answer[q]
    BY <1>1, <1>3 DEF Arrive, Shaped
  <2> QED
    BY <1>1, <1>3, <2>1, <2>2, OthersRight
       DEF Arrive, Shaped, configVars, Right, RequestRight, Routed, Rewritten
<1>4. ASSUME NEW status \in {400, 403, 500}, Refuse(q, status),
             \/ ctx' = ctx
             \/ ctx' = [ctx EXCEPT ![q].participant = resolve(h.path)]
      PROVE  ProxyInv'
  <2>1. Shaped'
    BY <1>1, <1>4 DEF Refuse, Shaped, Phases, configVars
  <2>2. phase'[q] = "answered" /\ answer'[q] # 0
    BY <1>1, <1>4 DEF Refuse, Shaped
  <2>3. \A x \in Requests \ {q} : ctx'[x] = ctx[x]
    BY <1>1, <1>4 DEF Shaped
  <2> QED
    BY <1>1, <1>4, <2>1, <2>2, <2>3, OthersRight
       DEF Refuse, Shaped, configVars, RequestRight, Routed, Rewritten
<1>5. ASSUME UpstreamPeer(q) PROVE ProxyInv'
  <2>1. Shaped'
    BY <1>1, <1>5 DEF UpstreamPeer, Shaped, Phases, configVars
  <2>2. /\ phase[q] = "received" /\ phase'[q] = "connected" /\ answer'[q] = answer[q]
        /\ ctx'[q].participant = resolve(h.path) /\ ctx'[q].parsed = parsed
        /\ peer'[q] = build_upstream_host(parsed)
        /\ h.host # NoHost /\ resolve(h.path) \in Participants /\ parsed.bucket # Empty
    BY <1>1, <1>2, <1>5 DEF UpstreamPeer, Shaped, parsed
  <2>3. build_upstream_host(parsed) = HostFor(upstream_style, parsed)
    BY DEF build_upstream_host, HostFor
  <2>4. RequestRight(upstream_style, phase'[q], h, ctx'[q], peer'[q], upstream'[q], answer'[q])
    BY <1>1, <2>2, <2>3 DEF Right, RequestRight, Routed, Rewritten, parsed
  <2> QED
    BY <1>1, <1>5, <2>1, <2>4, OthersRight DEF UpstreamPeer, Shaped, configVars
<1>6. ASSUME RewriteRequest(q) PROVE ProxyInv'
  <2>1. Shaped'
    BY <1>1, <1>6 DEF RewriteRequest, Shaped, Phases, configVars
  <2>2. /\ phase[q] = "connected" /\ phase'[q] = "verifying" /\ answer'[q] = answer[q]
        /\ ctx'[q] = ctx[q] /\ peer'[q] = peer[q]
        /\ upstream'[q].uri = build_upstream_uri_and_host(ctx[q].parsed).uri
        /\ upstream'[q].host = build_upstream_uri_and_host(ctx[q].parsed).host
    BY <1>1, <1>6 DEF RewriteRequest, Shaped
  <2>3. /\ build_upstream_uri_and_host(ctx[q].parsed).host = HostFor(upstream_style, ctx[q].parsed)
        /\ build_upstream_uri_and_host(ctx[q].parsed).uri = UriFor(upstream_style, ctx[q].parsed)
    BY DEF build_upstream_uri_and_host, HostFor, UriFor
  <2>4. RequestRight(upstream_style, phase'[q], h, ctx'[q], peer'[q], upstream'[q], answer'[q])
    BY <1>1, <2>2, <2>3 DEF Right, RequestRight, Routed, Rewritten
  <2> QED
    BY <1>1, <1>6, <2>1, <2>4, OthersRight DEF RewriteRequest, Shaped, configVars
<1>7. ASSUME phase[q] = "verifying", phase' = [phase EXCEPT ![q] = "verified"],
             ctx' = [ctx EXCEPT ![q].scope = http[q].token.scope],
             UNCHANGED <<configVars, http, peer, upstream, answer, retries>>
      PROVE  ProxyInv'
  <2>1. Shaped'
    BY <1>1, <1>7 DEF Shaped, Phases, configVars
  <2>2. /\ phase'[q] = "verified" /\ answer'[q] = answer[q]
        /\ ctx'[q].participant = ctx[q].participant /\ ctx'[q].parsed = ctx[q].parsed
        /\ ctx'[q].scope = h.token.scope /\ peer'[q] = peer[q] /\ upstream'[q] = upstream[q]
    BY <1>1, <1>7 DEF Shaped
  <2>3. RequestRight(upstream_style, phase'[q], h, ctx'[q], peer'[q], upstream'[q], answer'[q])
    BY <1>1, <1>7, <2>2 DEF Right, RequestRight, Routed, Rewritten
  <2> QED
    BY <1>1, <1>7, <2>1, <2>3, OthersRight DEF Shaped, configVars
<1>8. ASSUME Forward(q) PROVE ProxyInv'
  <2>1. Shaped'
    BY <1>1, <1>8 DEF Forward, Shaped, Phases, configVars
  <2>2. /\ phase[q] = "verified" /\ phase'[q] = "forwarded" /\ answer'[q] = answer[q]
        /\ ctx'[q] = ctx[q] /\ peer'[q] = peer[q]
        /\ upstream'[q].uri = upstream[q].uri /\ upstream'[q].host = upstream[q].host
        /\ upstream'[q].token = NoToken /\ upstream'[q].signedFor = ctx[q].participant
    BY <1>1, <1>8 DEF Forward, Shaped
  <2>3. RequestRight(upstream_style, phase'[q], h, ctx'[q], peer'[q], upstream'[q], answer'[q])
    BY <1>1, <2>2 DEF Right, RequestRight, Routed, Rewritten
  <2> QED
    BY <1>1, <1>8, <2>1, <2>3, OthersRight DEF Forward, Shaped, configVars
<1>9. ASSUME Retry(q) PROVE ProxyInv'
  <2>1. Shaped'
    BY <1>1, <1>9 DEF Retry, Shaped, Phases, configVars
  <2>2. phase[q] = "forwarded" /\ phase'[q] = "received" /\ answer'[q] = answer[q]
    BY <1>1, <1>9 DEF Retry, Shaped
  <2> QED
    BY <1>1, <1>9, <2>1, <2>2, OthersRight
       DEF Retry, Shaped, configVars, Right, RequestRight, Routed, Rewritten
<1>10. ASSUME PeerFails(q) PROVE ProxyInv'
  BY <1>4, <1>10 DEF PeerFails
<1>11. ASSUME TokenMissing(q) \/ Unauthorized(q) \/ FilterFails(q) PROVE ProxyInv'
  BY <1>4, <1>11 DEF TokenMissing, Unauthorized, FilterFails
<1>12. ASSUME VerifyToken(q) PROVE ProxyInv'
  BY <1>4, <1>7, <1>12 DEF VerifyToken
<1> QED
  BY <1>3, <1>5, <1>6, <1>8, <1>9, <1>10, <1>11, <1>12 DEF Handle

\* No step of the rules or of a request breaks the invariant.
LEMMA ProxyNextInv == Inv /\ [Next]_vars => Inv'
<1> SUFFICES ASSUME Inv, [Next]_vars PROVE Inv'
  OBVIOUS
<1>1. ASSUME UNCHANGED ruleVars PROVE RulesInv'
  <2>1. \A p \in Participants : rules[p] \subseteq {Kept(r) : r \in RuleSet}
    BY DEF Inv, RulesInv, RulesTypeOK, Kept
  <2>2. \A r : Kept(r)' = Kept(r) /\ \A a : Stored(a)' = Stored(a)
    BY <1>1, Zenon DEF Kept, Stored, ruleVars
  <2>3. RulesTypeOK'
    <3>1. rules' = rules
      BY <1>1 DEF ruleVars
    <3>2. \A p \in Participants :
            rules'[p] \subseteq {[r EXCEPT !.actions = Stored(@)'] : r \in RuleSet}
      BY <2>1, <2>2, <3>1 DEF Kept
    <3> QED
      BY <1>1, <3>2 DEF Inv, RulesInv, RulesTypeOK, ruleVars
  <2>4. RulesShaped' /\ RulesBetween'
    BY <1>1, <2>2 DEF Inv, RulesInv, RulesShaped, RulesBetween, ruleVars
  <2> QED
    BY <2>3, <2>4 DEF RulesInv
<1>2. ASSUME UNCHANGED proxyVars PROVE ProxyInv'
  BY <1>2 DEF Inv, ProxyInv, Shaped, Right, proxyVars
<1>3. CASE RulesNext /\ UNCHANGED proxyVars
  BY <1>2, <1>3, RulesNextInv DEF Inv
<1>4. ASSUME NEW q \in Requests, Arrive(q) \/ Handle(q) \/ Retry(q) PROVE Inv'
  <2>1. UNCHANGED ruleVars
    BY <1>4 DEF Arrive, Handle, Retry, PeerFails, UpstreamPeer, RewriteRequest, TokenMissing,
                VerifyToken, Forward, Unauthorized, FilterFails, Refuse
  <2> QED
    BY <1>1, <1>4, <2>1, RequestStep DEF Inv
<1>5. CASE UNCHANGED vars
  BY <1>1, <1>2, <1>5 DEF Inv, vars
<1> QED
  BY <1>3, <1>4, <1>5 DEF Next

\* The rules stay between what every store keeps and what any store may keep, and what a
\* request carries is computed from that request, on every attempt.
THEOREM ProxyInvariant == Spec => []Inv
BY ProxyInitInv, ProxyNextInv, PTL DEF Spec

\* Type correctness, with the primary key of the rules in Postgres.
THEOREM ProxyTypeCorrect == Spec => []TypeOK
<1>1. Inv => TypeOK
  <2> SUFFICES ASSUME Inv PROVE TypeOK
    OBVIOUS
  <2>1. ASSUME NEW q \in Requests
        PROVE  /\ phase[q] \in Phases /\ retries[q] \in 0..MaxRetries
               /\ phase[q] \in Routed => ctx[q].participant \in Participants
                                        /\ ctx[q].parsed.bucket # Empty
               /\ (phase[q] = "answered") = (answer[q] # 0)
    BY <2>1 DEF Inv, ProxyInv, Shaped, Right, RequestRight
  <2>2. Unparsed.bucket = Empty
    BY DEF Unparsed
  <2> QED
    BY <2>1, <2>2 DEF TypeOK, Inv, RulesInv, Phases, Routed
<1> QED
  BY <1>1, ProxyInvariant, PTL

\* The upstream reads the bucket and the key the client addressed, on the connection for
\* that bucket, signed for the request's participant and without the client's token:
\* upstream_peer and upstream_request_filter agree for any host, path and pair of styles.
THEOREM AddressesKept == Spec => []ForwardedAsAddressed
<1>1. Inv => ForwardedAsAddressed
  <2> SUFFICES ASSUME Inv, NEW q \in Requests, phase[q] = "forwarded"
               PROVE  LET bucket == extract_bucket_from_host(http[q].host) IN
                      /\ http[q].path[2] # Empty \/ Len(http[q].path) = 2 =>
                            Reading(upstream_style, upstream[q].host, upstream[q].uri)
                              = Reading(IF bucket = Empty THEN "path" ELSE "virtual",
                                        bucket, http[q].path)
                      /\ upstream[q].host = peer[q]
                      /\ upstream[q].signedFor = resolve(http[q].path)
                      /\ upstream[q].token = NoToken
    BY DEF ForwardedAsAddressed
  <2> DEFINE h == http[q]
             parsed == parse_incoming_request(h.host, h.path)
  <2>1. h \in Http /\ upstream_style \in {"path", "virtual"} /\ Right(q)
    BY ProxyAssumption DEF Inv, ProxyInv, Shaped
  <2> HIDE DEF h
  <2>2. /\ h.host # NoHost
        /\ upstream[q].uri = UriFor(upstream_style, parsed)
        /\ upstream[q].host = HostFor(upstream_style, parsed)
        /\ peer[q] = HostFor(upstream_style, parsed)
        /\ upstream[q].token = NoToken /\ upstream[q].signedFor = resolve(h.path)
    BY <2>1 DEF Right, RequestRight, Routed, Rewritten, h
  <2> HIDE DEF parsed
  <2>3. h.path[2] # Empty \/ Len(h.path) = 2 =>
          LET b == extract_bucket_from_host(h.host)
          IN  Reading(upstream_style, HostFor(upstream_style, parsed),
                      UriFor(upstream_style, parsed))
                = Reading(IF b = Empty THEN "path" ELSE "virtual", b, h.path)
    BY <2>1, <2>2, AddressKept DEF parsed
  <2> QED
    BY <2>2, <2>3 DEF h
<1> QED
  BY <1>1, ProxyInvariant, PTL

\* A step that begins or denies a forwarding is one of the filter, with the operation the
\* client asked for.
LEMMA FilterSteps ==
    ASSUME Inv, [Next]_vars, NEW q \in Requests
    PROVE  /\ phase[q] # "forwarded" /\ phase'[q] = "forwarded" => Forward(q)
           /\ phase[q] = "verified" /\ answer'[q] = 403 => Unauthorized(q)
           /\ phase[q] = "verified" =>
                 /\ ctx[q].participant = resolve(http[q].path) /\ Operation(q) = Requested(q)
                 /\ resolve(http[q].path) \in Participants
<1>1. /\ Shaped /\ Right(q)
  BY DEF Inv, ProxyInv
<1>2. phase[q] = "verified" => answer[q] = 0
  BY <1>1 DEF Right, RequestRight, Shaped
<1>3. phase[q] = "verified" =>
        /\ ctx[q].participant = resolve(http[q].path) /\ Operation(q) = Requested(q)
        /\ resolve(http[q].path) \in Participants
  BY <1>1 DEF Right, RequestRight, Routed, Operation, Requested
<1> DEFINE Claim == /\ phase[q] # "forwarded" /\ phase'[q] = "forwarded" => Forward(q)
                    /\ phase[q] = "verified" /\ answer'[q] = 403 => Unauthorized(q)
<1>4. ASSUME UNCHANGED <<phase, answer>> PROVE Claim
  BY <1>2, <1>4
<1>5. ASSUME NEW x \in Requests, x # q, Arrive(x) \/ Handle(x) \/ Retry(x)
      PROVE  phase'[q] = phase[q] /\ answer'[q] = answer[q]
  <2>0. DOMAIN phase = Requests /\ DOMAIN answer = Requests
    BY <1>1 DEF Shaped
  <2>1. CASE Arrive(x) \/ Retry(x) \/ UpstreamPeer(x) \/ RewriteRequest(x) \/ Forward(x)
    BY <1>5, <2>0, <2>1 DEF Arrive, Retry, UpstreamPeer, RewriteRequest, Forward
  <2>2. ASSUME NEW status, Refuse(x, status)
        PROVE  phase'[q] = phase[q] /\ answer'[q] = answer[q]
    BY <1>5, <2>0, <2>2 DEF Refuse
  <2>3. CASE PeerFails(x)
    <3>1. Refuse(x, 400) \/ Refuse(x, 500)
      BY <2>3 DEF PeerFails
    <3> QED
      BY <2>2, <3>1
  <2>4. CASE TokenMissing(x) \/ Unauthorized(x) \/ FilterFails(x)
    <3>1. Refuse(x, 400) \/ Refuse(x, 403) \/ Refuse(x, 500)
      BY <2>4 DEF TokenMissing, Unauthorized, FilterFails
    <3> QED
      BY <2>2, <3>1
  <2>5. CASE VerifyToken(x)
    BY <1>5, <2>0, <2>2, <2>5 DEF VerifyToken
  <2> QED
    BY <1>5, <2>1, <2>3, <2>4, <2>5 DEF Handle
<1>6. ASSUME Arrive(q) \/ Handle(q) \/ Retry(q) PROVE Claim
  <2>1. ASSUME Arrive(q) \/ PeerFails(q) \/ UpstreamPeer(q) \/ RewriteRequest(q)
                 \/ TokenMissing(q) \/ VerifyToken(q) \/ Retry(q)
        PROVE  phase[q] # "verified" /\ phase'[q] # "forwarded"
    BY <1>1, <2>1 DEF Shaped, Arrive, Retry, PeerFails, UpstreamPeer, RewriteRequest,
                      TokenMissing, VerifyToken, Refuse
  <2>2. ASSUME FilterFails(q) \/ Unauthorized(q) PROVE phase'[q] = "answered"
    BY <1>1, <2>2 DEF Shaped, FilterFails, Unauthorized, Refuse
  <2>3. ASSUME FilterFails(q) PROVE answer'[q] = 500
    BY <1>1, <2>3 DEF Shaped, FilterFails, Refuse
  <2>4. ASSUME Forward(q) PROVE answer' = answer
    BY <2>4 DEF Forward
  <2> QED
    BY <1>2, <1>6, <2>1, <2>2, <2>3, <2>4 DEF Handle
<1>7. ASSUME UNCHANGED vars \/ (RulesNext /\ UNCHANGED proxyVars) PROVE Claim
  BY <1>4, <1>7 DEF vars, proxyVars
<1>8. ASSUME NEW x \in Requests, Arrive(x) \/ Handle(x) \/ Retry(x) PROVE Claim
  BY <1>2, <1>5, <1>6, <1>8
<1> QED
  <2> HIDE DEF Claim
  <2>1. Claim
    BY <1>7, <1>8 DEF Next
  <2> QED
    BY <1>3, <2>1 DEF Claim

\* Without a query the method alone makes the action.
LEMMA PlainAction ==
    ASSUME NEW method PROVE parse_action(method, <<>>) = ByMethod(method, FALSE)
<1>1. is_bucket_operation(<<>>) = FALSE
  BY DEF is_bucket_operation, Range
<1>2. SelectInSeq(<<>>, LAMBDA k : k \in DOMAIN ByParameter(method)) = 0
  BY DEF SelectInSeq
<1> QED
  BY <1>1, <1>2 DEF parse_action

\* Two parts in front of others.
LEMMA TwoInFront ==
    ASSUME NEW S, NEW a \in S, NEW b \in S, NEW rest \in Seq(S)
    PROVE  LET whole == <<a, b>> \o rest
           IN  /\ whole \in Seq(S) /\ Len(whole) = 2 + Len(rest)
               /\ whole[1] = a /\ whole[2] = b
               /\ \A i \in 3..(2 + Len(rest)) : whole[i] = rest[i - 2]
OBVIOUS

\* A path is its first two parts and the rest.
LEMMA PathSplit ==
    ASSUME NEW S, NEW path \in Seq(S), Len(path) > 2
    PROVE  <<path[1], path[2]>> \o SubSeq(path, 3, Len(path)) = path
<1> DEFINE rest == SubSeq(path, 3, Len(path))
           whole == <<path[1], path[2]>> \o rest
<1>1. path[1] \in S /\ path[2] \in S
  OBVIOUS
<1>2. rest \in Seq(S) /\ Len(rest) = Len(path) - 2
      /\ \A i \in 3..Len(path) : rest[i - 2] = path[i]
  OBVIOUS
<1> HIDE DEF rest
<1>3. /\ whole \in Seq(S) /\ Len(whole) = 2 + Len(rest)
      /\ whole[1] = path[1] /\ whole[2] = path[2]
      /\ \A i \in 3..(2 + Len(rest)) : whole[i] = rest[i - 2]
  BY <1>1, <1>2, TwoInFront
<1> HIDE DEF whole
<1>4. ASSUME NEW i \in 1..Len(path) PROVE whole[i] = path[i]
  <2>1. i = 1 \/ i = 2 \/ i \in 3..Len(path)
    OBVIOUS
  <2> QED
    BY <1>2, <1>3, <2>1
<1>5. whole = path
  BY <1>2, <1>3, <1>4, SeqEqual
<1> QED
  BY <1>5 DEF whole, rest

\* The object of a path with a key.
LEMMA ObjectRead ==
    ASSUME NEW S, NEW path \in Seq(S), Len(path) > 2
    PROVE  Reading("path", Empty, path) = [bucket |-> path[2], key |-> SubSeq(path, 3, Len(path))]
<1>1. ASSUME Len(path) = 2 PROVE FALSE
  BY <1>1
<1> QED
  BY <1>1, Zenon DEF Reading

\* A request that is sent as it was written does upstream what the filter asked about.
LEMMA PerformedAsRequested ==
    ASSUME Inv, NEW q \in Requests, phase[q] = "verified", SentAsWritten(http[q])
    PROVE  Performed(q) = Requested(q)
<1> DEFINE h == http[q]
           path == h.path
           parsed == parse_incoming_request(h.host, path)
           object == Reading(upstream_style, upstream[q].host, upstream[q].uri)
<1>1. /\ h \in Http /\ upstream_style \in {"path", "virtual"} /\ h.host # NoHost
      /\ upstream[q].uri = UriFor(upstream_style, parsed)
      /\ upstream[q].host = HostFor(upstream_style, parsed)
  BY ProxyAssumption DEF Inv, ProxyInv, Shaped, Right, RequestRight, Routed, Rewritten
<1>2. /\ extract_bucket_from_host(h.host) = Empty /\ path[2] # Empty /\ Len(path) > 2
      /\ url_path(path) = path /\ h.query = <<>>
  BY DEF SentAsWritten
<1>3. path \in Seq(STRING) /\ path[1] = Empty
  BY <1>1, HttpAssumption
<1>4. object = Reading("path", Empty, path)
  <2>1. Reading(upstream_style, HostFor(upstream_style, parsed), UriFor(upstream_style, parsed))
          = Reading(IF extract_bucket_from_host(h.host) = Empty THEN "path" ELSE "virtual",
                    extract_bucket_from_host(h.host), path)
    BY <1>1, <1>2, AddressKept
  <2> HIDE DEF h, path, parsed
  <2> QED
    BY <1>1, <1>2, <2>1
<1>5. object = [bucket |-> path[2], key |-> SubSeq(path, 3, Len(path))]
  <2>1. Reading("path", Empty, path) = [bucket |-> path[2], key |-> SubSeq(path, 3, Len(path))]
    BY <1>2, <1>3, ObjectRead
  <2> QED
    BY <1>4, <2>1, Zenon
<1>6. <<Empty, object.bucket>> \o object.key = path
  <2>1. object.bucket = path[2] /\ object.key = SubSeq(path, 3, Len(path))
    BY <1>5
  <2>2. <<path[1], path[2]>> \o SubSeq(path, 3, Len(path)) = path
    BY <1>2, <1>3, PathSplit
  <2> QED
    BY <1>3, <2>1, <2>2
<1>7. Performed(q) = [scope |-> h.token.scope, action |-> ByMethod(h.method, FALSE),
                      resource |-> path]
  BY <1>6 DEF Performed
<1>8. Requested(q) = [scope |-> h.token.scope, action |-> ByMethod(h.method, FALSE),
                      resource |-> path]
  BY <1>2, PlainAction DEF Requested, parse_operation
<1> QED
  BY <1>7, <1>8

\* A request is forwarded, on every attempt, only if a rule saved for its participant and
\* not removed since allows the operation made of it, whatever the configured store makes
\* of a second rule for a resource, of a rule without actions or of a removal; and what the
\* upstream does with a request that is sent as it was written is allowed by such a rule.
THEOREM RulesRequired == Spec => ForwardedUnderRule
<1>1. Inv /\ [Next]_vars =>
        [\A q \in Requests : phase[q] # "forwarded" /\ phase'[q] = "forwarded" =>
            /\ Allow(maybe[resolve(http[q].path)], Requested(q))
            /\ SentAsWritten(http[q])
                  => Allow(maybe[resolve(http[q].path)], Performed(q))]_vars
  <2> SUFFICES ASSUME Inv, [Next]_vars, NEW q \in Requests,
                      phase[q] # "forwarded", phase'[q] = "forwarded"
               PROVE  /\ Allow(maybe[resolve(http[q].path)], Requested(q))
                      /\ SentAsWritten(http[q]) => Performed(q) = Requested(q)
    BY Zenon
  <2> DEFINE p == resolve(http[q].path)
             o == Requested(q)
  <2>1. Forward(q) /\ phase[q] = "verified"
    BY FilterSteps DEF Forward
  <2>2. p \in Participants /\ evaluate(p, o)
    BY <2>1, FilterSteps DEF Forward
  <2>3. http[q] \in Http /\ o.action = parse_action(http[q].method, http[q].query)
    BY DEF Inv, ProxyInv, Shaped, Requested, parse_operation
  <2>4. o.action # Empty
    BY <2>3, ActionNamed
  <2> HIDE DEF p, o
  <2>5. PICK r \in rules[p] : /\ r.scope = o.scope /\ o.action \in Range(r.actions)
                              /\ matches_resource(r.resource, o.resource)
    BY <2>2 DEF evaluate, Allow
  <2>6. PICK m \in maybe[p] : r = Kept(m)
    BY <2>2, <2>5 DEF Inv, RulesInv, RulesBetween
  <2>7. m \in RuleSet
    BY <2>2, <2>6 DEF Inv, RulesInv, RulesTypeOK
  <2>8. r = [scope |-> m.scope, actions |-> Stored(m.actions), resource |-> m.resource]
    BY <2>6, <2>7, KeptFacts
  <2>9. o.action \in Range(m.actions)
    <3>1. CASE Stored(m.actions) = m.actions
      BY <2>5, <2>8, <3>1
    <3>2. CASE Stored(m.actions) # m.actions
      <4>1. Stored(m.actions) = <<Empty>>
        BY <3>2 DEF Stored
      <4>2. Range(<<Empty>>) = {Empty}
        BY DEF Range
      <4> QED
        BY <2>4, <2>5, <2>8, <4>1, <4>2
    <3> QED
      BY <3>1, <3>2
  <2>10. Allow(maybe[resolve(http[q].path)], Requested(q))
    BY <2>5, <2>6, <2>8, <2>9 DEF Allow, p, o
  <2> QED
    BY <2>1, <2>10, PerformedAsRequested
<1> QED
  BY <1>1, ProxyInvariant, PTL DEF Spec, ForwardedUnderRule

\* A request is refused by the rules only if no rule that later calls left alone allows
\* it: neither store loses one by saving or removing another.
THEOREM RulesKept == Spec => RulesHonoured
<1>1. Inv /\ [Next]_vars =>
        [\A q \in Requests : phase[q] = "verified" /\ answer'[q] = 403
            => ~Allow(surely[resolve(http[q].path)], Requested(q))]_vars
  <2> SUFFICES ASSUME Inv, [Next]_vars, NEW q \in Requests,
                      phase[q] = "verified", answer'[q] = 403,
                      Allow(surely[resolve(http[q].path)], Requested(q))
               PROVE  FALSE
    OBVIOUS
  <2> DEFINE p == resolve(http[q].path)
             o == Requested(q)
  <2>1. p \in Participants /\ ~evaluate(p, o)
    BY FilterSteps DEF Unauthorized
  <2> HIDE DEF p, o
  <2>2. PICK s \in surely[p] : /\ s.scope = o.scope /\ o.action \in Range(s.actions)
                               /\ matches_resource(s.resource, o.resource)
    BY DEF Allow, p, o
  <2>3. Kept(s) \in rules[p] /\ s \in RuleSet
    BY <2>1, <2>2 DEF Inv, RulesInv, RulesBetween, RulesTypeOK
  <2>4. Kept(s) = [scope |-> s.scope, actions |-> Stored(s.actions), resource |-> s.resource]
    BY <2>3, KeptFacts
  <2>5. Stored(s.actions) = s.actions
    <3>1. s.actions # <<>>
      BY <2>2 DEF Range
    <3> QED
      BY <3>1 DEF Stored
  <2> QED
    BY <2>1, <2>2, <2>3, <2>4, <2>5 DEF evaluate, Allow
<1> QED
  BY <1>1, ProxyInvariant, PTL DEF Spec, RulesHonoured
=============================================================================
