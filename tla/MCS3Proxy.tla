------------------------------ MODULE MCS3Proxy ------------------------------
(* Constants for TLC: two participants told apart by the path, two rules for one *)
(* resource with different actions, one for a bucket, one without actions.        *)
EXTENDS S3Proxy

Domain == "proxy.example.com"

Rule(scope, actions, resource) == [scope |-> scope, actions |-> actions, resource |-> resource]
Object == exact_match(<<"b1", "k.x">>)
Bucket == all_objects_in_bucket("b1")

\* The dot stands for any character, a slash too.
MCIsMatch(e, path) ==
    \/ path = e.from
    \/ e.open /\ IsStrictPrefix(e.from, path)
    \/ e = Object /\ path = <<"", "b1", "k", "x">>

MCUrlPath(path) == SelectSeq(path, LAMBDA part : part # ".")

MCRules == {Rule("s1", <<"GetObject">>, Object), Rule("s1", <<"GetObject", "PutObject">>, Object),
            Rule("s1", <<"GetObject", "GetObjectAcl">>, Bucket), Rule("s2", <<>>, Bucket)}

\* p2 owns the paths below b2; nobody owns those below b3.
MCResolve(path) == IF path[2] = "b3" THEN NoParticipant ELSE IF path[2] = "b2" THEN "p2" ELSE "p1"

Host(label, domain) == [label |-> label, domain |-> domain]
Hosts == {NoHost, Host("", Domain), Host("b1", Domain), Host("b1", "other")}
Paths == {<<"", "b1", "k.x">>, <<"", "b1", "", "k.x">>, <<"", "", "b1", "k.x">>, <<"", "b1">>, <<"", "">>,
          <<"", "b2", "k.x">>, <<"", "b3", "k.x">>,
          <<"", "b1", ".", "k.x">>, <<"", "b1", "k", "x">>}
Token(audience, scope) == [audience |-> audience, scope |-> scope]
Plain(host, path) == [host |-> host, path |-> path, method |-> "GET", query |-> <<>>,
                      token |-> Token(MCResolve(path), "s1")]

MCHttp ==
    {Plain(Host("", Domain), p) : p \in Paths}
        \cup {Plain(h, p) : h \in Hosts, p \in {<<"", "b1", "k.x">>, <<"", "b1", "", "k.x">>, <<"", "">>}}
        \cup {[Plain(Host("", Domain), <<"", "b1", "k.x">>) EXCEPT !.method = m, !.query = s] :
                m \in {"GET", "PUT", "HEAD"}, s \in {<<>>, <<"other", "acl">>}}
        \cup {[Plain(Host("", Domain), <<"", "b1", "k.x">>) EXCEPT !.token = t] :
                t \in {NoToken, Token("p1", "s2"), Token("p2", "s1"), Token("p1", "")}}
=============================================================================
