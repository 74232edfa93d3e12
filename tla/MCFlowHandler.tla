---------------------------- MODULE MCFlowHandler ----------------------------
EXTENDS FlowHandler, TLC

CONSTANTS f1

Claim(from, to, optional) == [from |-> from, to |-> to, optional |-> optional]

\* Expressions and what they evaluate to.
MCEvaluate(from) ==
    LET special == "unparseable" :> "invalid" @@ "absent" :> "fails" @@ "nothing" :> "null"
                   @@ "opaque" :> "no_json"
    IN  IF from \in DOMAIN special THEN special[from] ELSE from

\* Transfer types: the provider issues behind a static endpoint; the client issues,
\* with claims layered by the endpoint mapping that matches; the provider issues but
\* no endpoint matches; an optional claim whose value has no form in JSON; and a reserved
\* claim that only an endpoint mapping sets.
ByProvider == [token_source |-> "provider", endpoint |-> TRUE, endpoint_mappings |-> <<>>,
               tx_renewal_support |-> FALSE,
               claim_mappings |-> <<Claim("absent", "agreementId", TRUE), Claim("y", "b", FALSE)>>]
ByClient == [token_source |-> "client", endpoint |-> FALSE, tx_renewal_support |-> FALSE,
             endpoint_mappings |-> <<[value |-> "north", claim_mappings |-> <<>>],
                                     [value |-> "south",
                                      claim_mappings |-> <<Claim("z", "c", FALSE),
                                                           Claim("nothing", "a", TRUE)>>]>>,
             claim_mappings |-> <<Claim("x", "a", FALSE), Claim("y", "b", FALSE)>>]
Unmatched == [ByProvider EXCEPT !.tx_renewal_support = TRUE,
                                !.endpoint_mappings = <<[value |-> "north",
                                                         claim_mappings |-> <<>>]>>]
Unwritable == [ByClient EXCEPT !.tx_renewal_support = TRUE,
                               !.claim_mappings = <<Claim("opaque", "b", TRUE)>>]
ReservedInEndpoint ==
    [ByClient EXCEPT !.endpoint_mappings[2].claim_mappings = <<Claim("x", "iss", FALSE)>>]
MCProfile == f1 :> "http"
MCMetadata == f1 :> "south"
MCConfig == [pl \in Planes |-> "http" :> ByProvider]
MCSubmissions ==
    [consumer |-> {"http" :> ByClient, "http" :> Unwritable, "http" :> ReservedInEndpoint,
                   "s3" :> ByProvider},
     provider |-> {"http" :> ByClient, "http" :> Unmatched}]
=============================================================================
