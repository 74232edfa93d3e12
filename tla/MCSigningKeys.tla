--------------------------- MODULE MCSigningKeys ---------------------------
EXTENDS SigningKeys

CONSTANTS none

\* The participant's DID document: methods for the versions of two transit keys, and the
\* operator's kids in each of the forms resolve_key accepts.
MCContexts == {"p"}
MCDocuments ==
    [c \in {"p"} |-> <<[fragment |-> "k1", key |-> [name |-> "a", version |-> 1]],
                        [fragment |-> "k2", key |-> [name |-> "b", version |-> 1]],
                        [fragment |-> "k3", key |-> [name |-> "a", version |-> 2]]>>]
MCKeyMappings ==
    {[key_name |-> "a", kid |-> [did |-> "p", fragment |-> "k1"]],
     [key_name |-> "b", kid |-> [did |-> none, fragment |-> "k2"]],
     [key_name |-> "a", kid |-> [did |-> "p", fragment |-> "k3"]]}
=============================================================================
