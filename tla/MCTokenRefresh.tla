--------------------------- MODULE MCTokenRefresh ---------------------------
EXTENDS TokenRefresh, TLC

CONSTANTS f1, t1, t2, consumer

MCSubject == f1 :> consumer
\* A caller of TokenClientApi may lock with an owner of its own; the token API handler
\* passes the identifier.
OwnerPerCall == (t1 :> "a") @@ (t2 :> "b")
OwnerIsIdentifier == (t1 :> "f1") @@ (t2 :> "f1")
MCOwners == {OwnerPerCall, OwnerIsIdentifier}
=============================================================================
