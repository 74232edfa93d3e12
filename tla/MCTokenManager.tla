--------------------------- MODULE MCTokenManager ---------------------------
EXTENDS AssembledTokenManager, TLC

CONSTANTS f1, f2, s1, s2

MCSubject == (f1 :> s1) @@ (f2 :> s2)
Symmetry == Permutations(Requests) \cup Permutations(Pairs)
=============================================================================
