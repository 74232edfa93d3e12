----------------------- MODULE MCPostgresLockManager -----------------------
(* Instances of PostgresLockManager for TLC. *)
EXTENDS PostgresLockManager, TLC

Symmetry == Permutations(Owners) \cup Permutations(Tasks)
=============================================================================
