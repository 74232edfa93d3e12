------------------------ MODULE MCMemoryLockManager ------------------------
(* Instances of MemoryLockManager for TLC. *)
EXTENDS MemoryLockManager, TLC

Symmetry == Permutations(Ids) \cup Permutations(Owners)
=============================================================================
