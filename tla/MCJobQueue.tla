----------------------------- MODULE MCJobQueue -----------------------------
(* JobQueue for TLC. *)
EXTENDS JobQueue, TLC

Symmetric == Permutations(Jobs) \union Permutations(Replicas) \union Permutations(Requests)
=============================================================================
