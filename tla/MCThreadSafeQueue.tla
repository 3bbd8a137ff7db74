-------------------------- MODULE MCThreadSafeQueue --------------------------
(***************************************************************************)
(* The queue with a mutex, for model checking.                             *)
(***************************************************************************)
EXTENDS ThreadSafeQueue, TLC

Symmetry == Permutations(Items) \cup Permutations(Producers)
=============================================================================
