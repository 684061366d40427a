------------------------------- MODULE MCPass2 -------------------------------
(* TLC instances of Pass2. *)
EXTENDS Pass2, TLC

Symmetry == Permutations(Threads) \cup Permutations(Locks)
=============================================================================
