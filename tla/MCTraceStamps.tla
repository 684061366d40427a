---------------------------- MODULE MCTraceStamps ----------------------------
(* TLC instances of TraceStamps. *)
EXTENDS TraceStamps, TLC

Symmetry == Permutations(Threads)
=============================================================================
