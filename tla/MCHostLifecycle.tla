-------------------------- MODULE MCHostLifecycle --------------------------
(* Small instances of HostLifecycle. *)
EXTENDS HostLifecycle, TLC

CONSTANTS a1, a2, p1, p2, k1, k2

Symmetry == Permutations(Adk) \cup Permutations(Pid) \cup Permutations(Call)
=============================================================================
