---------------------------- MODULE MCOperations ----------------------------
(* Small instances of Operations. *)
EXTENDS Operations, TLC

CONSTANTS o1, o2, s1, s2, r1, r2

Symmetry == Permutations(Op) \cup Permutations(Session) \cup Permutations(Req)
=============================================================================
