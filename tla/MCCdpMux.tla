------------------------------ MODULE MCCdpMux ------------------------------
(* Instances of CdpMux for TLC. *)
EXTENDS CdpMux, TLC

CONSTANTS c1, c2, o1, t1, t2, s1, s2, s3

\* Connections and sessions are interchangeable in the safety runs.
Symmetry == Permutations(Conn) \cup Permutations(Session)
=============================================================================
