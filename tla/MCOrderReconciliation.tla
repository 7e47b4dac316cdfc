----------------------- MODULE MCOrderReconciliation -----------------------
(* Instances of OrderReconciliation for TLC. *)
EXTENDS OrderReconciliation, TLC

CONSTANTS o1, o2, r1

Symmetry == Permutations(Orders)
=============================================================================
