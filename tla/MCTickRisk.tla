----------------------------- MODULE MCTickRisk -----------------------------
(* Instances of TickRisk for TLC. *)
EXTENDS TickRisk, TLC

CONSTANTS s1, s2

Symmetry == Permutations(Symbols)
=============================================================================
