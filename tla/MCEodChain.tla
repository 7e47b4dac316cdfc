----------------------------- MODULE MCEodChain -----------------------------
(* Instances of EodChain for TLC: a short chain with every kind of step.   *)
(* 1 resolves the dataset (blocking, one attempt), 2 needs its values      *)
(* (blocking), 3 is independent and 4 does not apply.                      *)
EXTENDS EodChain

Attempts == [s \in Steps |-> IF s = 1 THEN 1 ELSE 2]
=============================================================================
