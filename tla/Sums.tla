-------------------------------- MODULE Sums --------------------------------
EXTENDS Integers, FiniteSets, FiniteSetsExt

(* The sum of f[x] over the x in S: shares or money over symbols, sleeves or *)
(* orders.                                                                   *)
SumOver(f, S) == MapThenSumSet(LAMBDA x : f[x], S)
=============================================================================
