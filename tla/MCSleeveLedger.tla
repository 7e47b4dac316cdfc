---------------------------- MODULE MCSleeveLedger ----------------------------
(* Instance for TLC: two strategies, of which the first holds two shares.      *)
EXTENDS SleeveLedger

Held == [s \in Sleeves |-> IF s = 1 THEN 2 ELSE 0]
=============================================================================
