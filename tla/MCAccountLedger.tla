--------------------------- MODULE MCAccountLedger ---------------------------
(* Instances for TLC: a buy of two shares, a buy and a sale of one.            *)
EXTENDS AccountLedger

CONSTANTS b1, b2, s1

Sizes == [o \in {b1, b2, s1} |-> IF o = b1 THEN 2 ELSE 1]
OneRun == [o \in {b1, b2, s1} |-> "r1"]
TwoRuns == [o \in {b1, b2, s1} |-> IF o = b2 THEN "r2" ELSE "r1"]
SteadyPrices == [o \in {b1, b2, s1} |-> IF o = b1 THEN {2} ELSE {1, 3}]
MovingPrices == [o \in {b1, b2, s1} |-> {1, 3}]
=============================================================================
