--------------------------- MODULE MCTradingCycle ---------------------------
(* Instances of TradingCycle for TLC.                                      *)
EXTENDS TradingCycle

CONSTANTS c1, c2, o1, p1
=============================================================================
