------------------------- MODULE MCOrderSubmission -------------------------
(* Instances of OrderSubmission for TLC: i1 and i2 are repeats of one      *)
(* strategy, symbol and side; i3 and i4 stand alone.                       *)
EXTENDS SubmissionFeeds

CONSTANTS i1, i2, i3, i4

Slots == [i \in Intents |-> IF i = i2 THEN i1 ELSE i]
=============================================================================
