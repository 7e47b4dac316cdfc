---------------------------- MODULE SubmissionFeeds ----------------------------
(***************************************************************************)
(* How OrderSubmission, which ends with an order at the broker and a row   *)
(* in the books, joins OrderReconciliation, which begins there.            *)
(***************************************************************************)
EXTENDS OrderSubmission

(* The state of OrderReconciliation that a submission's state stands for:  *)
(* nothing polled, nothing filled, no reconciler.                          *)
Reconciliation == INSTANCE OrderReconciliation WITH
  Orders <- Intents, NoOrder <- NoIntent, Qty <- 1, Reconcilers <- {},
  Portfolio <- FALSE, Misbehaviour <- {"lost_ack"}, MaxFaults <- 0,
  broker  <- [i \in Intents |->
                [status |-> IF Live(i) THEN "new" ELSE "none", filled |-> 0]],
  seen    <- [i \in Intents |-> IF Live(i) THEN {[status |-> "new", filled |-> 0]} ELSE {}],
  sub     <- [i \in Intents |-> IF row[i] # "none" THEN "done"
                                ELSE IF Live(i) THEN "sent" ELSE "todo"],
  tracked <- [i \in Intents |->
                [status |-> IF row[i] = "none" THEN "UNTRACKED" ELSE row[i],
                 filled |-> 0, open |-> row[i] = "SUBMITTED"]],
  fills   <- [i \in Intents |-> 0],
  ledger  <- [i \in Intents |-> 0],
  sleeve  <- [i \in Intents |-> 0],
  pc <- <<>>, todo <- <<>>, input <- <<>>, cur <- <<>>, answer <- <<>>,
  result <- <<>>, loaded <- <<>>, faults <- 0

(* Seen from the reconciliation job, submission is the short exchange      *)
(* OrderReconciliation makes of it: accepted, then recorded, with the      *)
(* answer possibly lost.                                                   *)
FeedsReconciliation == Reconciliation!Spec
================================================================================
