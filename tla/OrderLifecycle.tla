--------------------------- MODULE OrderLifecycle ---------------------------
(***************************************************************************)
(* The order state machine and the translation of broker snapshots into    *)
(* it: OrderStateMachineService, BrokerOrderMapper and the pure part of    *)
(* OrderReconciliationService.  No state here; OrderReconciliation and     *)
(* OrderSubmission are built from these operators.                         *)
(***************************************************************************)
EXTENDS Integers

Statuses == {"NEW", "PENDING_NEW", "SUBMITTED", "PARTIALLY_FILLED",
             "PENDING_CANCEL", "FILLED", "CANCELED", "REJECTED", "EXPIRED"}

Events == {"PENDING_SUBMIT", "SUBMIT", "PARTIAL_FILL", "FULL_FILL",
           "REQUEST_CANCEL", "CANCEL", "REJECT", "EXPIRE"}

Terminal == {"FILLED", "CANCELED", "REJECTED", "EXPIRED"}

(* Statuses a reconciliation job lists, and from which a missing broker    *)
(* order expires the tracked one; the code keeps the two sets apart.       *)
CancelNotPolled == {"PENDING_NEW", "SUBMITTED", "PARTIALLY_FILLED"}  \* mutant

Reconcilable == {"PENDING_NEW", "SUBMITTED", "PARTIALLY_FILLED", "PENDING_CANCEL"}
Expirable    == {"PENDING_NEW", "SUBMITTED", "PARTIALLY_FILLED", "PENDING_CANCEL"}

(* VALID_TRANSITIONS as a relation: <<status, event, next status>>.  A     *)
(* missing entry is the KeyError the service turns into                    *)
(* InvalidOrderTransitionError.                                            *)
ValidTransitions ==
  {<<"NEW", "PENDING_SUBMIT", "PENDING_NEW">>,
   <<"NEW", "SUBMIT", "SUBMITTED">>,
   <<"NEW", "REJECT", "REJECTED">>,
   <<"PENDING_NEW", "SUBMIT", "SUBMITTED">>,
   <<"PENDING_NEW", "REJECT", "REJECTED">>,
   <<"PENDING_NEW", "EXPIRE", "EXPIRED">>,
   <<"SUBMITTED", "PARTIAL_FILL", "PARTIALLY_FILLED">>,
   <<"SUBMITTED", "FULL_FILL", "FILLED">>,
   <<"SUBMITTED", "CANCEL", "CANCELED">>,
   <<"SUBMITTED", "REJECT", "REJECTED">>,
   <<"SUBMITTED", "REQUEST_CANCEL", "PENDING_CANCEL">>,
   <<"SUBMITTED", "EXPIRE", "EXPIRED">>,
   <<"PARTIALLY_FILLED", "PARTIAL_FILL", "PARTIALLY_FILLED">>,
   <<"PARTIALLY_FILLED", "FULL_FILL", "FILLED">>,
   <<"PARTIALLY_FILLED", "CANCEL", "CANCELED">>,
   <<"PARTIALLY_FILLED", "REQUEST_CANCEL", "PENDING_CANCEL">>,
   <<"PARTIALLY_FILLED", "EXPIRE", "EXPIRED">>,
   <<"PENDING_CANCEL", "CANCEL", "CANCELED">>,
   <<"PENDING_CANCEL", "FULL_FILL", "FILLED">>,
   <<"PENDING_CANCEL", "PARTIAL_FILL", "PARTIALLY_FILLED">>,
   <<"PENDING_CANCEL", "EXPIRE", "EXPIRED">>}

(* apply_event: the set of next statuses, empty when the event raises.     *)
ApplyEvent(status, event) ==
  {next \in Statuses : <<status, event, next>> \in ValidTransitions}

Legal(from, to) == \E event \in Events : <<from, event, to>> \in ValidTransitions

(* Alpaca's order statuses (external), restricted to those an order of     *)
(* this platform can show; "stopped" stands for every status the mapper    *)
(* does not know.                                                          *)
BrokerStatuses == {"new", "pending_cancel", "partially_filled", "filled",
                   "canceled", "expired", "rejected", "suspended", "stopped"}

(* _map_order_status: the empty set is the ValueError on an unknown name.  *)
MapOrderStatus(b) ==
  CASE b = "new"                       -> {"SUBMITTED"}
    [] b = "pending_cancel"            -> {"PENDING_CANCEL"}
    [] b = "partially_filled"          -> {"PARTIALLY_FILLED"}
    [] b = "filled"                    -> {"FILLED"}
    [] b = "expired"                   -> {"EXPIRED"}
    [] b = "canceled"                  -> {"CANCELED"}
    [] b \in {"rejected", "suspended"} -> {"REJECTED"}
    [] OTHER                           -> {}

(* to_order_event: the set of events, empty for the None of an order that  *)
(* is still SUBMITTED or PENDING_NEW at the broker.                        *)
ToOrderEvent(status) ==
  CASE status = "PENDING_CANCEL"   -> {"REQUEST_CANCEL"}
    [] status = "PARTIALLY_FILLED" -> {"PARTIAL_FILL"}
    [] status = "FILLED"           -> {"FULL_FILL"}
    [] status = "CANCELED"         -> {"CANCEL"}
    [] status = "EXPIRED"          -> {"EXPIRE"}
    [] status = "REJECTED"         -> {"REJECT"}
    [] OTHER                       -> {}

(* reconcile_order: the next status of a tracked order whose broker status *)
(* maps to mapped.  No event, or the status it already has, leaves it      *)
(* alone; otherwise the state machine decides, and the empty set is its    *)
(* exception.                                                              *)
NextStatusUnchecked(status, mapped) == {mapped}  \* mutant: no state machine

NextStatus(status, mapped) ==
  IF ToOrderEvent(mapped) = {} \/ mapped = status
  THEN {status}
  ELSE UNION {ApplyEvent(status, event) : event \in ToOrderEvent(mapped)}

(* extract_incremental_fill: the quantity of the Fill it creates, 0 when   *)
(* it creates none (duplicate, regression, or no average price yet).       *)
FillDeltaCumulative(current, previous, priced) ==  \* mutant: not incremental
  IF current > previous /\ priced THEN current ELSE 0

FillDelta(current, previous, priced) ==
  IF current > previous /\ priced THEN current - previous ELSE 0

(* is_open as the runtime state service writes it.                         *)
IsOpen(status) == status \in {"SUBMITTED", "PARTIALLY_FILLED"}

Greater(m, n) == IF m >= n THEN m ELSE n
=============================================================================
