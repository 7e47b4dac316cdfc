---------------------------- MODULE OrderPromise ----------------------------
(***************************************************************************)
(* What order handling promises, whatever polls, restarts and stale        *)
(* answers it goes through: shares the broker executes are booked at most  *)
(* once, a booked share is posted to the ledger at most once, and an order *)
(* is closed only when it can execute no more and everything it executed   *)
(* has been booked.                                                        *)
(***************************************************************************)
EXTENDS Integers

CONSTANTS Orders, Qty

VARIABLES
  executed,  \* [order -> shares the broker executed]
  life,      \* [order -> "unsent", "working", or "final": executes no more]
  booked,    \* [order -> shares booked as fills]
  posted,    \* [order -> shares posted to the ledger]
  closed     \* [order -> the platform considers it finished]

vars == <<executed, life, booked, posted, closed>>

Init ==
  /\ executed = [o \in Orders |-> 0]
  /\ life = [o \in Orders |-> "unsent"]
  /\ booked = [o \in Orders |-> 0]
  /\ posted = [o \in Orders |-> 0]
  /\ closed = [o \in Orders |-> FALSE]

Send(o) ==
  /\ life[o] = "unsent" /\ ~closed[o]
  /\ life' = [life EXCEPT ![o] = "working"]
  /\ UNCHANGED <<executed, booked, posted, closed>>

(* The broker executes shares, and may be done with the order. *)
Execute(o) ==
  /\ life[o] = "working"
  /\ \E n \in executed[o] .. Qty : executed' = [executed EXCEPT ![o] = n]
  /\ \E l \in {"working", "final"} : life' = [life EXCEPT ![o] = l]
  /\ UNCHANGED <<booked, posted, closed>>

(* A refused order is closed without ever being sent. *)
Refuse(o) ==
  /\ life[o] = "unsent" /\ ~closed[o]
  /\ closed' = [closed EXCEPT ![o] = TRUE]
  /\ UNCHANGED <<executed, life, booked, posted>>

(* Book executed shares, post booked ones, close what is fully booked. *)
Settle(o) ==
  /\ ~closed[o]
  /\ \E b \in booked[o] .. executed[o] : \E p \in posted[o] .. b :
       /\ booked' = [booked EXCEPT ![o] = b]
       /\ posted' = [posted EXCEPT ![o] = p]
       /\ \E c \in {FALSE, life[o] = "final" /\ b = executed[o]} :
            closed' = [closed EXCEPT ![o] = c]
  /\ UNCHANGED <<executed, life>>

(* The ledger may trail the closing of the order. *)
Post(o) ==
  /\ \E p \in posted[o] .. booked[o] : posted' = [posted EXCEPT ![o] = p]
  /\ UNCHANGED <<executed, life, booked, closed>>

Next == \E o \in Orders : Send(o) \/ Execute(o) \/ Refuse(o) \/ Settle(o) \/ Post(o)

Spec == Init /\ [][Next]_vars
=============================================================================
