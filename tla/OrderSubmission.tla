--------------------------- MODULE OrderSubmission ---------------------------
(***************************************************************************)
(* One run of the order submission job: the throttle and the gross cap     *)
(* each intent is held against, OrderExecutionService.submit with its      *)
(* retries and its idempotency lookup, and the row the job commits when    *)
(* it knows, or believes it knows, what became of the order.  The network  *)
(* and the broker are external: a request may be lost, refused, accepted   *)
(* with its answer lost, or still be under way when the client gives up.   *)
(***************************************************************************)
EXTENDS Integers, FiniteSets

CONSTANTS
  Intents,       \* generated_intents of the bar, each of one unit of notional
  NoIntent,      \* no intent in hand: not one of Intents
  SlotOf,        \* [intent -> its strategy, symbol and side]
  MaxAttempts,   \* max_attempts of OrderExecutionService
  MaxOrders,     \* the tighter of max_orders_per_bar and max_orders_per_hour
  Room,          \* units left under the gross exposure cap as the tick starts
  Misbehaviour,  \* what the environment may do, a subset of Misbehaviours
  MaxFaults      \* bound on crashes, database errors and failed lookups

(* no_dedup:     the broker takes two orders with one client_order_id.     *)
(* late_arrival: a request can reach the broker after the client gave up.  *)
(* accepted_5xx: an order the broker took is answered with a server error. *)
Misbehaviours == {"no_dedup", "late_arrival", "accepted_5xx"}

ASSUME IntentAssumption == NoIntent \notin Intents
ASSUME LimitAssumption ==
  /\ MaxAttempts \in Nat \ {0}
  /\ MaxOrders \in Nat /\ Room \in Nat /\ MaxFaults \in Nat
ASSUME EnvironmentAssumption == Misbehaviour \subseteq Misbehaviours

VARIABLES
  shadow,    \* shadow mode: nothing is sent
  pc,        \* where the job is
  todo,      \* intents not yet looked at
  cur,       \* the intent in hand
  attempt,   \* submissions tried for it
  request,   \* [intent -> [attempt -> what became of that request]]
  row,       \* [intent -> its tracked order's status, or "none"]
  reserved,  \* intents that hold a throttle reservation
  noted,     \* intents the risk state counts as submitted
  faults     \* crashes and errors so far

vars == <<shadow, pc, todo, cur, attempt, request, row, reserved, noted, faults>>

Attempts == 1 .. MaxAttempts
Fates    == {"unsent", "flying", "live", "refused", "lost"}
Ended    == {"completed", "failed", "dead"}

TypeOK ==
  /\ shadow \in BOOLEAN
  /\ pc \in {"pick", "send", "sent", "lookup", "accepted", "refused", "raised"} \cup Ended
  /\ todo \subseteq Intents
  /\ cur \in Intents \cup {NoIntent}
  /\ attempt \in 0 .. MaxAttempts
  /\ request \in [Intents -> [Attempts -> Fates]]
  /\ row \in [Intents -> {"none", "SUBMITTED", "REJECTED"}]
  /\ reserved \subseteq Intents
  /\ noted \subseteq Intents
  /\ faults \in 0 .. MaxFaults

Init ==
  /\ shadow \in BOOLEAN
  /\ pc = "pick"
  /\ todo = Intents
  /\ cur = NoIntent
  /\ attempt = 0
  /\ request = [i \in Intents |-> [a \in Attempts |-> "unsent"]]
  /\ row = [i \in Intents |-> "none"]
  /\ reserved = {}
  /\ noted = {}
  /\ faults = 0

LiveRequests(i) == {a \in Attempts : request[i][a] = "live"}
Live(i) == LiveRequests(i) # {}
Fate == request[cur][attempt]

Faulty == faults < MaxFaults /\ faults' = faults + 1

-----------------------------------------------------------------------------
(* The network and the broker (external).                                  *)

Become(i, a, fate) == request' = [request EXCEPT ![i][a] = fate]

(* The client is still waiting for the answer to this request. *)
Awaited(i, a) == pc = "sent" /\ cur = i /\ attempt = a

Taken(i, a) ==
  /\ request[i][a] = "flying"
  /\ Awaited(i, a) \/ "late_arrival" \in Misbehaviour
  /\ IF Live(i) /\ "no_dedup" \notin Misbehaviour
     THEN Become(i, a, "refused")
     ELSE \E fate \in {"live", "refused"} : Become(i, a, fate)
  /\ UNCHANGED <<shadow, pc, todo, cur, attempt, row, reserved, noted, faults>>

Lost(i, a) ==
  /\ request[i][a] = "flying"
  /\ Become(i, a, "lost")
  /\ UNCHANGED <<shadow, pc, todo, cur, attempt, row, reserved, noted, faults>>

-----------------------------------------------------------------------------
(* The checks before an order is sent.                                     *)

(* The throttle: too many orders in the bar or the hour, or a second one   *)
(* for the same strategy, symbol and side.                                 *)
Throttled(i) ==
  \/ Cardinality(reserved) >= MaxOrders
  \/ \E j \in reserved : SlotOf[j] = SlotOf[i]

(* The gross cap, against the opening exposure and the orders noted.       *)
OverCap == Cardinality(noted) + 1 > Room

(* Booking a rejection is best effort: a database error is swallowed.      *)
RecordRejection(i) ==
  \/ row' = [row EXCEPT ![i] = "REJECTED"] /\ UNCHANGED faults
  \/ Faulty /\ UNCHANGED row

ThrottleRefuses(i) ==
  /\ pc = "pick" /\ i \in todo
  /\ Throttled(i)
  /\ todo' = todo \ {i}
  /\ RecordRejection(i)
  /\ UNCHANGED <<shadow, pc, cur, attempt, request, reserved, noted>>

(* The throttle reserves before the dollar limits are checked, and the     *)
(* reservation is not given back.                                          *)
CapRefuses(i) ==
  /\ pc = "pick" /\ i \in todo
  /\ ~Throttled(i) /\ OverCap
  /\ todo' = todo \ {i}
  /\ reserved' = reserved \cup {i}
  /\ RecordRejection(i)
  /\ UNCHANGED <<shadow, pc, cur, attempt, request, noted>>

Admit(i) ==
  /\ pc = "pick" /\ i \in todo
  /\ ~Throttled(i) /\ ~OverCap
  /\ todo' = todo \ {i}
  /\ reserved' = reserved \cup {i}
  /\ IF shadow
     THEN UNCHANGED <<pc, cur, attempt>>
     ELSE pc' = "send" /\ cur' = i /\ attempt' = 0
  /\ UNCHANGED <<shadow, request, row, noted, faults>>

-----------------------------------------------------------------------------
(* OrderExecutionService.submit.                                           *)

Goto(step) == pc' = step /\ UNCHANGED <<shadow, todo, cur, attempt, request,
                                        row, reserved, noted, faults>>

(* The paper runtime safeguard refuses the payload before the first send.  *)
SafeguardStops == pc = "send" /\ attempt = 0 /\ Goto("raised")

Send ==
  /\ pc = "send"
  /\ attempt' = attempt + 1
  /\ Become(cur, attempt', "flying")
  /\ pc' = "sent"
  /\ UNCHANGED <<shadow, todo, cur, row, reserved, noted, faults>>

(* The order was accepted, by this attempt or, says the lookup, by an      *)
(* earlier one; the risk state counts it from now on.                      *)
AcceptUnnoted == Goto("accepted")  \* mutant: the risk state is not told

Accept ==
  /\ pc' = "accepted"
  /\ noted' = noted \cup {cur}
  /\ UNCHANGED <<shadow, todo, cur, attempt, request, row, reserved, faults>>

AnswerAccepted == pc = "sent" /\ Fate = "live" /\ Accept

(* A 4xx other than 408 and 429: BrokerOrderRejectedError, never retried.  *)
AnswerRefused == pc = "sent" /\ Fate = "refused" /\ Goto("refused")

AttemptsLeft == attempt < MaxAttempts

(* A 5xx, 408 or 429: retried without a lookup.                            *)
ServerError ==
  /\ pc = "sent"
  /\ Fate = "lost" \/ (Fate = "live" /\ "accepted_5xx" \in Misbehaviour)
  /\ Goto(IF AttemptsLeft THEN "send" ELSE "raised")

(* A timeout or a reset connection: nothing is known of the request.       *)
TransportErrorRefuses ==  \* mutant: out of attempts is taken for a refusal
  /\ pc = "sent"
  /\ Fate # "flying" \/ "late_arrival" \in Misbehaviour
  /\ Goto(IF AttemptsLeft THEN "lookup" ELSE "refused")

TransportError ==
  /\ pc = "sent"
  /\ Fate # "flying" \/ "late_arrival" \in Misbehaviour
  /\ Goto(IF AttemptsLeft THEN "lookup" ELSE "raised")

FindsAnyway == pc = "lookup" /\ Accept          \* mutant: a miss is a hit
MissIgnored == pc = "lookup" /\ Goto("send")     \* mutant: the answer is not read
MissWaits   == pc = "lookup" /\ Goto("lookup")   \* mutant: asks until it finds

LookupFinds  == pc = "lookup" /\ Live(cur) /\ Accept
LookupMisses == pc = "lookup" /\ ~Live(cur) /\ Goto("send")

LookupFails ==
  /\ pc = "lookup"
  /\ Faulty
  /\ pc' = "raised"
  /\ UNCHANGED <<shadow, todo, cur, attempt, request, row, reserved, noted>>

-----------------------------------------------------------------------------
(* What the job commits.                                                   *)

RecordSubmitted ==
  /\ pc = "accepted"
  /\ row' = [row EXCEPT ![cur] = "SUBMITTED"]
  /\ pc' = "pick"
  /\ UNCHANGED <<shadow, todo, cur, attempt, request, reserved, noted, faults>>

(* The answer cannot be mapped, or its transaction fails.                  *)
RecordFailsQuietly ==  \* mutant: the job goes on with the next intent
  /\ pc = "accepted"
  /\ Faulty
  /\ pc' = "pick"
  /\ UNCHANGED <<shadow, todo, cur, attempt, request, row, reserved, noted>>

RecordFails ==
  /\ pc = "accepted"
  /\ Faulty
  /\ pc' = "raised"
  /\ UNCHANGED <<shadow, todo, cur, attempt, request, row, reserved, noted>>

(* The broker refused this one order; the job goes on with the next.       *)
RecordRefused ==
  /\ pc = "refused"
  /\ RecordRejection(cur)
  /\ pc' = "pick"
  /\ UNCHANGED <<shadow, todo, cur, attempt, request, reserved, noted>>

(* Any other exception: the order is recorded as rejected, unless that     *)
(* fails too, and the job fails; the other intents are not looked at.      *)
RecordFailure ==
  /\ pc = "raised"
  /\ RecordRejection(cur)
  /\ pc' = "failed"
  /\ UNCHANGED <<shadow, todo, cur, attempt, request, reserved, noted>>

Finish == pc = "pick" /\ todo = {} /\ Goto("completed")

Crash ==
  /\ pc \notin Ended
  /\ Faulty
  /\ pc' = "dead"
  /\ UNCHANGED <<shadow, todo, cur, attempt, request, row, reserved, noted>>

-----------------------------------------------------------------------------
Network == \E i \in Intents, a \in Attempts : Taken(i, a) \/ Lost(i, a)

Check == \E i \in Intents : ThrottleRefuses(i) \/ CapRefuses(i) \/ Admit(i)

Submit ==
  \/ SafeguardStops \/ Send \/ AnswerAccepted \/ AnswerRefused
  \/ ServerError \/ TransportError \/ LookupFinds \/ LookupMisses

Record == RecordSubmitted \/ RecordRefused \/ RecordFailure \/ Finish

Next == Network \/ Check \/ Submit \/ LookupFails \/ Record \/ RecordFails \/ Crash

Spec == Init /\ [][Next]_vars

(* The job runs on, and every request it waits for is answered or given up.*)
FairSpec == Spec /\ WF_vars(Check \/ Submit \/ Record) /\ WF_vars(Network)

-----------------------------------------------------------------------------
(* Properties.                                                             *)

(* An intent never becomes two orders, even at a broker that does not      *)
(* refuse a repeated client_order_id: the lookup alone prevents it.        *)
OneOrderPerIntent == \A i \in Intents : Cardinality(LiveRequests(i)) =< 1

(* Between two intents, and when the job completes, the books and the      *)
(* broker agree on every intent that was not left to a swallowed error:    *)
(* what is recorded SUBMITTED is at the broker, what is at the broker is   *)
(* recorded, and what was rejected is dead.                                *)
BooksMatchBroker ==
  pc \in {"pick", "completed"} =>
    \A i \in Intents : Live(i) <=> row[i] = "SUBMITTED"

(* Wherever the job stops - an exception, a crash - at most one intent is  *)
(* in doubt: the one it had in hand.                                       *)
OneInDoubt ==
  \A i \in Intents : (Live(i) # (row[i] = "SUBMITTED")) => i = cur

(* The orders at the broker stay within the room under the gross cap and   *)
(* within the throttle, and no strategy has two for one symbol and side:   *)
(* an order accepted earlier in the tick counts against the later ones.    *)
WithinLimits ==
  LET live == {i \in Intents : Live(i)}
  IN /\ Cardinality(live) =< Room
     /\ Cardinality(live) =< MaxOrders
     /\ \A i, j \in live : SlotOf[i] = SlotOf[j] => i = j

(* The limits hold and every variable keeps to its range.                  *)
LimitsHold == TypeOK /\ WithinLimits

(* Every attempt is answered or given up within max_attempts, every intent *)
(* is dealt with or fails the job: the job ends.                           *)
JobEnds == <>(pc \in Ended)
=============================================================================
