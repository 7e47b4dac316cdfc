----------------------- MODULE OrderSubmissionProofs -----------------------
(***************************************************************************)
(* For any intents, attempts, limits and faults: what the submission job   *)
(* leaves at the broker and in its books, as long as no request arrives    *)
(* after the client gave up and a server error means the order was not     *)
(* taken.  SubmitInv says what is known of the intent in hand at each step *)
(* and of all the others; the last part refines OrderReconciliation.       *)
(***************************************************************************)
EXTENDS SubmissionFeeds, FiniteSetTheorems, TLAPS

-----------------------------------------------------------------------------
(* Types                                                                   *)

InHand == {"send", "sent", "lookup", "accepted", "refused", "raised"}

(* TypeOK, and an intent is in hand when a step needs one.                 *)
TypeInv ==
  /\ TypeOK
  /\ pc \in InHand => cur \in Intents
  /\ pc = "send" => attempt < MaxAttempts
  /\ pc \in {"sent", "lookup"} => attempt \in Attempts
  /\ pc = "lookup" => attempt < MaxAttempts

(* The initial state is typed.                                            *)
LEMMA TypeInit == Init => TypeInv
BY LimitAssumption DEF Init, TypeInv, TypeOK, Fates, InHand

(* Changing the fate of one request keeps the table of requests typed.     *)
LEMMA BecomeTypes ==
  ASSUME TypeOK, NEW i \in Intents, NEW a \in Attempts, NEW fate \in Fates, Become(i, a, fate)
  PROVE  /\ request' \in [Intents -> [Attempts -> Fates]]
         /\ request'[i][a] = fate
         /\ \A b \in Attempts : b # a => request'[i][b] = request[i][b]
         /\ \A j \in Intents : j # i => request'[j] = request[j]
BY DEF TypeOK, Become

(* Recording a rejection keeps the types and touches one row.             *)
LEMMA RejectionTypes ==
  ASSUME TypeOK, NEW i \in Intents, RecordRejection(i)
  PROVE  /\ row' \in [Intents -> {"none", "SUBMITTED", "REJECTED"}]
         /\ faults' \in 0 .. MaxFaults
         /\ \A j \in Intents : j # i => row'[j] = row[j]
         /\ row'[i] \in {row[i], "REJECTED"}
BY LimitAssumption DEF TypeOK, RecordRejection, Faulty

(* A fault is counted up to its bound.                                    *)
LEMMA FaultyTypes == ASSUME TypeOK, Faulty PROVE faults' \in 0 .. MaxFaults
BY LimitAssumption DEF TypeOK, Faulty

(* What becomes of a request keeps the types.                             *)
LEMMA NetworkTypes ==
  ASSUME TypeInv, NEW i \in Intents, NEW a \in Attempts, Taken(i, a) \/ Lost(i, a)
  PROVE  TypeInv' /\ UNCHANGED <<shadow, pc, todo, cur, attempt, row, reserved, noted, faults>>
<1>1. UNCHANGED <<shadow, pc, todo, cur, attempt, row, reserved, noted, faults>>
  BY DEF Taken, Lost
<1>2. \E fate \in {"live", "refused", "lost"} : Become(i, a, fate)
  BY DEF Taken, Lost
<1>3. request' \in [Intents -> [Attempts -> Fates]]
  BY <1>2, BecomeTypes DEF TypeInv, Fates
<1> QED
  BY <1>1, <1>3 DEF TypeInv, TypeOK

(* The checks before sending keep the types.                              *)
LEMMA CheckTypes ==
  ASSUME TypeInv, NEW i \in Intents, ThrottleRefuses(i) \/ CapRefuses(i) \/ Admit(i)
  PROVE  TypeInv'
<1>1. CASE ThrottleRefuses(i) \/ CapRefuses(i)
  BY <1>1, RejectionTypes DEF ThrottleRefuses, CapRefuses, TypeInv, TypeOK, InHand
<1>2. CASE Admit(i)
  BY <1>2, LimitAssumption DEF Admit, TypeInv, TypeOK, InHand
<1> QED
  BY <1>1, <1>2

(* Sending, retrying and looking up keep the types.                       *)
LEMMA SubmitTypes == ASSUME TypeInv, Submit \/ LookupFails PROVE TypeInv'
<1>1. CASE Send
  <2>1. attempt' \in Attempts /\ attempt' = attempt + 1 /\ cur \in Intents
    BY <1>1, LimitAssumption DEF Send, TypeInv, TypeOK, Attempts, InHand
  <2>2. request' \in [Intents -> [Attempts -> Fates]]
    BY <1>1, <2>1, BecomeTypes DEF Send, TypeInv, Fates
  <2> QED
    BY <1>1, <2>1, <2>2 DEF Send, TypeInv, TypeOK, Attempts, InHand
<1>2. CASE SafeguardStops \/ AnswerRefused \/ LookupMisses
  BY <1>2 DEF SafeguardStops, AnswerRefused, LookupMisses, Goto, TypeInv, TypeOK, InHand
<1>3. CASE AnswerAccepted \/ LookupFinds
  BY <1>3 DEF AnswerAccepted, LookupFinds, Accept, TypeInv, TypeOK, InHand
<1>4. CASE ServerError \/ TransportError
  BY <1>4 DEF ServerError, TransportError, Goto, AttemptsLeft, TypeInv, TypeOK, InHand
<1>5. CASE LookupFails
  BY <1>5, FaultyTypes DEF LookupFails, TypeInv, TypeOK, InHand
<1> QED
  BY <1>1, <1>2, <1>3, <1>4, <1>5 DEF Submit

(* Recording keeps the types.                                             *)
LEMMA RecordTypes == ASSUME TypeInv, Record \/ RecordFails \/ Crash PROVE TypeInv'
<1>1. CASE RecordSubmitted
  BY <1>1 DEF RecordSubmitted, TypeInv, TypeOK, InHand
<1>2. CASE RecordRefused \/ RecordFailure
  BY <1>2, RejectionTypes DEF RecordRefused, RecordFailure, TypeInv, TypeOK, InHand, Ended
<1>3. CASE Finish
  BY <1>3 DEF Finish, Goto, TypeInv, TypeOK, InHand, Ended
<1>4. CASE RecordFails \/ Crash
  BY <1>4, FaultyTypes DEF RecordFails, Crash, TypeInv, TypeOK, InHand, Ended
<1> QED
  BY <1>1, <1>2, <1>3, <1>4 DEF Record

(* Every step keeps the types.                                            *)
LEMMA TypeStep == ASSUME TypeInv, [Next]_vars PROVE TypeInv'
<1>1. CASE UNCHANGED vars
  BY <1>1 DEF vars, TypeInv, TypeOK
<1> QED
  BY <1>1, NetworkTypes, CheckTypes, SubmitTypes, RecordTypes DEF Next, Network, Check


-----------------------------------------------------------------------------
(* What is known of the intents                                            *)

(* The environment of these proofs: an order that was answered, or given   *)
(* up, does not appear later.                                              *)
Prompt == Misbehaviour \subseteq {"no_dedup"}

(* Intents not yet looked at have nothing anywhere.                        *)
TodoIsFresh ==
  /\ cur \notin todo
  /\ \A i \in todo : ~Live(i) /\ row[i] = "none" /\ i \notin reserved

(* An intent has one live request at most; while its answer is awaited it  *)
(* is the one of this attempt, and before that there is none.              *)
OneLive ==
  /\ \A i \in Intents : \A a, b \in LiveRequests(i) : a = b
  /\ pc \in {"send", "refused"} => ~Live(cur)
  /\ pc = "sent" => LiveRequests(cur) \subseteq {attempt}
  /\ pc = "accepted" => Live(cur)

(* The intent in hand has no row yet, and the others are settled.          *)
Settled ==
  /\ \A i \in Intents \ {cur} : Live(i) <=> row[i] = "SUBMITTED"
  /\ pc \in {"pick", "completed"} /\ cur \in Intents =>
       (Live(cur) <=> row[cur] = "SUBMITTED")
  /\ pc \in InHand => row[cur] = "none"

(* What is live was counted by the risk state, the one in hand perhaps     *)
(* not yet, and holds a reservation.                                       *)
Counted ==
  /\ \A i \in Intents \ {cur} : Live(i) => i \in noted
  /\ pc = "accepted" => cur \in noted
  /\ pc \in {"pick", "completed"} /\ cur \in Intents /\ Live(cur) => cur \in noted
  /\ noted \subseteq reserved
  /\ cur \in Intents => cur \in reserved

(* The limits, for the orders noted and the one in hand.                   *)
Held == IF cur \in Intents THEN noted \cup {cur} ELSE noted
Limits ==
  /\ IsFiniteSet(reserved)
  /\ Cardinality(reserved) =< MaxOrders
  /\ Cardinality(Held) =< Room
  /\ \A i, j \in reserved : SlotOf[i] = SlotOf[j] => i = j

SubmitInv == TypeInv /\ TodoIsFresh /\ OneLive /\ Settled /\ Counted /\ Limits

(* Nothing is sent at the start.                                          *)
LEMMA SubmitInit == Init => SubmitInv
<1> SUFFICES ASSUME Init PROVE SubmitInv
  OBVIOUS
<1>1. \A i \in Intents : LiveRequests(i) = {}
  BY DEF Init, LiveRequests
<1>2. cur \notin Intents /\ reserved = {} /\ noted = {} /\ pc = "pick" /\ todo = Intents
      /\ \A i \in Intents : row[i] = "none"
  BY IntentAssumption DEF Init
<1>3. TodoIsFresh /\ OneLive /\ Settled /\ Counted
  BY <1>1, <1>2 DEF TodoIsFresh, OneLive, Settled, Counted, Live, InHand
<1>4. Limits
  BY <1>2, FS_EmptySet, LimitAssumption DEF Limits, Held
<1> QED
  BY TypeInit, <1>3, <1>4 DEF SubmitInv

(* The broker takes only the request the job is waiting for.               *)
LEMMA NetworkKeeps ==
  ASSUME SubmitInv, Prompt, NEW i \in Intents, NEW a \in Attempts, Taken(i, a) \/ Lost(i, a)
  PROVE  SubmitInv'
<1>1. TypeInv' /\ UNCHANGED <<shadow, pc, todo, cur, attempt, row, reserved, noted, faults>>
  BY NetworkTypes DEF SubmitInv
<1>2. PICK fate \in Fates : Become(i, a, fate) /\ (fate = "live" => Awaited(i, a))
  BY DEF Taken, Lost, Fates, Prompt
<1>3. request[i][a] = "flying"
  BY DEF Taken, Lost
<1>4. \A j \in Intents \ {i} : LiveRequests(j)' = LiveRequests(j)
  BY <1>2, BecomeTypes DEF LiveRequests, SubmitInv, TypeInv
<1>5. LiveRequests(i)' = IF fate = "live" THEN LiveRequests(i) \cup {a} ELSE LiveRequests(i)
  BY <1>2, <1>3, BecomeTypes DEF LiveRequests, SubmitInv, TypeInv
<1>6. CASE fate # "live"
  <2>1. \A j \in Intents : LiveRequests(j)' = LiveRequests(j)
    BY <1>4, <1>5, <1>6
  <2>2. pc \in InHand => cur \in Intents
    BY DEF SubmitInv, TypeInv
  <2>3. \A j \in todo : j \in Intents
    BY DEF SubmitInv, TypeInv, TypeOK
  <2> QED
    BY <1>1, <2>1, <2>2, <2>3
    DEF SubmitInv, TodoIsFresh, OneLive, Settled, Counted, Limits, Held, Live, InHand
<1>7. CASE fate = "live"
  <2>1. i = cur /\ a = attempt /\ pc = "sent"
    BY <1>2, <1>7 DEF Awaited
  <2>2. LiveRequests(cur)' = {attempt} /\ Live(cur)'
    BY <1>1, <1>5, <1>7, <2>1 DEF SubmitInv, OneLive, Live
  <2>3. \A j \in todo : j \in Intents \ {cur}
    BY DEF SubmitInv, TypeInv, TypeOK, TodoIsFresh
  <2>4. TodoIsFresh' /\ OneLive' /\ Settled' /\ Counted' /\ Limits'
    BY <1>1, <1>4, <2>1, <2>2, <2>3
    DEF SubmitInv, TodoIsFresh, OneLive, Settled, Counted, Limits, Held, Live, InHand
  <2> QED
    BY <1>1, <2>4 DEF SubmitInv
<1> QED
  BY <1>6, <1>7

(* A finite set grows by at most one with one element more.               *)
LEMMA OneMore ==
  ASSUME NEW S, NEW x, IsFiniteSet(S)
  PROVE  /\ IsFiniteSet(S \cup {x}) /\ Cardinality(S) \in Nat /\ Cardinality(S \cup {x}) \in Nat
         /\ Cardinality(S \cup {x}) =< Cardinality(S) + 1
<1>1. IsFiniteSet(S \cup {x})
  BY FS_AddElement
<1>2. Cardinality(S) \in Nat /\ Cardinality(S \cup {x}) \in Nat
  BY <1>1, FS_CardinalityType
<1>3. CASE x \in S
  <2>1. Cardinality(S \cup {x}) = Cardinality(S)
    BY <1>3, FS_AddElement
  <2> QED
    BY <1>1, <1>2, <2>1
<1>4. CASE x \notin S
  <2>1. Cardinality(S \cup {x}) = Cardinality(S) + 1
    BY <1>4, FS_AddElement
  <2> QED
    BY <1>1, <1>2, <2>1
<1> QED
  BY <1>3, <1>4

(* A new reservation: within the throttle's limits.                        *)
LEMMA ReserveKeeps ==
  ASSUME SubmitInv, NEW i \in Intents, ~Throttled(i)
  PROVE  /\ IsFiniteSet(reserved \cup {i})
         /\ Cardinality(reserved \cup {i}) =< MaxOrders
         /\ \A j, k \in reserved \cup {i} : SlotOf[j] = SlotOf[k] => j = k
<1>1. IsFiniteSet(reserved) /\ Cardinality(reserved) \in Nat
  BY FS_CardinalityType DEF SubmitInv, Limits
<1>2. Cardinality(reserved) < MaxOrders
  BY <1>1, LimitAssumption DEF Throttled
<1>3. IsFiniteSet(reserved \cup {i}) /\ Cardinality(reserved \cup {i}) =< Cardinality(reserved) + 1
  BY <1>1, OneMore
<1>4. Cardinality(reserved \cup {i}) \in Nat
  BY <1>1, OneMore
<1> QED
  BY <1>1, <1>2, <1>3, <1>4, LimitAssumption DEF Throttled, SubmitInv, Limits

(* Picking another intent leaves the one in hand before it settled.        *)
LEMMA CheckKeeps ==
  ASSUME SubmitInv, NEW i \in Intents, ThrottleRefuses(i) \/ CapRefuses(i) \/ Admit(i)
  PROVE  SubmitInv'
<1>1. pc = "pick" /\ i \in todo /\ todo' = todo \ {i}
      /\ UNCHANGED <<shadow, request, noted>>
  BY DEF ThrottleRefuses, CapRefuses, Admit
<1>2. i # cur /\ ~Live(i) /\ row[i] = "none" /\ i \notin reserved /\ i \notin noted
  BY <1>1 DEF SubmitInv, TodoIsFresh, Counted
<1>3. \A j \in Intents : LiveRequests(j)' = LiveRequests(j)
  BY <1>1 DEF LiveRequests
<1>4. TypeInv'
  BY CheckTypes DEF SubmitInv
<1>5. reserved' = reserved \/ (~Throttled(i) /\ reserved' = reserved \cup {i})
  BY DEF ThrottleRefuses, CapRefuses, Admit
<1>6. /\ IsFiniteSet(reserved') /\ Cardinality(reserved') =< MaxOrders
      /\ \A j, k \in reserved' : SlotOf[j] = SlotOf[k] => j = k
  BY <1>5, ReserveKeeps DEF SubmitInv, Limits
<1>7. \A j \in todo : j \in Intents
  BY DEF SubmitInv, TypeInv, TypeOK
<1>8. CASE ThrottleRefuses(i) \/ CapRefuses(i) \/ (Admit(i) /\ shadow)
  <2>1. UNCHANGED <<pc, cur, attempt>>
    BY <1>8 DEF ThrottleRefuses, CapRefuses, Admit
  <2>2. /\ \A j \in Intents \ {i} : row'[j] = row[j]
        /\ row'[i] # "SUBMITTED"
    BY <1>2, <1>8, RejectionTypes DEF ThrottleRefuses, CapRefuses, Admit, SubmitInv, TypeInv
  <2>3. TodoIsFresh' /\ OneLive' /\ Settled' /\ Counted' /\ Limits'
    BY <1>1, <1>2, <1>3, <1>5, <1>6, <1>7, <2>1, <2>2
    DEF SubmitInv, TodoIsFresh, OneLive, Settled, Counted, Limits, Held, Live, InHand
  <2> QED
    BY <1>4, <2>3 DEF SubmitInv
<1>9. CASE Admit(i) /\ ~shadow
  <2>1. /\ pc' = "send" /\ cur' = i /\ UNCHANGED row
        /\ reserved' = reserved \cup {i} /\ ~OverCap
    BY <1>9 DEF Admit
  <2>2. \A j \in Intents : Live(j) <=> row[j] = "SUBMITTED"
    BY <1>1 DEF SubmitInv, Settled
  <2>3. \A j \in Intents : Live(j) => j \in noted
    BY <1>1 DEF SubmitInv, Counted
  <2>4. Cardinality(noted \cup {i}) =< Room
    <3>1. IsFiniteSet(noted) /\ Cardinality(noted) \in Nat
      BY FS_Subset, FS_CardinalityType DEF SubmitInv, Limits, Counted
    <3>2. IsFiniteSet(noted \cup {i}) /\ Cardinality(noted \cup {i}) =< Cardinality(noted) + 1
      BY <3>1, OneMore
    <3>3. Cardinality(noted \cup {i}) \in Nat
      BY <3>1, OneMore
    <3> QED
      BY <2>1, <3>1, <3>2, <3>3, LimitAssumption DEF OverCap
  <2>5. TodoIsFresh' /\ OneLive' /\ Settled' /\ Counted'
    BY <1>1, <1>2, <1>3, <1>7, <2>1, <2>2, <2>3
    DEF SubmitInv, TodoIsFresh, OneLive, Settled, Counted, Live, InHand
  <2>6. Limits'
    BY <1>1, <1>6, <2>1, <2>4 DEF Limits, Held
  <2> QED
    BY <1>4, <2>5, <2>6 DEF SubmitInv
<1> QED
  BY <1>8, <1>9 DEF ThrottleRefuses, CapRefuses, Admit


(* A step of the intent in hand that leaves requests and rows alone.       *)
LEMMA MovesOn ==
  ASSUME SubmitInv, TypeInv', UNCHANGED <<todo, cur, row, reserved>>,
         \A i \in Intents : LiveRequests(i)' = LiveRequests(i),
         noted' = noted \/ (noted' = noted \cup {cur} /\ cur \in Intents),
         pc \in InHand, pc' \in {"send", "lookup", "accepted", "refused", "raised"} \cup {"dead"},
         pc' \in {"send", "refused"} => ~Live(cur),
         pc' = "accepted" => Live(cur) /\ cur \in noted'
  PROVE  SubmitInv'
<1>1. cur \in Intents /\ cur' = cur /\ (\A i \in todo : i \in Intents)
  BY DEF SubmitInv, TypeInv, TypeOK
<1>2. TodoIsFresh'
  BY <1>1 DEF SubmitInv, TodoIsFresh, Live
<1>3. OneLive'
  BY <1>1 DEF SubmitInv, OneLive, Live
<1>4. Settled'
  BY <1>1 DEF SubmitInv, Settled, Live, InHand
<1>5. Counted'
  BY <1>1 DEF SubmitInv, Counted, Live
<1>6. Limits'
  <2>1. Held' = Held
    BY <1>1 DEF Held
  <2> QED
    BY <2>1 DEF SubmitInv, Limits
<1> QED
  BY <1>2, <1>3, <1>4, <1>5, <1>6 DEF SubmitInv

(* A request is sent only when the earlier ones of its intent are dead.   *)
LEMMA SendKeeps == ASSUME SubmitInv, Send PROVE SubmitInv'
<1>1. /\ attempt' = attempt + 1 /\ Become(cur, attempt', "flying") /\ pc = "send" /\ pc' = "sent"
      /\ UNCHANGED <<shadow, todo, cur, row, reserved, noted, faults>>
  BY DEF Send
<1>2. TypeInv' /\ TypeInv /\ TypeOK
  BY SubmitTypes DEF SubmitInv, Submit, TypeInv
<1>3. cur \in Intents /\ attempt' \in Attempts
  BY <1>1, <1>2 DEF TypeInv, InHand
<1>4. \A i \in Intents \ {cur} : LiveRequests(i)' = LiveRequests(i)
  BY <1>1, <1>2, <1>3, BecomeTypes DEF LiveRequests, Fates
<1>5. LiveRequests(cur) = {}
  BY <1>1 DEF SubmitInv, OneLive, Live
<1>6. LiveRequests(cur)' = {}
  <2> SUFFICES ASSUME NEW a \in Attempts, request'[cur][a] = "live" PROVE FALSE
    BY <1>1 DEF LiveRequests
  <2>1. request'[cur][attempt'] = "flying"
    BY <1>1, <1>2, <1>3, BecomeTypes DEF Fates
  <2>2. a # attempt' => request'[cur][a] = request[cur][a]
    BY <1>1, <1>2, <1>3, BecomeTypes DEF Fates
  <2> QED
    BY <1>5, <2>1, <2>2 DEF LiveRequests
<1>7. \A i \in Intents : LiveRequests(i)' = LiveRequests(i)
  BY <1>1, <1>4, <1>5, <1>6
<1>8. \A i \in todo : i \in Intents
  BY <1>2 DEF TypeOK
<1>9. TodoIsFresh' /\ OneLive' /\ Settled' /\ Counted' /\ Limits'
  BY <1>1, <1>3, <1>5, <1>6, <1>7, <1>8
  DEF SubmitInv, TodoIsFresh, OneLive, Settled, Counted, Limits, Held, Live, InHand
<1> QED
  BY <1>2, <1>9 DEF SubmitInv

(* What the client takes an answer for is what happened: the environment   *)
(* is prompt.                                                              *)
LEMMA SubmitKeeps == ASSUME SubmitInv, Prompt, Submit \/ LookupFails PROVE SubmitInv'
<1>1. CASE Send
  BY <1>1, SendKeeps
<1>2. CASE ~Send
  <2>1. /\ UNCHANGED <<todo, cur, row, reserved, request>>
        /\ noted' = noted \/ (noted' = noted \cup {cur} /\ cur \in Intents)
    BY <1>2 DEF Submit, SafeguardStops, AnswerAccepted, AnswerRefused, ServerError,
       TransportError, LookupFinds, LookupMisses, LookupFails, Accept, Goto, SubmitInv,
       TypeInv, InHand
  <2>2. pc \in InHand /\ cur \in Intents /\ (pc \in {"sent", "lookup"} => attempt \in Attempts)
    BY <1>2 DEF Submit, SafeguardStops, AnswerAccepted, AnswerRefused, ServerError,
       TransportError, LookupFinds, LookupMisses, LookupFails, SubmitInv, TypeInv, InHand
  <2>3. \A i \in Intents : LiveRequests(i)' = LiveRequests(i)
    BY <2>1 DEF LiveRequests
  <2>4. pc = "sent" => (Fate = "live" <=> Live(cur))
    BY <2>2 DEF SubmitInv, OneLive, Live, LiveRequests, Fate
  <2>5. pc' \in {"send", "lookup", "accepted", "refused", "raised"}
    BY <1>2 DEF Submit, SafeguardStops, AnswerAccepted, AnswerRefused, ServerError,
       TransportError, LookupFinds, LookupMisses, LookupFails, Accept, Goto
  <2>6. pc' \in {"send", "refused"} => ~Live(cur)
    BY <1>2, <2>4 DEF Submit, SafeguardStops, AnswerAccepted, AnswerRefused, ServerError,
       TransportError, LookupFinds, LookupMisses, LookupFails, Accept, Goto, Prompt
  <2>7. pc' = "accepted" => Live(cur) /\ cur \in noted'
    BY <1>2, <2>4 DEF Submit, SafeguardStops, AnswerAccepted, AnswerRefused, ServerError,
       TransportError, LookupFinds, LookupMisses, LookupFails, Accept, Goto
  <2>8. TypeInv'
    BY SubmitTypes DEF SubmitInv
  <2> QED
    BY <2>1, <2>2, <2>3, <2>5, <2>6, <2>7, <2>8, MovesOn
<1> QED
  BY <1>1, <1>2

(* A row is written when the fate of the order is known.                  *)
LEMMA RecordKeeps == ASSUME SubmitInv, Record \/ RecordFails \/ Crash PROVE SubmitInv'
<1>1. TypeInv' /\ TypeInv /\ TypeOK
  BY RecordTypes DEF SubmitInv, TypeInv
<1>2. UNCHANGED <<todo, cur, request, reserved, noted>>
  BY DEF Record, RecordSubmitted, RecordRefused, RecordFailure, Finish, RecordFails, Crash, Goto
<1>3. \A i \in Intents : LiveRequests(i)' = LiveRequests(i)
  BY <1>2 DEF LiveRequests
<1>4. \A i \in todo : i \in Intents
  BY <1>1 DEF TypeOK
<1>5. Limits'
  BY <1>2 DEF SubmitInv, Limits, Held
<1>6. CASE RecordFails \/ (Crash /\ pc \in InHand)
  <2>1. pc \in InHand /\ UNCHANGED row /\ pc' \in {"raised", "dead"}
    BY <1>6 DEF RecordFails, Crash, InHand
  <2> QED
    BY <1>1, <1>2, <1>3, <2>1, MovesOn
<1>7. CASE Finish \/ (Crash /\ pc \notin InHand)
  <2>1. UNCHANGED row /\ pc = "pick" /\ pc' \in {"completed", "dead"}
    BY <1>1, <1>7 DEF Finish, Goto, Crash, InHand, TypeOK
  <2> QED
    BY <1>1, <1>2, <1>3, <1>4, <1>5, <2>1
    DEF SubmitInv, TodoIsFresh, OneLive, Settled, Counted, Live, InHand
<1>8. CASE RecordSubmitted
  <2>1. row' = [row EXCEPT ![cur] = "SUBMITTED"] /\ pc = "accepted" /\ pc' = "pick" /\ cur \in Intents
    BY <1>1, <1>8 DEF RecordSubmitted, TypeInv, InHand
  <2>2. row'[cur] = "SUBMITTED" /\ \A i \in Intents \ {cur} : row'[i] = row[i]
    BY <1>1, <2>1 DEF TypeOK
  <2> QED
    BY <1>1, <1>2, <1>3, <1>4, <1>5, <2>1, <2>2
    DEF SubmitInv, TodoIsFresh, OneLive, Settled, Counted, Live, InHand
<1>9. CASE RecordRefused \/ RecordFailure
  <2>1. /\ cur \in Intents /\ RecordRejection(cur)
        /\ \/ pc = "refused" /\ pc' = "pick"
           \/ pc = "raised" /\ pc' = "failed"
    BY <1>1, <1>9 DEF RecordRefused, RecordFailure, TypeInv, InHand
  <2>2. row'[cur] # "SUBMITTED" /\ \A i \in Intents \ {cur} : row'[i] = row[i]
    BY <1>1, <2>1, RejectionTypes DEF SubmitInv, Settled, InHand
  <2> QED
    BY <1>1, <1>2, <1>3, <1>4, <1>5, <2>1, <2>2
    DEF SubmitInv, TodoIsFresh, OneLive, Settled, Counted, Live, InHand
<1> QED
  BY <1>6, <1>7, <1>8, <1>9 DEF Record

(* SubmitInv is inductive while no request overtakes its lookup.          *)
LEMMA SubmitStep == ASSUME SubmitInv, Prompt, [Next]_vars PROVE SubmitInv'
<1>1. CASE UNCHANGED vars
  <2>1. \A i \in Intents : LiveRequests(i)' = LiveRequests(i)
    BY <1>1 DEF vars, LiveRequests
  <2>2. /\ pc \in InHand => cur \in Intents
        /\ \A i \in todo : i \in Intents
    BY DEF SubmitInv, TypeInv, TypeOK
  <2>3. TypeInv'
    BY TypeStep DEF SubmitInv
  <2> QED
    BY <1>1, <2>1, <2>2, <2>3
    DEF vars, SubmitInv, TodoIsFresh, OneLive, Settled, Counted, Limits, Held, Live, InHand
<1> QED
  BY <1>1, NetworkKeeps, CheckKeeps, SubmitKeeps, RecordKeeps DEF Next, Network, Check

-----------------------------------------------------------------------------
(* The theorems                                                            *)

(* Every variable of the job keeps to its range.                           *)
THEOREM TypesKept == Spec => []TypeOK
<1>1. TypeInv => TypeOK
  BY DEF TypeInv
<1> QED
  BY TypeInit, TypeStep, <1>1, PTL DEF Spec

(* SubmitInv holds in every reachable state.                              *)
LEMMA SubmitInvIsInvariant == ASSUME Prompt PROVE Spec => []SubmitInv
<1>1. SubmitInv /\ [Next]_vars => SubmitInv'
  BY SubmitStep
<1> QED
  BY SubmitInit, <1>1, PTL DEF Spec

(* However often the job retries, an intent never becomes two orders, also *)
(* at a broker that does not refuse a repeated client_order_id.            *)
THEOREM NoSecondOrder ==
  ASSUME Prompt
  PROVE  Spec => []OneOrderPerIntent
<1>1. SubmitInv => OneOrderPerIntent
  <2> SUFFICES ASSUME SubmitInv, NEW i \in Intents PROVE Cardinality(LiveRequests(i)) =< 1
    BY DEF OneOrderPerIntent
  <2>1. CASE LiveRequests(i) = {}
    BY <2>1, FS_EmptySet
  <2>2. CASE LiveRequests(i) # {}
    <3>1. PICK a \in LiveRequests(i) : TRUE
      BY <2>2
    <3>2. LiveRequests(i) = {a}
      BY <3>1 DEF SubmitInv, OneLive
    <3>3. Cardinality({a}) = 1
      BY FS_Singleton
    <3> QED
      BY <3>2, <3>3
  <2> QED
    BY <2>1, <2>2
<1> QED
  BY <1>1, SubmitInvIsInvariant, PTL

(* Between two intents, and when the job completes, a row is SUBMITTED     *)
(* exactly if its order is at the broker.                                  *)
THEOREM BooksAreTrue ==
  ASSUME Prompt
  PROVE  Spec => []BooksMatchBroker
<1>1. SubmitInv => BooksMatchBroker
  BY DEF SubmitInv, Settled, BooksMatchBroker
<1> QED
  BY <1>1, SubmitInvIsInvariant, PTL

(* Wherever the job stops, only the intent it had in hand is in doubt.     *)
THEOREM DoubtIsInHand ==
  ASSUME Prompt
  PROVE  Spec => []OneInDoubt
<1>1. SubmitInv => OneInDoubt
  <2> SUFFICES ASSUME SubmitInv, NEW i \in Intents, i # cur
               PROVE  Live(i) = (row[i] = "SUBMITTED")
    BY DEF OneInDoubt
  <2>1. Live(i) <=> row[i] = "SUBMITTED"
    BY DEF SubmitInv, Settled
  <2> QED
    BY <2>1 DEF Live
<1> QED
  BY <1>1, SubmitInvIsInvariant, PTL

(* The orders at the broker keep within the gross cap and the throttle,    *)
(* for any numbers of either, also when their answers were lost.           *)
THEOREM LimitsAreKept ==
  ASSUME Prompt
  PROVE  Spec => []LimitsHold
<1>1. SubmitInv => LimitsHold
  <2> SUFFICES ASSUME SubmitInv PROVE WithinLimits
    BY DEF LimitsHold, SubmitInv, TypeInv
  <2> DEFINE live == {i \in Intents : Live(i)}
  <2>1. live \subseteq Held /\ Held \subseteq reserved
    BY DEF SubmitInv, Counted, Held
  <2>2. IsFiniteSet(reserved) /\ IsFiniteSet(Held) /\ IsFiniteSet(live)
    BY <2>1, FS_Subset DEF SubmitInv, Limits
  <2>3. /\ Cardinality(live) =< Cardinality(Held) /\ Cardinality(live) =< Cardinality(reserved)
        /\ Cardinality(live) \in Nat /\ Cardinality(Held) \in Nat /\ Cardinality(reserved) \in Nat
    BY <2>1, <2>2, FS_Subset, FS_CardinalityType
  <2>4. /\ Cardinality(Held) =< Room /\ Cardinality(reserved) =< MaxOrders
        /\ \A i, j \in reserved : SlotOf[i] = SlotOf[j] => i = j
    BY DEF SubmitInv, Limits
  <2>5. \A i, j \in live : SlotOf[i] = SlotOf[j] => i = j
    BY <2>1, <2>4
  <2>6. Cardinality(live) =< Room /\ Cardinality(live) =< MaxOrders
    BY <2>3, <2>4, LimitAssumption
  <2> QED
    BY <2>5, <2>6 DEF WithinLimits
<1> QED
  BY <1>1, SubmitInvIsInvariant, PTL

-----------------------------------------------------------------------------
(***************************************************************************)
(* Seen through the mapping of SubmissionFeeds, the submission job makes   *)
(* only the steps OrderReconciliation takes a submission to be: the broker *)
(* accepts, then the outcome is recorded, with the answer possibly lost.   *)
(***************************************************************************)

(* The images of the mapping that can change.                              *)
NewOrder == [status |-> "new", filled |-> 0]
AtBroker(live) == [status |-> IF live THEN "new" ELSE "none", filled |-> 0]
Shown(live) == IF live THEN {NewOrder} ELSE {}
Place(live, written) ==
  IF written # "none" THEN "done" ELSE IF live THEN "sent" ELSE "todo"
Booked(written) ==
  [status |-> IF written = "none" THEN "UNTRACKED" ELSE written,
   filled |-> 0, open |-> written = "SUBMITTED"]

Broker  == [i \in Intents |-> AtBroker(Live(i))]
Seen    == [i \in Intents |-> Shown(Live(i))]
Sub     == [i \in Intents |-> Place(Live(i), row[i])]
Tracked == [i \in Intents |-> Booked(row[i])]
Zero    == [i \in Intents |-> 0]

(* The initial state maps to an initial state of OrderReconciliation.     *)
LEMMA FeedsStart == Init => Reconciliation!Init
<1> SUFFICES ASSUME Init
             PROVE  Reconciliation!Init
  OBVIOUS
<1>1. \A i \in Intents : ~Live(i) /\ row[i] = "none"
  BY DEF Init, Live, LiveRequests
<1>2. /\ Broker = [o \in Intents |-> Reconciliation!NoSnapshot]
      /\ Seen = [o \in Intents |-> {}]
      /\ Sub = [o \in Intents |-> "todo"]
      /\ Tracked = [o \in Intents |-> Reconciliation!NotTracked]
  <2>1. "none" # "SUBMITTED"
    OBVIOUS
  <2> QED
    BY <1>1, <2>1
    DEF Broker, Seen, Sub, Tracked, AtBroker, Shown, Place, Booked,
        Reconciliation!NoSnapshot, Reconciliation!NotTracked
<1>3. \A e : <<>> = [r \in {} |-> e]
  OBVIOUS
<1> QED
  BY <1>2, <1>3
  DEF Reconciliation!Init, Broker, Seen, Sub, Tracked, AtBroker, Shown, Place, Booked, NewOrder

(* A step that neither makes an order live nor writes a row is not seen.   *)
LEMMA Unseen ==
  ASSUME \A i \in Intents : LiveRequests(i)' = LiveRequests(i), UNCHANGED row
  PROVE  UNCHANGED Reconciliation!vars
<1>1. \A i \in Intents : Live(i)' <=> Live(i)
  BY DEF Live
<1>2. UNCHANGED <<Broker, Seen, Sub, Tracked>>
  BY <1>1 DEF Broker, Seen, Sub, Tracked, AtBroker, Shown, Place, Booked
<1> QED
  BY <1>2
  DEF Reconciliation!vars, Broker, Seen, Sub, Tracked, AtBroker, Shown, Place, Booked, NewOrder

(* A request that comes alive is the broker's acceptance.                 *)
LEMMA SeenAccepted ==
  ASSUME NEW i \in Intents, ~Live(i), Live(i)', row[i] = "none", UNCHANGED row,
         \A j \in Intents \ {i} : LiveRequests(j)' = LiveRequests(j)
  PROVE  Reconciliation!BrokerAccepts(i)
<1>1. \A j \in Intents \ {i} : Live(j)' <=> Live(j)
  BY DEF Live
<1>2. Sub[i] = "todo" /\ Sub' = [Sub EXCEPT ![i] = "sent"]
  BY <1>1 DEF Sub, Place
<1>3. Broker' = [Broker EXCEPT ![i] = NewOrder]
  BY <1>1 DEF Broker, AtBroker, NewOrder
<1>4. Seen' = [Seen EXCEPT ![i] = @ \cup {NewOrder}]
  BY <1>1 DEF Seen, Shown
<1>5. UNCHANGED Tracked
  BY DEF Tracked, Booked
<1> QED
  BY <1>2, <1>3, <1>4, <1>5
  DEF Reconciliation!BrokerAccepts, Reconciliation!Show, Reconciliation!books,
      Reconciliation!jobVars, Broker, Seen, Sub, Tracked, AtBroker, Shown, Place, Booked,
      NewOrder

(* A rejection is seen as a refusal, or, of a live order, as an answer     *)
(* that was lost.                                                          *)
LEMMA SeenRejected ==
  ASSUME TypeOK, NEW i \in Intents, row[i] = "none",
         row' = [row EXCEPT ![i] = "REJECTED"], UNCHANGED request
  PROVE  Reconciliation!RecordRefused(i) \/ Reconciliation!RecordRejectedLive(i)
<1>1. row \in [Intents -> {"none", "SUBMITTED", "REJECTED"}]
  BY DEF TypeOK
<1>2. \A j \in Intents : Live(j)' <=> Live(j)
  BY DEF Live, LiveRequests
<1>3. Sub[i] = Place(Live(i), "none") /\ Sub' = [Sub EXCEPT ![i] = "done"]
  BY <1>1, <1>2 DEF Sub, Place
<1>4. Tracked' = [Tracked EXCEPT ![i] = Reconciliation!RejectedRow]
  BY <1>1 DEF Tracked, Booked, Reconciliation!RejectedRow
<1>5. UNCHANGED <<Broker, Seen>>
  BY <1>2 DEF Broker, Seen, AtBroker, Shown
<1>6. CASE ~Live(i)
  <2>1. Sub[i] = "todo"
    BY <1>3, <1>6 DEF Place
  <2>2. Reconciliation!RecordRefused(i)
    BY <1>3, <1>4, <1>5, <2>1
    DEF Reconciliation!RecordRefused, Reconciliation!jobVars, Broker, Seen, Sub, Tracked,
        AtBroker, Shown, Place, Booked, NewOrder
  <2> QED
    BY <2>2
<1>7. CASE Live(i)
  <2>1. Sub[i] = "sent"
    BY <1>3, <1>7 DEF Place
  <2>2. Reconciliation!RecordRejectedLive(i)
    BY <1>3, <1>4, <1>5, <2>1
    DEF Reconciliation!RecordRejectedLive, Reconciliation!jobVars, Broker, Seen, Sub, Tracked,
        AtBroker, Shown, Place, Booked, NewOrder
  <2> QED
    BY <2>2
<1> QED
  BY <1>6, <1>7

(* The row the job writes for an accepted order is the one the answer asks *)
(* for: submitted, nothing filled, nothing to book.                        *)
LEMMA SeenSubmitted ==
  ASSUME TypeOK, NEW i \in Intents, row[i] = "none", Live(i),
         row' = [row EXCEPT ![i] = "SUBMITTED"], UNCHANGED request
  PROVE  Reconciliation!RecordSubmitted(i)
<1>1. row \in [Intents -> {"none", "SUBMITTED", "REJECTED"}]
  BY DEF TypeOK
<1>2. \A j \in Intents : Live(j)' <=> Live(j)
  BY DEF Live, LiveRequests
<1>3. Sub[i] = "sent" /\ Sub' = [Sub EXCEPT ![i] = "done"]
  BY <1>1, <1>2 DEF Sub, Place
<1> DEFINE written == [status |-> "SUBMITTED", filled |-> 0, open |-> TRUE]
<1>4. Tracked' = [Tracked EXCEPT ![i] = written]
  <2>1. Booked("SUBMITTED") = written
    BY DEF Booked
  <2>2. Tracked' = [Tracked EXCEPT ![i] = Booked("SUBMITTED")]
    BY <1>1 DEF Tracked
  <2> QED
    BY <2>1, <2>2
<1>5. UNCHANGED <<Broker, Seen>>
  BY <1>2 DEF Broker, Seen, AtBroker, Shown
<1>6. NewOrder \in Reconciliation!Acks(i)
  BY DEF Reconciliation!Acks, NewOrder
<1>7. /\ Reconciliation!MapOrderStatus("new") = {"SUBMITTED"}
      /\ TRUE \in Reconciliation!PricedIn
  BY DEF Reconciliation!MapOrderStatus, Reconciliation!PricedIn
<1>8. Reconciliation!AckDelta(NewOrder, TRUE) = 0
  BY <1>7 DEF Reconciliation!AckDelta, NewOrder
<1>9. Zero = [Zero EXCEPT ![i] = @ + 0]
  BY DEF Zero
<1>10. Reconciliation!BookAck(i, NewOrder, 0, TRUE, TRUE)
  BY <1>4, <1>7, <1>9
  DEF Reconciliation!BookAck, Reconciliation!Errors, NewOrder, Tracked, Booked, Zero
<1>11. \E s \in Reconciliation!Acks(i), priced \in Reconciliation!PricedIn,
          booked, placed \in BOOLEAN :
            Reconciliation!BookAck(i, s, Reconciliation!AckDelta(s, priced), booked, placed)
  BY <1>6, <1>7, <1>8, <1>10
<1> QED
  BY <1>3, <1>5, <1>11
  DEF Reconciliation!RecordSubmitted, Reconciliation!jobVars, Broker, Seen, Sub,
      AtBroker, Shown, Place, NewOrder

-----------------------------------------------------------------------------
(* Every step is one of these four, or unseen.                             *)

Visible == Reconciliation!Next \/ UNCHANGED Reconciliation!vars

(* A step of one order is a step of OrderReconciliation.                  *)
LEMMA OrderStepVisible ==
  ASSUME NEW i \in Intents,
         \/ Reconciliation!BrokerAccepts(i) \/ Reconciliation!RecordSubmitted(i)
         \/ Reconciliation!RecordRefused(i) \/ Reconciliation!RecordRejectedLive(i)
  PROVE  Visible
BY DEF Visible, Reconciliation!Next, Reconciliation!OrderStep

(* A rejection is the recording of an order the broker does not have.     *)
LEMMA RejectionVisible ==
  ASSUME TypeOK, NEW i \in Intents, row[i] = "none", RecordRejection(i), UNCHANGED request
  PROVE  Visible
<1>1. CASE UNCHANGED row
  BY <1>1, Unseen DEF LiveRequests, Visible
<1>2. CASE row' = [row EXCEPT ![i] = "REJECTED"]
  BY <1>2, SeenRejected, OrderStepVisible
<1> QED
  BY <1>1, <1>2 DEF RecordRejection

(* The broker takes only the order the job is waiting for, and takes it    *)
(* once.                                                                   *)
LEMMA NetworkVisible ==
  ASSUME SubmitInv, Prompt, NEW i \in Intents, NEW a \in Attempts, Taken(i, a) \/ Lost(i, a)
  PROVE  Visible
<1>1. UNCHANGED row
  BY DEF Taken, Lost
<1>2. PICK fate \in Fates : Become(i, a, fate) /\ (fate = "live" => Awaited(i, a))
  BY DEF Taken, Lost, Fates, Prompt
<1>3. request[i][a] = "flying"
  BY DEF Taken, Lost
<1>4. \A j \in Intents \ {i} : LiveRequests(j)' = LiveRequests(j)
  BY <1>2, BecomeTypes DEF LiveRequests, SubmitInv, TypeInv
<1>5. LiveRequests(i)' = IF fate = "live" THEN LiveRequests(i) \cup {a} ELSE LiveRequests(i)
  BY <1>2, <1>3, BecomeTypes DEF LiveRequests, SubmitInv, TypeInv
<1>6. CASE fate # "live"
  BY <1>1, <1>4, <1>5, <1>6, Unseen DEF Visible
<1>7. CASE fate = "live"
  <2>1. i = cur /\ a = attempt /\ pc = "sent"
    BY <1>2, <1>7 DEF Awaited
  <2>2. LiveRequests(i) \subseteq {a}
    BY <2>1 DEF SubmitInv, OneLive
  <2>3. a \notin LiveRequests(i)
    BY <1>3 DEF LiveRequests
  <2>4. ~Live(i)
    BY <2>2, <2>3 DEF Live
  <2>5. Live(i)'
    BY <1>5, <1>7 DEF Live
  <2>6. row[i] = "none"
    BY <2>1 DEF SubmitInv, Settled, InHand
  <2> QED
    BY <1>1, <1>4, <2>4, <2>5, <2>6, SeenAccepted, OrderStepVisible
<1> QED
  BY <1>6, <1>7

(* The checks reject, or are not seen.                                    *)
LEMMA CheckVisible ==
  ASSUME SubmitInv, NEW i \in Intents, ThrottleRefuses(i) \/ CapRefuses(i) \/ Admit(i)
  PROVE  Visible
<1>1. i \in todo /\ UNCHANGED request
  BY DEF ThrottleRefuses, CapRefuses, Admit
<1>2. row[i] = "none" /\ TypeOK
  BY <1>1 DEF SubmitInv, TodoIsFresh, TypeInv
<1>3. CASE ThrottleRefuses(i) \/ CapRefuses(i)
  BY <1>1, <1>2, <1>3, RejectionVisible DEF ThrottleRefuses, CapRefuses
<1>4. CASE Admit(i)
  BY <1>1, <1>4, Unseen DEF Admit, LiveRequests, Visible
<1> QED
  BY <1>3, <1>4

(* Sending, waiting, looking up and giving up are not seen.                *)
LEMMA SubmitVisible == ASSUME SubmitInv, Submit \/ LookupFails PROVE Visible
<1>1. CASE Send
  <2>1. attempt' = attempt + 1 /\ Become(cur, attempt', "flying") /\ UNCHANGED row
    BY <1>1 DEF Send
  <2>2. TypeInv' /\ TypeInv /\ TypeOK /\ pc = "send"
    BY <1>1, SubmitTypes DEF SubmitInv, Submit, TypeInv, Send
  <2>3. cur \in Intents /\ attempt' \in Attempts
    BY <1>1, <2>2, LimitAssumption DEF TypeInv, TypeOK, InHand, Attempts, Send
  <2>4. LiveRequests(cur) = {}
    BY <2>2 DEF SubmitInv, OneLive, Live
  <2>5. \A i \in Intents \ {cur} : LiveRequests(i)' = LiveRequests(i)
    BY <2>1, <2>2, <2>3, BecomeTypes DEF LiveRequests, Fates
  <2>6. \A a \in Attempts : request'[cur][a] # "live"
    BY <2>1, <2>2, <2>3, <2>4, BecomeTypes DEF LiveRequests, Fates
  <2>7. \A i \in Intents : LiveRequests(i)' = LiveRequests(i)
    <3>1. {a \in Attempts : request'[cur][a] = "live"} = {}
      BY <2>6
    <3>2. cur' = cur
      BY <1>1 DEF Send
    <3> QED
      BY <2>4, <2>5, <3>1, <3>2 DEF LiveRequests
  <2> QED
    BY <2>1, <2>7, Unseen DEF Visible
<1>2. CASE ~Send
  <2>1. UNCHANGED <<request, row>>
    BY <1>2 DEF Submit, SafeguardStops, AnswerAccepted, AnswerRefused, ServerError,
       TransportError, LookupFinds, LookupMisses, LookupFails, Accept, Goto
  <2> QED
    BY <2>1, Unseen DEF LiveRequests, Visible
<1> QED
  BY <1>1, <1>2

(* Recording is recording, or loses the answer, or is not seen.           *)
LEMMA RecordVisible == ASSUME SubmitInv, Record \/ RecordFails \/ Crash PROVE Visible
<1>1. UNCHANGED request
  BY DEF Record, RecordSubmitted, RecordRefused, RecordFailure, Finish, RecordFails, Crash, Goto
<1>2. CASE RecordSubmitted \/ RecordRefused \/ RecordFailure
  <2>1. PICK i : i = cur
    OBVIOUS
  <2>2. i \in Intents /\ row[i] = "none" /\ TypeOK
    BY <1>2, <2>1
    DEF RecordSubmitted, RecordRefused, RecordFailure, SubmitInv, Settled, TypeInv, InHand
  <2>3. CASE RecordSubmitted
    <3>1. Live(i) /\ row' = [row EXCEPT ![i] = "SUBMITTED"]
      BY <2>1, <2>3 DEF RecordSubmitted, SubmitInv, OneLive
    <3> QED
      BY <1>1, <2>2, <3>1, SeenSubmitted, OrderStepVisible
  <2>4. CASE RecordRefused \/ RecordFailure
    <3>1. RecordRejection(i)
      BY <2>1, <2>4 DEF RecordRefused, RecordFailure, RecordRejection
    <3> QED
      BY <1>1, <2>2, <3>1, RejectionVisible
  <2> QED
    BY <1>2, <2>3, <2>4
<1>3. CASE Finish \/ RecordFails \/ Crash
  <2>1. UNCHANGED row
    BY <1>3 DEF Finish, Goto, RecordFails, Crash
  <2> QED
    BY <1>1, <2>1, Unseen DEF LiveRequests, Visible
<1> QED
  BY <1>2, <1>3 DEF Record

(* Submission feeds reconciliation what reconciliation expects: the model  *)
(* of a submission as "accepted, then recorded" leaves out nothing the     *)
(* retry protocol does to the broker or to the rows.                       *)
THEOREM SubmissionFeedsIt ==
  ASSUME Prompt
  PROVE  Spec => FeedsReconciliation
<1>1. SubmitInv /\ [Next]_vars => [Reconciliation!Next]_(Reconciliation!vars)
  <2> SUFFICES ASSUME SubmitInv, [Next]_vars
               PROVE  Visible
    BY DEF Visible
  <2>1. CASE UNCHANGED vars
    BY <2>1, Unseen DEF vars, LiveRequests, Visible
  <2> QED
    BY <2>1, NetworkVisible, CheckVisible, SubmitVisible, RecordVisible
    DEF Next, Network, Check
<1> QED
  BY <1>1, FeedsStart, SubmitInvIsInvariant, PTL
  DEF Spec, FeedsReconciliation, Reconciliation!Spec
=============================================================================
