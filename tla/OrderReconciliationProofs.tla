--------------------- MODULE OrderReconciliationProofs ---------------------
(***************************************************************************)
(* Theorems about OrderReconciliation, for every set of orders, every      *)
(* quantity and every Misbehaviour: the state stays typed, and with one    *)
(* reconciler at a time no share is booked twice, the ledgers follow the   *)
(* fills and every status change is a transition of the state machine.     *)
(*                                                                         *)
(* Four parts: types; BookingInv, which holds in any environment;          *)
(* PromiseInv, which holds where answers are stale at worst; and the       *)
(* refinement of OrderPromise.                                             *)
(***************************************************************************)
EXTENDS OrderReconciliation, TLAPS

(* Orders a job listed were reconcilable when it listed them. *)
ListedOpen ==
  \A r \in Reconcilers : \A o \in todo[r] : input[r][o].status \in Reconcilable

TypeInv == TypeOK /\ InHand /\ ListedOpen

-----------------------------------------------------------------------------
(* Lemmas about the operators of OrderLifecycle.                           *)

(* The mapper answers with statuses of the platform. *)
LEMMA MappedTyped == \A b : MapOrderStatus(b) \subseteq Statuses
BY DEF MapOrderStatus, Statuses

(* A status the state machine moves to is a status. *)
LEMMA NextTyped ==
  ASSUME NEW status \in Statuses, NEW mapped, NEW next \in NextStatus(status, mapped)
  PROVE  next \in Statuses
BY DEF NextStatus, ApplyEvent

(* An answer leaves the status alone or moves it along a valid transition. *)
LEMMA EventTyped == \A m : ToOrderEvent(m) \subseteq Events
BY DEF ToOrderEvent, Events

(* A status the state machine moves to is reached along its table.        *)
LEMMA NextLegal ==
  ASSUME NEW status, NEW mapped, NEW next \in NextStatus(status, mapped)
  PROVE  next = status \/ Legal(status, next)
BY EventTyped DEF NextStatus, ApplyEvent, Legal

(* A fill lies between nothing and the answer's filled quantity, and takes *)
(* the previous quantity exactly to it.                                    *)
LEMMA DeltaBounds ==
  ASSUME NEW current \in Quantity, NEW previous \in Quantity, NEW priced \in BOOLEAN
  PROVE  /\ FillDelta(current, previous, priced) \in Quantity
         /\ \/ FillDelta(current, previous, priced) = 0
            \/ previous + FillDelta(current, previous, priced) = current
BY QtyAssumption DEF FillDelta, Quantity

(* The quantity and the fill a submission is acknowledged with. *)
LEMMA AckTyped ==
  ASSUME TypeOK, NEW o \in Orders, NEW s \in Acks(o), NEW priced \in PricedIn
  PROVE  /\ s \in Snapshot /\ s \in seen[o]
         /\ s.filled \in Quantity
         /\ AckDelta(s, priced) \in Nat
         /\ AckDelta(s, priced) =< s.filled
<1>1. s \in seen[o] /\ s \in Snapshot
  BY DEF Acks, TypeOK
<1>2. s.filled \in Quantity /\ 0 \in Quantity
  BY <1>1, QtyAssumption DEF Snapshot, Quantity
<1>3. priced \in BOOLEAN
  BY Zenon DEF PricedIn
<1>4. FillDelta(s.filled, 0, priced) \in Quantity /\ FillDelta(s.filled, 0, priced) =< s.filled
  BY <1>2, <1>3, DeltaBounds, QtyAssumption DEF Quantity
<1> QED
  BY <1>1, <1>2, <1>4, QtyAssumption DEF AckDelta, Quantity

(* The broker moves an order from snapshot to snapshot and never takes     *)
(* back a fill.                                                            *)
LEMMA MovesUp ==
  ASSUME NEW s \in Snapshot, NEW t \in BrokerMoves(s)
  PROVE  t \in Snapshot /\ s.filled =< t.filled
BY QtyAssumption DEF BrokerMoves, Snapshot, Quantity

(* The statuses the job lists are of the platform, and of tracked orders. *)
LEMMA ReconcilableTyped == Reconcilable \subseteq Statuses /\ "UNTRACKED" \notin Reconcilable
BY DEF Reconcilable, Statuses

-----------------------------------------------------------------------------
(* Type correctness.                                                       *)

(* The initial state is typed.                                            *)
LEMMA TypeInit == Init => TypeInv
BY QtyAssumption, BoundsAssumption
DEF Init, TypeInv, TypeOK, InHand, ListedOpen, NoSnapshot, NotTracked, NoResult,
    Snapshot, Row, Result, Quantity, Steps, Statuses

(* The broker's and the submission's steps. *)
LEMMA TypeOrderStep ==
  ASSUME TypeInv, NEW o \in Orders, OrderStep(o)
  PROVE  TypeInv'
<1> USE DEF TypeInv, TypeOK, InHand, ListedOpen
<1>1. CASE BrokerMove(o)
  <2>1. PICK s \in BrokerMoves(broker[o]) : Show(o, s)
    BY <1>1 DEF BrokerMove
  <2>2. s \in Snapshot
    BY MovesUp
  <2> QED
    BY <1>1, <2>1, <2>2 DEF BrokerMove, Show, books, jobVars
<1>2. CASE BrokerForgets(o)
  <2>1. \A s \in Snapshot : [s EXCEPT !.status = "gone"] \in Snapshot
    BY DEF Snapshot
  <2> QED
    BY <1>2, <2>1 DEF BrokerForgets, books, jobVars
<1>3. CASE BrokerAccepts(o)
  <2>1. [status |-> "new", filled |-> 0] \in Snapshot
    BY QtyAssumption DEF Snapshot, BrokerStatuses, Quantity
  <2> QED
    BY <1>3, <2>1 DEF BrokerAccepts, Show, books, jobVars
<1>4. CASE RecordSubmitted(o)
  <2>1. PICK s \in Acks(o), priced \in PricedIn, booked \in BOOLEAN, placed \in BOOLEAN :
          BookAck(o, s, AckDelta(s, priced), booked, placed)
    BY <1>4 DEF RecordSubmitted
  <2>2. s.filled \in Quantity /\ AckDelta(s, priced) \in Nat
    BY AckTyped
  <2>3. [status |-> "SUBMITTED", filled |-> s.filled, open |-> TRUE] \in Row
    BY <2>2 DEF Row, Statuses
  <2>4. faults' \in 0 .. MaxFaults
    BY <2>1, BoundsAssumption DEF BookAck, Errors
  <2>5. /\ tracked' \in [Orders -> Row]
        /\ fills' \in [Orders -> Nat]
        /\ ledger' \in [Orders -> Nat]
        /\ sleeve' \in [Orders -> Nat]
    BY <2>1, <2>2, <2>3 DEF BookAck
  <2>6. sub' \in [Orders -> {"todo", "sent", "done"}]
    BY <1>4 DEF RecordSubmitted
  <2>7. UNCHANGED <<broker, seen>> /\ UNCHANGED jobVars
    BY <1>4 DEF RecordSubmitted
  <2>8. TypeOK'
    BY <2>4, <2>5, <2>6, <2>7 DEF jobVars
  <2> QED
    BY <2>7, <2>8 DEF jobVars
<1>5. CASE RecordRefused(o) \/ RecordRejectedLive(o)
  <2>1. RejectedRow \in Row
    BY QtyAssumption DEF RejectedRow, Row, Statuses, Quantity
  <2>2. /\ sub' = [sub EXCEPT ![o] = "done"]
        /\ tracked' = [tracked EXCEPT ![o] = RejectedRow]
        /\ UNCHANGED <<broker, seen, fills, ledger, sleeve, faults>> /\ UNCHANGED jobVars
    BY <1>5 DEF RecordRefused, RecordRejectedLive
  <2>3. TypeOK'
    BY <2>1, <2>2 DEF jobVars
  <2> QED
    BY <2>2, <2>3 DEF jobVars
<1> QED
  BY <1>1, <1>2, <1>3, <1>4, <1>5 DEF OrderStep

(* A job that leaves holds nothing. *)
LEMMA TypeLeave ==
  ASSUME TypeInv, NEW r \in Reconcilers, Leave(r),
         UNCHANGED <<brokerVars, books>>, faults' \in 0 .. MaxFaults
  PROVE  TypeInv'
<1>1. NotTracked \in Row /\ NoSnapshot \in Snapshot
      /\ NoResult \in Result
  BY QtyAssumption
  DEF NotTracked, NoSnapshot, NoResult, Row, Snapshot, Result, Quantity, Statuses
<1>2. TypeOK'
  BY <1>1 DEF TypeInv, TypeOK, Leave, brokerVars, books, Steps
<1> QED
  BY <1>2 DEF TypeInv, TypeOK, InHand, ListedOpen, Leave

(* The steps of the reconciliation job. *)
LEMMA TypeJobStep ==
  ASSUME TypeInv, NEW r \in Reconcilers, JobStep(r)
  PROVE  TypeInv'
<1> USE DEF TypeInv, TypeOK, InHand, ListedOpen
<1>1. CASE StartJob(r)
  <2> DEFINE listed == {o \in Orders : tracked[o].status \in Reconcilable}
             rows == [o \in Orders |-> IF o \in listed THEN tracked[o] ELSE NotTracked]
  <2>1. /\ pc' = [pc EXCEPT ![r] = "pick"]
        /\ todo' = [todo EXCEPT ![r] = listed]
        /\ input' = [input EXCEPT ![r] = rows]
        /\ UNCHANGED <<cur, answer, result, loaded, faults>>
        /\ UNCHANGED brokerVars /\ UNCHANGED books
    BY <1>1 DEF StartJob
  <2>2. NotTracked \in Row
    BY QtyAssumption DEF NotTracked, Row, Quantity
  <2>3. rows \in [Orders -> Row] /\ listed \in SUBSET Orders
    BY <2>2
  <2>4. \A o \in listed : rows[o].status \in Reconcilable
    OBVIOUS
  <2> HIDE DEF listed, rows
  <2>5. TypeOK'
    BY <2>1, <2>3 DEF brokerVars, books, Steps
  <2> QED
    BY <2>1, <2>4, <2>5
<1>2. CASE \E o \in Orders : Pick(r, o)
  BY <1>2 DEF Pick, brokerVars, books, Steps
<1>3. CASE FinishJob(r)
  BY <1>3, TypeLeave, BoundsAssumption DEF FinishJob
<1>4. CASE ReadOrder(r)
  <2>1. PICK s \in Answers(cur[r]) : ReadSnapshot(r, s)
    BY <1>4 DEF ReadOrder
  <2> DEFINE row == input[r][cur[r]]
  <2>2. PICK priced \in PricedIn, mapped \in MapOrderStatus(s.status) :
          \E next \in NextStatus(row.status, mapped) :
            result' = [result EXCEPT ![r] =
                         [next |-> next, fill |-> FillDelta(s.filled, row.filled, priced)]]
    BY <2>1 DEF ReadSnapshot
  <2>3. PICK next \in NextStatus(row.status, mapped) :
          result' = [result EXCEPT ![r] =
                       [next |-> next, fill |-> FillDelta(s.filled, row.filled, priced)]]
    BY <2>2
  <2>4. /\ pc[r] = "read"
        /\ answer' = [answer EXCEPT ![r] = s]
        /\ pc' = [pc EXCEPT ![r] = "load"]
        /\ UNCHANGED <<todo, input, cur, loaded, faults>>
        /\ UNCHANGED brokerVars /\ UNCHANGED books
    BY <2>1 DEF ReadSnapshot
  <2>5. cur[r] \in todo[r] /\ cur[r] \in Orders /\ row \in Row /\ row.status \in Reconcilable
    BY <2>4
  <2>6. s \in Snapshot
    BY <2>5 DEF Answers
  <2>7. next \in Statuses
    BY <2>3, <2>5, NextTyped, ReconcilableTyped
  <2>8. FillDelta(s.filled, row.filled, priced) \in Quantity
    <3>1. priced \in BOOLEAN
      BY Zenon DEF PricedIn
    <3> QED
      BY <2>5, <2>6, <3>1, DeltaBounds DEF Snapshot, Row
  <2>9. [next |-> next, fill |-> FillDelta(s.filled, row.filled, priced)] \in Result
    BY <2>7, <2>8 DEF Result
  <2>10. TypeOK'
    BY <2>3, <2>4, <2>6, <2>9 DEF brokerVars, books, Steps
  <2> QED
    BY <2>4, <2>5, <2>10
<1>5. CASE ReadGone(r)
  <2>1. PICK next \in ApplyEvent(input[r][cur[r]].status, "EXPIRE") :
          result' = [result EXCEPT ![r] = [next |-> next, fill |-> 0]]
    BY <1>5 DEF ReadGone
  <2>2. [next |-> next, fill |-> 0] \in Result /\ NoSnapshot \in Snapshot
    BY QtyAssumption DEF ApplyEvent, Result, NoSnapshot, Snapshot, Quantity
  <2>3. TypeOK'
    BY <1>5, <2>1, <2>2 DEF ReadGone, brokerVars, books, Steps
  <2> QED
    BY <1>5, <2>3 DEF ReadGone
<1>6. CASE ReadRaises(r)
  BY <1>6, TypeLeave, BoundsAssumption DEF ReadRaises
<1>7. CASE LoadRow(r)
  <2>1. cur[r] \in Orders /\ tracked[cur[r]] \in Row
    BY <1>7 DEF LoadRow
  <2>2. TypeOK'
    BY <1>7, <2>1 DEF LoadRow, brokerVars, books, Steps
  <2> QED
    BY <1>7, <2>2 DEF LoadRow
<1>8. CASE CommitResult(r)
  <2>1. cur[r] \in Orders
    BY <1>8 DEF CommitResult
  <2>2. AppliedRow(r) \in Row
    <3>1. MonotonicQty(r) \in Quantity
      BY QtyAssumption DEF MonotonicQty, Greater, Snapshot, Row, Quantity
    <3>2. tracked[cur[r]] \in Row /\ result[r].next \in Statuses
      BY <2>1 DEF Result
    <3>3. IsOpen(result[r].next) \in BOOLEAN
      BY DEF IsOpen
    <3> QED
      BY <3>1, <3>2, <3>3 DEF AppliedRow, Written, Row
  <2>3. tracked' \in [Orders -> Row]
    BY <1>8, <2>2 DEF CommitResult
  <2>4. fills' \in [Orders -> Nat]
    BY <1>8, <2>1, QtyAssumption DEF CommitResult, Result, Quantity
  <2>5. TypeOK'
    BY <1>8, <2>3, <2>4 DEF CommitResult, brokerVars, Steps
  <2> QED
    BY <1>8, <2>5 DEF CommitResult
<1>9. CASE AccountFill(r)
  <2>1. ledger' \in [Orders -> Nat]
    <3>1. result[r].fill \in Nat
      BY QtyAssumption DEF Result, Quantity
    <3>2. cur[r] \in Orders /\ ledger' = [ledger EXCEPT ![cur[r]] = @ + result[r].fill]
      BY <1>9 DEF AccountFill
    <3> QED
      BY <3>1, <3>2
  <2>2. TypeOK'
    BY <1>9, <2>1 DEF AccountFill, AfterAccounting, brokerVars, Steps
  <2> QED
    BY <1>9, <2>2 DEF AccountFill, AfterAccounting
<1>10. CASE ApplyToSleeve(r)
  <2>1. sleeve' \in [Orders -> Nat]
    <3>1. result[r].fill \in Nat
      BY QtyAssumption DEF Result, Quantity
    <3>2. cur[r] \in Orders /\ sleeve' = [sleeve EXCEPT ![cur[r]] = @ + result[r].fill]
      BY <1>10 DEF ApplyToSleeve
    <3> QED
      BY <3>1, <3>2
  <2>2. TypeOK'
    BY <1>10, <2>1 DEF ApplyToSleeve, brokerVars, Steps
  <2> QED
    BY <1>10, <2>2 DEF ApplyToSleeve
<1> QED
  BY <1>1, <1>2, <1>3, <1>4, <1>5, <1>6, <1>7, <1>8, <1>9, <1>10 DEF JobStep

(* Its faults: at most MaxFaults of them, by the guards. *)
LEMMA TypeJobFault ==
  ASSUME TypeInv, NEW r \in Reconcilers, JobFault(r)
  PROVE  TypeInv'
<1>1. faults' \in 0 .. MaxFaults
  BY BoundsAssumption
  DEF TypeInv, TypeOK, JobFault, AccountingFails, SleeveFails, JobDies
<1>2. CASE JobDies(r)
  BY <1>1, <1>2, TypeLeave DEF JobDies
<1>3. CASE AccountingFails(r) \/ SleeveFails(r)
  BY <1>1, <1>3
  DEF AccountingFails, SleeveFails, AfterAccounting, TypeInv, TypeOK, InHand, ListedOpen,
      brokerVars, books, Steps
<1> QED
  BY <1>2, <1>3 DEF JobFault

(* Every step keeps the types.                                            *)
LEMMA TypeStep == TypeInv /\ [Next]_vars => TypeInv'
<1>1. CASE UNCHANGED vars
  BY <1>1 DEF vars, TypeInv, TypeOK, InHand, ListedOpen
<1>2. CASE Next
  BY <1>2, TypeOrderStep, TypeJobStep, TypeJobFault DEF Next
<1> QED
  BY <1>1, <1>2

(* Every variable keeps its type, for all orders, quantities, reconcilers  *)
(* and misbehaviours.                                                      *)
THEOREM TypeCorrect == Spec => []TypeOK
<1>1. Spec => []TypeInv
  BY TypeInit, TypeStep, PTL DEF Spec
<1> QED
  BY <1>1, PTL DEF TypeInv

-----------------------------------------------------------------------------
(***************************************************************************)
(* With one reconciler at a time the books never hold more than the broker *)
(* executed, whatever the environment does: BookingInv is inductive.       *)
(***************************************************************************)

(* Nothing is executed or booked at the start.                            *)
LEMMA BookingInit == Init => BookingInv
BY DEF Init, BookingInv, SnapshotsHonest, UnsentIsEmpty, NeverOverBooked,
       LedgersFollowFills, InHand, ListIsCurrent, ResultFollows, LoadedIsCurrent, OnItsWay,
       NotTracked, NoSnapshot

(* A step that only moves the broker's side of an order upwards disturbs   *)
(* nothing but SnapshotsHonest, which it must keep.                        *)
LEMMA BookingBroker ==
  ASSUME TypeInv, TypeInv', BookingInv, SnapshotsHonest', UnsentIsEmpty',
         \A o \in Orders : broker[o].filled =< broker'[o].filled,
         UNCHANGED <<books, jobVars>>,
         \A o \in Orders : sub[o] = "done" => sub'[o] = "done"
  PROVE  BookingInv'
<1>1. \A o \in Orders : /\ broker[o].filled \in Nat /\ broker'[o].filled \in Nat
                        /\ tracked[o].filled \in Nat
  BY QtyAssumption DEF TypeInv, TypeOK, Snapshot, Row, Quantity
<1>2. \A r \in Reconcilers : answer[r].filled \in Nat
  BY QtyAssumption DEF TypeInv, TypeOK, Snapshot, Quantity
<1>3. NeverOverBooked'
  BY <1>1 DEF BookingInv, NeverOverBooked, books
<1>4. LedgersFollowFills'
  BY DEF BookingInv, LedgersFollowFills, books
<1>5. InHand' /\ ListIsCurrent' /\ LoadedIsCurrent' /\ OnItsWay'
  BY DEF BookingInv, InHand, ListIsCurrent, LoadedIsCurrent, OnItsWay, books, jobVars,
         TypeInv, TypeOK
<1>6. ResultFollows'
  <2>1. \A r \in Reconcilers : pc[r] \in {"load", "commit"} => cur[r] \in Orders
    BY DEF TypeInv, TypeOK, InHand
  <2> QED
    BY <1>1, <1>2, <2>1 DEF BookingInv, ResultFollows, jobVars
<1> QED
  BY <1>3, <1>4, <1>5, <1>6 DEF BookingInv

(* Recording the outcome of a submission touches one order, which no job   *)
(* holds: jobs hold orders whose submission is recorded.                   *)
LEMMA BookingRecord ==
  ASSUME TypeInv, TypeInv', BookingInv, NEW o \in Orders, sub[o] # "done",
         sub' = [sub EXCEPT ![o] = "done"],
         UNCHANGED <<broker, seen>>, UNCHANGED jobVars,
         \A p \in Orders \ {o} :
           tracked'[p] = tracked[p] /\ fills'[p] = fills[p]
             /\ ledger'[p] = ledger[p] /\ sleeve'[p] = sleeve[p],
         fills'[o] =< tracked'[o].filled, tracked'[o].filled =< broker[o].filled,
         ledger'[o] - ledger[o] =< fills'[o] - fills[o], ledger[o] =< ledger'[o],
         sleeve'[o] - sleeve[o] =< fills'[o] - fills[o], sleeve[o] =< sleeve'[o]
  PROVE  BookingInv'
<1>1. /\ fills \in [Orders -> Nat] /\ fills' \in [Orders -> Nat]
      /\ ledger \in [Orders -> Nat] /\ ledger' \in [Orders -> Nat]
      /\ sleeve \in [Orders -> Nat] /\ sleeve' \in [Orders -> Nat]
      /\ sub \in [Orders -> {"todo", "sent", "done"}]
      /\ todo \in [Reconcilers -> SUBSET Orders]
      /\ \A r \in Reconcilers : result[r].fill \in Nat
  BY QtyAssumption DEF TypeInv, TypeOK, Result, Quantity
<1>2. \A r \in Reconcilers : \A p \in todo[r] : p # o
  BY DEF BookingInv, ListIsCurrent
<1>3. SnapshotsHonest' /\ UnsentIsEmpty'
  BY <1>1 DEF BookingInv, SnapshotsHonest, UnsentIsEmpty
<1>4. NeverOverBooked'
  BY DEF BookingInv, NeverOverBooked
<1>5. LedgersFollowFills'
  BY <1>1 DEF BookingInv, LedgersFollowFills
<1>6. InHand' /\ ListIsCurrent'
  BY <1>1, <1>2 DEF BookingInv, InHand, ListIsCurrent, jobVars
<1>7. ResultFollows'
  BY DEF BookingInv, ResultFollows, jobVars
<1>8. LoadedIsCurrent'
  BY <1>1, <1>2 DEF BookingInv, LoadedIsCurrent, InHand, jobVars
<1>9. OnItsWay'
  <2> SUFFICES ASSUME NEW r \in Reconcilers
               PROVE  /\ pc[r] = "account" => ledger'[cur[r]] + result[r].fill =< fills'[cur[r]]
                      /\ pc[r] \in {"account", "sleeve"}
                           => sleeve'[cur[r]] + result[r].fill =< fills'[cur[r]]
    BY DEF OnItsWay, jobVars
  <2>1. CASE cur[r] = o
    BY <1>1, <2>1 DEF BookingInv, OnItsWay
  <2>2. CASE cur[r] \in Orders \ {o}
    BY <1>1, <2>2 DEF BookingInv, OnItsWay
  <2>3. CASE cur[r] \notin Orders
    BY <2>3 DEF BookingInv, InHand
  <2> QED
    BY <2>1, <2>2, <2>3
<1> QED
  BY <1>3, <1>4, <1>5, <1>6, <1>7, <1>8, <1>9 DEF BookingInv

(* The broker's and the submission's steps keep the books.                *)
LEMMA BookingOrderStep ==
  ASSUME TypeInv, TypeInv', BookingInv, NEW o \in Orders, OrderStep(o)
  PROVE  BookingInv'
<1>1. broker \in [Orders -> Snapshot] /\ seen \in [Orders -> SUBSET Snapshot]
      /\ tracked \in [Orders -> Row] /\ sub \in [Orders -> {"todo", "sent", "done"}]
  BY DEF TypeInv, TypeOK
<1>2. \A s \in Snapshot : s.filled \in Nat
  BY QtyAssumption DEF Snapshot, Quantity
<1>3. CASE BrokerMove(o)
  <2>1. PICK s \in BrokerMoves(broker[o]) : Show(o, s)
    BY <1>3 DEF BrokerMove
  <2>2. s \in Snapshot /\ broker[o].filled =< s.filled
    BY <1>1, MovesUp
  <2>3. broker[o] # NoSnapshot
    BY <2>1 DEF BrokerMoves, NoSnapshot
  <2>4. /\ broker' = [broker EXCEPT ![o] = s]
        /\ seen' = [seen EXCEPT ![o] = @ \cup {s}]
        /\ UNCHANGED sub /\ UNCHANGED <<books, jobVars>>
    BY <1>3, <2>1 DEF BrokerMove, Show
  <2>5. \A p \in Orders : broker[p].filled =< broker'[p].filled
    BY <1>1, <1>2, <2>2, <2>4
  <2>6. SnapshotsHonest'
    BY <1>1, <1>2, <2>2, <2>4 DEF BookingInv, SnapshotsHonest
  <2>7. UnsentIsEmpty'
    BY <1>1, <2>3, <2>4 DEF BookingInv, UnsentIsEmpty, books
  <2> QED
    BY <2>4, <2>5, <2>6, <2>7, BookingBroker
<1>4. CASE BrokerForgets(o)
  <2>1. /\ broker' = [broker EXCEPT ![o].status = "gone"]
        /\ UNCHANGED <<seen, sub>> /\ UNCHANGED <<books, jobVars>>
    BY <1>4 DEF BrokerForgets
  <2>2. \A p \in Orders : broker'[p].filled = broker[p].filled
    BY <1>1, <2>1 DEF Snapshot
  <2>3. broker[o] # NoSnapshot
    BY <1>4 DEF BrokerForgets, NoSnapshot, BrokerStatuses
  <2>4. SnapshotsHonest'
    BY <2>1, <2>2 DEF BookingInv, SnapshotsHonest
  <2>5. UnsentIsEmpty'
    BY <1>1, <2>1, <2>3 DEF BookingInv, UnsentIsEmpty, books
  <2>6. \A p \in Orders : broker[p].filled =< broker'[p].filled
    BY <1>1, <1>2, <2>2
  <2> QED
    BY <2>1, <2>4, <2>5, <2>6, BookingBroker
<1>5. CASE BrokerAccepts(o)
  <2> DEFINE s == [status |-> "new", filled |-> 0]
  <2>1. /\ sub[o] = "todo"
        /\ sub' = [sub EXCEPT ![o] = "sent"]
        /\ broker' = [broker EXCEPT ![o] = s]
        /\ seen' = [seen EXCEPT ![o] = @ \cup {s}]
        /\ UNCHANGED <<books, jobVars>>
    BY <1>5 DEF BrokerAccepts, Show
  <2>2. broker[o] = NoSnapshot /\ seen[o] = {}
    BY <2>1 DEF BookingInv, UnsentIsEmpty
  <2>3. \A p \in Orders : broker'[p].filled = broker[p].filled
    BY <1>1, <2>1, <2>2 DEF NoSnapshot
  <2>4. SnapshotsHonest'
    BY <1>1, <1>2, <2>1, <2>2, <2>3 DEF BookingInv, SnapshotsHonest
  <2>5. UnsentIsEmpty'
    BY <1>1, <2>1 DEF BookingInv, UnsentIsEmpty, books
  <2>6. \A p \in Orders : broker[p].filled =< broker'[p].filled
    BY <1>1, <1>2, <2>3
  <2>7. \A p \in Orders : sub[p] = "done" => sub'[p] = "done"
    BY <1>1, <2>1
  <2> QED
    BY <2>1, <2>4, <2>5, <2>6, <2>7, BookingBroker
<1>6. CASE RecordSubmitted(o)
  <2>1. PICK s \in Acks(o), priced \in PricedIn, booked \in BOOLEAN, placed \in BOOLEAN :
          BookAck(o, s, AckDelta(s, priced), booked, placed)
    BY <1>6 DEF RecordSubmitted
  <2> DEFINE d == AckDelta(s, priced)
  <2>2. s \in seen[o] /\ d \in Nat /\ d =< s.filled /\ s.filled \in Nat
    BY AckTyped, QtyAssumption DEF TypeInv, Quantity
  <2>3. s.filled =< broker[o].filled
    BY <2>2 DEF BookingInv, SnapshotsHonest
  <2>4. sub[o] # "done" /\ fills[o] = 0
    BY <1>6 DEF RecordSubmitted, BookingInv, UnsentIsEmpty
  <2>5. /\ fills \in [Orders -> Nat] /\ ledger \in [Orders -> Nat] /\ sleeve \in [Orders -> Nat]
    BY DEF TypeInv, TypeOK
  <2> HIDE DEF d
  <2>6. /\ tracked' = [tracked EXCEPT ![o] =
                         [status |-> "SUBMITTED", filled |-> s.filled, open |-> TRUE]]
        /\ fills' = [fills EXCEPT ![o] = @ + d]
        /\ ledger' = [ledger EXCEPT ![o] = IF booked THEN @ + d ELSE @]
        /\ sleeve' = [sleeve EXCEPT ![o] = IF placed /\ Portfolio THEN @ + d ELSE @]
    BY <2>1 DEF BookAck, d
  <2>7. fills'[o] =< tracked'[o].filled /\ tracked'[o].filled =< broker[o].filled
    BY <1>1, <2>2, <2>3, <2>4, <2>5, <2>6
  <2>8. /\ ledger'[o] - ledger[o] =< fills'[o] - fills[o] /\ ledger[o] =< ledger'[o]
        /\ sleeve'[o] - sleeve[o] =< fills'[o] - fills[o] /\ sleeve[o] =< sleeve'[o]
    BY <2>2, <2>5, <2>6
  <2>9. \A p \in Orders \ {o} :
          tracked'[p] = tracked[p] /\ fills'[p] = fills[p]
            /\ ledger'[p] = ledger[p] /\ sleeve'[p] = sleeve[p]
    BY <1>1, <2>5, <2>6
  <2>10. /\ sub' = [sub EXCEPT ![o] = "done"]
         /\ UNCHANGED <<broker, seen>> /\ UNCHANGED jobVars
    BY <1>6 DEF RecordSubmitted
  <2> QED
    BY <2>4, <2>7, <2>8, <2>9, <2>10, BookingRecord
<1>7. CASE RecordRefused(o) \/ RecordRejectedLive(o)
  <2>1. /\ sub[o] # "done"
        /\ sub' = [sub EXCEPT ![o] = "done"]
        /\ tracked' = [tracked EXCEPT ![o] = RejectedRow]
        /\ UNCHANGED <<broker, seen>> /\ UNCHANGED <<fills, ledger, sleeve>>
        /\ UNCHANGED jobVars
    BY <1>7 DEF RecordRefused, RecordRejectedLive
  <2>2. fills[o] = 0 /\ broker[o].filled \in Nat
    BY <1>1, <1>2, <2>1 DEF BookingInv, UnsentIsEmpty
  <2>3. fills'[o] =< tracked'[o].filled /\ tracked'[o].filled =< broker[o].filled
    BY <1>1, <2>1, <2>2 DEF RejectedRow
  <2>4. fills[o] \in Nat /\ ledger[o] \in Nat /\ sleeve[o] \in Nat
    BY DEF TypeInv, TypeOK
  <2>5. \A p \in Orders \ {o} :
          tracked'[p] = tracked[p] /\ fills'[p] = fills[p]
            /\ ledger'[p] = ledger[p] /\ sleeve'[p] = sleeve[p]
    BY <1>1, <2>1
  <2>6. /\ ledger'[o] - ledger[o] =< fills'[o] - fills[o] /\ ledger[o] =< ledger'[o]
        /\ sleeve'[o] - sleeve[o] =< fills'[o] - fills[o] /\ sleeve[o] =< sleeve'[o]
    BY <2>1, <2>4
  <2> QED
    BY <2>1, <2>3, <2>5, <2>6, BookingRecord
<1> QED
  BY <1>3, <1>4, <1>5, <1>6, <1>7 DEF OrderStep

-----------------------------------------------------------------------------
(* The reconciliation job.                                                 *)

(* A step of the job that writes nothing keeps the books and what they owe *)
(* the broker.                                                             *)
LEMMA BookingReads ==
  ASSUME BookingInv, UNCHANGED brokerVars, UNCHANGED books
  PROVE  SnapshotsHonest' /\ UnsentIsEmpty' /\ NeverOverBooked' /\ LedgersFollowFills'
BY DEF BookingInv, SnapshotsHonest, UnsentIsEmpty, NeverOverBooked, LedgersFollowFills,
       brokerVars, books

(* A job that leaves holds nothing that has to follow from the books.      *)
LEMMA BookingLeave ==
  ASSUME OneReconciler, TypeInv, TypeInv', BookingInv, NEW r \in Reconcilers, Leave(r),
         UNCHANGED brokerVars, UNCHANGED books
  PROVE  BookingInv'
<1>1. pc'[r] = "idle" /\ todo'[r] = {} /\ \A q \in Reconcilers : q = r
  BY DEF Leave, OneReconciler, TypeInv, TypeOK
<1>2. ListIsCurrent' /\ ResultFollows' /\ LoadedIsCurrent' /\ OnItsWay' /\ InHand'
  BY <1>1 DEF ListIsCurrent, ResultFollows, LoadedIsCurrent, OnItsWay, InHand
<1> QED
  BY <1>2, BookingReads DEF BookingInv

(* An answer computed from the row as listed follows from the row in the   *)
(* database, which nobody changed meanwhile.                               *)
LEMMA BookingAnswer ==
  ASSUME OneReconciler, TypeInv, TypeInv', BookingInv, NEW r \in Reconcilers,
         ReadOrder(r) \/ ReadGone(r)
  PROVE  BookingInv'
<1> DEFINE row == input[r][cur[r]]
<1>1. /\ pc[r] = "read" /\ pc' = [pc EXCEPT ![r] = "load"]
      /\ UNCHANGED <<todo, input, cur, loaded>>
      /\ UNCHANGED brokerVars /\ UNCHANGED books
  BY DEF ReadOrder, ReadSnapshot, ReadGone
<1>2. /\ cur[r] \in Orders /\ row \in Row /\ broker[cur[r]].filled \in Nat
      /\ pc'[r] = "load"
      /\ answer \in [Reconcilers -> Snapshot] /\ result \in [Reconcilers -> Result]
      /\ \A q \in Reconcilers : q = r
  BY <1>1, QtyAssumption
  DEF TypeInv, TypeOK, InHand, OneReconciler, Snapshot, Quantity
<1>3. /\ answer'[r].filled =< broker[cur[r]].filled
      /\ result'[r].fill = 0 \/ row.filled + result'[r].fill = answer'[r].filled
      /\ result'[r].next = row.status \/ Legal(row.status, result'[r].next)
  <2>1. CASE ReadOrder(r)
    <3>1. PICK s \in Answers(cur[r]) : ReadSnapshot(r, s)
      BY <2>1 DEF ReadOrder
    <3>2. PICK priced \in PricedIn, mapped \in MapOrderStatus(s.status) :
            \E next \in NextStatus(row.status, mapped) :
              result' = [result EXCEPT ![r] =
                           [next |-> next, fill |-> FillDelta(s.filled, row.filled, priced)]]
      BY <3>1 DEF ReadSnapshot
    <3>3. PICK next \in NextStatus(row.status, mapped) :
            result' = [result EXCEPT ![r] =
                         [next |-> next, fill |-> FillDelta(s.filled, row.filled, priced)]]
      BY <3>2
    <3>4. answer' = [answer EXCEPT ![r] = s]
      BY <3>1 DEF ReadSnapshot
    <3>5. s \in Snapshot /\ s.filled =< broker[cur[r]].filled
      BY <1>2 DEF Answers, BookingInv, SnapshotsHonest, TypeInv, TypeOK
    <3>6. priced \in BOOLEAN
      BY Zenon DEF PricedIn
    <3>7. \/ FillDelta(s.filled, row.filled, priced) = 0
          \/ row.filled + FillDelta(s.filled, row.filled, priced) = s.filled
      <4>1. s.filled \in Quantity /\ row.filled \in Quantity
        BY <1>2, <3>5 DEF Snapshot, Row
      <4> HIDE DEF row
      <4> QED
        BY <3>6, <4>1, DeltaBounds
    <3>8. next = row.status \/ Legal(row.status, next)
      BY NextLegal
    <3> HIDE DEF row
    <3> QED
      BY <1>2, <3>3, <3>4, <3>5, <3>7, <3>8
  <2>2. CASE ReadGone(r)
    <3>1. PICK next \in ApplyEvent(row.status, "EXPIRE") :
            result' = [result EXCEPT ![r] = [next |-> next, fill |-> 0]]
      BY <2>2 DEF ReadGone
    <3>2. answer' = [answer EXCEPT ![r] = NoSnapshot]
      BY <2>2 DEF ReadGone
    <3>3. Legal(row.status, next)
      BY DEF ApplyEvent, Legal, Events
    <3> HIDE DEF row
    <3> QED
      BY <1>2, <3>1, <3>2, <3>3 DEF NoSnapshot
  <2> QED
    BY <2>1, <2>2
<1>4. ResultFollows'
  BY <1>1, <1>2, <1>3 DEF ResultFollows, brokerVars
<1>5. ListIsCurrent'
  BY <1>1 DEF BookingInv, ListIsCurrent, brokerVars, books
<1>6. LoadedIsCurrent' /\ OnItsWay' /\ InHand'
  BY <1>1, <1>2 DEF LoadedIsCurrent, OnItsWay, TypeInv
<1> QED
  BY <1>1, <1>4, <1>5, <1>6, BookingReads DEF BookingInv

(* The booking transaction: the fill it adds is the difference between the *)
(* row and the answer, and the row moves up to the answer with it.         *)
LEMMA BookingCommit ==
  ASSUME OneReconciler, TypeInv, TypeInv', BookingInv, NEW r \in Reconcilers,
         CommitResult(r)
  PROVE  BookingInv'
<1> DEFINE o == cur[r]
           fill == result[r].fill
<1>1. /\ pc[r] = "commit"
      /\ tracked' = [tracked EXCEPT ![o] = AppliedRow(r)]
      /\ fills' = [fills EXCEPT ![o] = @ + fill]
      /\ todo' = [todo EXCEPT ![r] = @ \ {o}]
      /\ pc' = [pc EXCEPT ![r] = IF fill > 0 THEN "account" ELSE "pick"]
      /\ UNCHANGED <<ledger, sleeve, input, cur, answer, result, loaded>>
      /\ UNCHANGED brokerVars
  BY DEF CommitResult
<1>2. o \in todo[r] /\ o \in Orders
  BY <1>1 DEF TypeInv, TypeOK, InHand
<1>3. sub[o] = "done" /\ input[r][o] = tracked[o] /\ loaded[r] = tracked[o]
  BY <1>1, <1>2 DEF BookingInv, ListIsCurrent, LoadedIsCurrent
<1>4. /\ answer[r].filled =< broker[o].filled
      /\ fill = 0 \/ tracked[o].filled + fill = answer[r].filled
  BY <1>1, <1>3 DEF BookingInv, ResultFollows
<1>5. /\ \A p \in Orders : /\ fills[p] \in Nat /\ ledger[p] \in Nat /\ sleeve[p] \in Nat
                          /\ tracked[p].filled \in Nat /\ broker[p].filled \in Nat
      /\ fill \in Nat /\ answer[r].filled \in Nat
      /\ tracked \in [Orders -> Row] /\ fills \in [Orders -> Nat]
      /\ todo \in [Reconcilers -> SUBSET Orders] /\ pc \in [Reconcilers -> Steps]
      /\ \A q \in Reconcilers : q = r
  BY QtyAssumption
  DEF TypeInv, TypeOK, Row, Snapshot, Result, Quantity, OneReconciler
<1> HIDE DEF o, fill
<1>6. \A p \in Orders \ {o} : tracked'[p] = tracked[p] /\ fills'[p] = fills[p]
  BY <1>1, <1>5
<1>7. tracked'[o] = AppliedRow(r) /\ fills'[o] = fills[o] + fill
  BY <1>1, <1>2, <1>5
<1>8. /\ AppliedRow(r).filled =< broker[o].filled
      /\ fills[o] + fill =< AppliedRow(r).filled
  <2>1. fills[o] =< tracked[o].filled /\ tracked[o].filled =< broker[o].filled
    BY <1>2 DEF BookingInv, NeverOverBooked
  <2>2. AppliedRow(r).filled = Greater(answer[r].filled, tracked[o].filled)
    BY <1>3 DEF AppliedRow, Written, MonotonicQty, o
  <2> QED
    BY <1>2, <1>4, <1>5, <2>1, <2>2 DEF Greater
<1>9. SnapshotsHonest' /\ UnsentIsEmpty'
  BY <1>1, <1>3, <1>6 DEF BookingInv, SnapshotsHonest, UnsentIsEmpty, brokerVars
<1>10. NeverOverBooked'
  BY <1>1, <1>2, <1>6, <1>7, <1>8 DEF BookingInv, NeverOverBooked, brokerVars
<1>11. LedgersFollowFills'
  BY <1>1, <1>2, <1>5, <1>6, <1>7 DEF BookingInv, LedgersFollowFills
<1>12. InHand' /\ ListIsCurrent'
  BY <1>1, <1>5, <1>6 DEF TypeInv, BookingInv, ListIsCurrent, brokerVars
<1>13. pc'[r] \in {"account", "pick"}
  BY <1>1, <1>5
<1>14. ResultFollows' /\ LoadedIsCurrent'
  BY <1>5, <1>13 DEF ResultFollows, LoadedIsCurrent
<1>15. OnItsWay'
  <2>1. ledger[o] =< fills[o] /\ sleeve[o] =< fills[o]
    BY <1>2 DEF BookingInv, LedgersFollowFills
  <2>2. cur'[r] = o /\ result'[r].fill = fill /\ ledger'[o] = ledger[o] /\ sleeve'[o] = sleeve[o]
    BY <1>1 DEF o, fill
  <2>3. ledger[o] + fill =< fills'[o] /\ sleeve[o] + fill =< fills'[o]
    BY <1>2, <1>5, <1>7, <2>1
  <2> QED
    BY <1>5, <2>2, <2>3 DEF OnItsWay
<1> QED
  BY <1>9, <1>10, <1>11, <1>12, <1>14, <1>15 DEF BookingInv

(* The job's steps keep the books.                                        *)
LEMMA BookingJobStep ==
  ASSUME OneReconciler, TypeInv, TypeInv', BookingInv, NEW r \in Reconcilers, JobStep(r)
  PROVE  BookingInv'
<1>1. /\ \A p \in Orders : /\ fills[p] \in Nat /\ ledger[p] \in Nat /\ sleeve[p] \in Nat
                          /\ tracked[p].filled \in Nat
      /\ result[r].fill \in Nat
      /\ pc \in [Reconcilers -> Steps] /\ cur \in [Reconcilers -> Orders \cup {NoOrder}]
      /\ todo \in [Reconcilers -> SUBSET Orders] /\ loaded \in [Reconcilers -> Row]
      /\ sub \in [Orders -> {"todo", "sent", "done"}]
      /\ input \in [Reconcilers -> [Orders -> Row]]
      /\ ledger \in [Orders -> Nat] /\ sleeve \in [Orders -> Nat]
      /\ \A q \in Reconcilers : q = r
  BY QtyAssumption DEF TypeInv, TypeOK, Row, Result, Quantity, OneReconciler
<1>2. InHand'
  BY DEF TypeInv
<1>3. CASE StartJob(r)
  <2> DEFINE listed == {o \in Orders : tracked[o].status \in Reconcilable}
             rows == [o \in Orders |-> IF o \in listed THEN tracked[o] ELSE NotTracked]
  <2>1. /\ pc' = [pc EXCEPT ![r] = "pick"]
        /\ todo' = [todo EXCEPT ![r] = listed]
        /\ input' = [input EXCEPT ![r] = rows]
        /\ UNCHANGED brokerVars /\ UNCHANGED books
    BY <1>3 DEF StartJob
  <2>2. \A o \in listed : o \in Orders /\ sub[o] = "done" /\ rows[o] = tracked[o]
    BY ReconcilableTyped DEF BookingInv, UnsentIsEmpty, NotTracked
  <2> HIDE DEF listed, rows
  <2>3. ListIsCurrent'
    BY <1>1, <2>1, <2>2 DEF ListIsCurrent, brokerVars, books
  <2>4. pc'[r] = "pick"
    BY <1>1, <2>1
  <2>5. ResultFollows' /\ LoadedIsCurrent' /\ OnItsWay'
    BY <1>1, <2>4 DEF ResultFollows, LoadedIsCurrent, OnItsWay
  <2> QED
    BY <1>2, <2>1, <2>3, <2>5, BookingReads DEF BookingInv
<1>4. CASE \E o \in Orders : Pick(r, o)
  <2>1. /\ pc' = [pc EXCEPT ![r] = "read"]
        /\ UNCHANGED <<todo, input, result, loaded>>
        /\ UNCHANGED brokerVars /\ UNCHANGED books
    BY <1>4 DEF Pick
  <2>2. pc'[r] = "read"
    BY <1>1, <2>1
  <2>3. ResultFollows' /\ LoadedIsCurrent' /\ OnItsWay'
    BY <1>1, <2>2 DEF ResultFollows, LoadedIsCurrent, OnItsWay
  <2>4. ListIsCurrent'
    BY <2>1 DEF BookingInv, ListIsCurrent, brokerVars, books
  <2> QED
    BY <1>2, <2>1, <2>3, <2>4, BookingReads DEF BookingInv
<1>5. CASE FinishJob(r) \/ ReadRaises(r)
  BY <1>5, BookingLeave DEF FinishJob, ReadRaises
<1>6. CASE ReadOrder(r) \/ ReadGone(r)
  BY <1>6, BookingAnswer
<1>7. CASE LoadRow(r)
  <2>1. /\ pc[r] = "load" /\ pc' = [pc EXCEPT ![r] = "commit"]
        /\ loaded' = [loaded EXCEPT ![r] = tracked[cur[r]]]
        /\ UNCHANGED <<todo, input, cur, answer, result>>
        /\ UNCHANGED brokerVars /\ UNCHANGED books
    BY <1>7 DEF LoadRow
  <2>2. pc'[r] = "commit" /\ loaded'[r] = tracked[cur[r]]
    BY <1>1, <2>1
  <2>3. LoadedIsCurrent' /\ OnItsWay'
    BY <1>1, <2>1, <2>2 DEF LoadedIsCurrent, OnItsWay, books
  <2>4. ResultFollows'
    BY <1>1, <2>1 DEF BookingInv, ResultFollows, brokerVars
  <2>5. ListIsCurrent'
    BY <2>1 DEF BookingInv, ListIsCurrent, brokerVars, books
  <2> QED
    BY <1>2, <2>1, <2>3, <2>4, <2>5, BookingReads DEF BookingInv
<1>8. CASE CommitResult(r)
  BY <1>8, BookingCommit
<1>9. CASE AccountFill(r)
  <2>1. /\ pc[r] = "account" /\ pc' = [pc EXCEPT ![r] = AfterAccounting]
        /\ ledger' = [ledger EXCEPT ![cur[r]] = @ + result[r].fill]
        /\ UNCHANGED <<tracked, fills, sleeve, todo, input, cur, result>>
        /\ UNCHANGED brokerVars
    BY <1>9 DEF AccountFill
  <2>2. cur[r] \in Orders /\ pc'[r] \in {"sleeve", "pick"}
    BY <1>1, <2>1 DEF TypeInv, InHand, AfterAccounting
  <2>3. /\ ledger[cur[r]] + result[r].fill =< fills[cur[r]]
        /\ sleeve[cur[r]] + result[r].fill =< fills[cur[r]]
    BY <2>1 DEF BookingInv, OnItsWay
  <2>4. LedgersFollowFills'
    BY <1>1, <2>1, <2>2, <2>3 DEF BookingInv, LedgersFollowFills
  <2>5. OnItsWay' /\ ResultFollows' /\ LoadedIsCurrent'
    BY <1>1, <2>1, <2>2, <2>3 DEF OnItsWay, ResultFollows, LoadedIsCurrent
  <2>6. SnapshotsHonest' /\ UnsentIsEmpty' /\ NeverOverBooked' /\ ListIsCurrent'
    BY <2>1 DEF BookingInv, SnapshotsHonest, UnsentIsEmpty, NeverOverBooked,
                ListIsCurrent, brokerVars
  <2> QED
    BY <1>2, <2>4, <2>5, <2>6 DEF BookingInv
<1>10. CASE ApplyToSleeve(r)
  <2>1. /\ pc[r] = "sleeve" /\ pc' = [pc EXCEPT ![r] = "pick"]
        /\ sleeve' = [sleeve EXCEPT ![cur[r]] = @ + result[r].fill]
        /\ UNCHANGED <<tracked, fills, ledger, todo, input>>
        /\ UNCHANGED brokerVars
    BY <1>10 DEF ApplyToSleeve
  <2>2. cur[r] \in Orders /\ pc'[r] = "pick"
    BY <1>1, <2>1 DEF TypeInv, InHand
  <2>3. sleeve[cur[r]] + result[r].fill =< fills[cur[r]]
    BY <2>1 DEF BookingInv, OnItsWay
  <2>4. LedgersFollowFills'
    BY <1>1, <2>1, <2>2, <2>3 DEF BookingInv, LedgersFollowFills
  <2>5. OnItsWay' /\ ResultFollows' /\ LoadedIsCurrent'
    BY <1>1, <2>2 DEF OnItsWay, ResultFollows, LoadedIsCurrent
  <2>6. SnapshotsHonest' /\ UnsentIsEmpty' /\ NeverOverBooked' /\ ListIsCurrent'
    BY <2>1 DEF BookingInv, SnapshotsHonest, UnsentIsEmpty, NeverOverBooked,
                ListIsCurrent, brokerVars
  <2> QED
    BY <1>2, <2>4, <2>5, <2>6 DEF BookingInv
<1> QED
  BY <1>3, <1>4, <1>5, <1>6, <1>7, <1>8, <1>9, <1>10 DEF JobStep

(* A failed ledger application drops the fill in hand; a dead job drops    *)
(* everything it held.                                                     *)
LEMMA BookingJobFault ==
  ASSUME OneReconciler, TypeInv, TypeInv', BookingInv, NEW r \in Reconcilers, JobFault(r)
  PROVE  BookingInv'
<1>1. CASE JobDies(r)
  BY <1>1, BookingLeave DEF JobDies
<1>2. CASE AccountingFails(r) \/ SleeveFails(r)
  <2>1. /\ \/ pc[r] = "account" /\ pc' = [pc EXCEPT ![r] = AfterAccounting]
           \/ pc[r] = "sleeve" /\ pc' = [pc EXCEPT ![r] = "pick"]
        /\ UNCHANGED <<todo, input, cur, answer, result, loaded>>
        /\ UNCHANGED brokerVars /\ UNCHANGED books
    BY <1>2 DEF AccountingFails, SleeveFails
  <2>2. pc'[r] \in {"sleeve", "pick"} /\ \A q \in Reconcilers : q = r
    BY <2>1 DEF AfterAccounting, TypeInv, TypeOK, OneReconciler
  <2>3. ResultFollows' /\ LoadedIsCurrent'
    BY <2>2 DEF ResultFollows, LoadedIsCurrent
  <2>4. OnItsWay'
    BY <2>1, <2>2 DEF BookingInv, OnItsWay, books
  <2>5. ListIsCurrent' /\ InHand'
    BY <2>1 DEF BookingInv, ListIsCurrent, TypeInv, brokerVars, books
  <2> QED
    BY <2>1, <2>3, <2>4, <2>5, BookingReads DEF BookingInv
<1> QED
  BY <1>1, <1>2 DEF JobFault

-----------------------------------------------------------------------------
(* The theorems.                                                           *)

SafeInv == TypeInv /\ BookingInv

(* BookingInv is inductive with one reconciler.                           *)
LEMMA BookingStep ==
  ASSUME OneReconciler
  PROVE  SafeInv /\ [Next]_vars => SafeInv'
<1> SUFFICES ASSUME SafeInv, [Next]_vars
             PROVE  SafeInv'
  OBVIOUS
<1>1. TypeInv /\ TypeInv' /\ BookingInv
  BY TypeStep DEF SafeInv
<1>2. CASE UNCHANGED vars
  <2>1. BookingInv'
    BY <1>1, <1>2
    DEF vars, BookingInv, SnapshotsHonest, UnsentIsEmpty, NeverOverBooked,
        LedgersFollowFills, InHand, ListIsCurrent, ResultFollows, LoadedIsCurrent, OnItsWay
  <2> QED
    BY <1>1, <2>1 DEF SafeInv
<1>3. CASE \E o \in Orders : OrderStep(o)
  BY <1>1, <1>3, BookingOrderStep DEF SafeInv
<1>4. CASE \E r \in Reconcilers : JobStep(r) \/ JobFault(r)
  BY <1>1, <1>4, BookingJobStep, BookingJobFault DEF SafeInv
<1> QED
  BY <1>2, <1>3, <1>4 DEF Next

(* Types and bookings together are inductive.                              *)
LEMMA SafeIsInvariant ==
  ASSUME OneReconciler
  PROVE  Spec => []SafeInv
<1>1. Init => SafeInv
  BY TypeInit, BookingInit DEF SafeInv
<1> QED
  BY <1>1, BookingStep, PTL DEF Spec

(* With one process reconciling, whatever the broker, the network and the  *)
(* crashes do, everything a job holds in hand follows from the books.      *)
THEOREM BookingIsInvariant ==
  ASSUME OneReconciler
  PROVE  Spec => []BookingInv
<1>1. SafeInv => BookingInv
  BY DEF SafeInv
<1> QED
  BY <1>1, SafeIsInvariant, PTL

(* No share is booked twice or before the broker executed it.              *)
THEOREM NoOverBooking ==
  ASSUME OneReconciler
  PROVE  Spec => []NeverOverBooked
<1>1. SafeInv => NeverOverBooked
  BY DEF SafeInv, BookingInv
<1> QED
  BY <1>1, SafeIsInvariant, PTL

(* No share reaches a ledger twice or before its fill is committed.        *)
THEOREM LedgersTrailFills ==
  ASSUME OneReconciler
  PROVE  Spec => []LedgersFollowFills
<1>1. SafeInv => LedgersFollowFills
  BY DEF SafeInv, BookingInv
<1> QED
  BY <1>1, SafeIsInvariant, PTL

(* Under BookingInv a status changes along the table only.                *)
LEMMA StepsAreLegal ==
  ASSUME OneReconciler, SafeInv, Next
  PROVE  MovesLegally
<1> USE DEF SafeInv
<1>1. tracked \in [Orders -> Row]
  BY DEF TypeInv, TypeOK
<1>2. CASE \E o \in Orders : RecordSubmitted(o) \/ RecordRefused(o) \/ RecordRejectedLive(o)
  <2>1. PICK o \in Orders : RecordSubmitted(o) \/ RecordRefused(o) \/ RecordRejectedLive(o)
    BY <1>2
  <2>2. sub[o] # "done" /\ \E row : tracked' = [tracked EXCEPT ![o] = row]
    BY <2>1 DEF RecordSubmitted, RecordRefused, RecordRejectedLive, BookAck
  <2>3. tracked[o].status = "UNTRACKED"
    BY <2>2 DEF BookingInv, UnsentIsEmpty, NotTracked
  <2> QED
    BY <1>1, <2>2, <2>3 DEF MovesLegally
<1>3. CASE \E r \in Reconcilers : CommitResult(r)
  <2>1. PICK r \in Reconcilers : CommitResult(r)
    BY <1>3
  <2> DEFINE o == cur[r]
  <2>2. pc[r] = "commit" /\ tracked' = [tracked EXCEPT ![o] = AppliedRow(r)]
    BY <2>1 DEF CommitResult
  <2>3. o \in todo[r] /\ o \in Orders /\ input[r][o] = tracked[o]
    BY <2>2 DEF TypeInv, TypeOK, InHand, BookingInv, ListIsCurrent
  <2>4. result[r].next = tracked[o].status \/ Legal(tracked[o].status, result[r].next)
    BY <2>2, <2>3 DEF BookingInv, ResultFollows
  <2>5. tracked'[o].status = result[r].next
    <3>1. loaded[r] = tracked[o]
      BY <2>2 DEF BookingInv, LoadedIsCurrent
    <3>2. tracked'[o] = AppliedRow(r)
      BY <1>1, <2>2, <2>3
    <3> QED
      BY <3>1, <3>2 DEF AppliedRow, Written
  <2>6. \A p \in Orders \ {o} : tracked'[p] = tracked[p]
    BY <1>1, <2>2
  <2> HIDE DEF o
  <2> QED
    BY <2>4, <2>5, <2>6 DEF MovesLegally
<1>4. CASE UNCHANGED tracked
  BY <1>4 DEF MovesLegally
<1>5. \/ UNCHANGED tracked
      \/ \E o \in Orders : RecordSubmitted(o) \/ RecordRefused(o) \/ RecordRejectedLive(o)
      \/ \E r \in Reconcilers : CommitResult(r)
  <2>1. CASE \E o \in Orders : OrderStep(o)
    BY <2>1 DEF OrderStep, BrokerMove, BrokerForgets, BrokerAccepts, books
  <2>2. CASE \E r \in Reconcilers : JobStep(r)
    BY <2>2
    DEF JobStep, StartJob, Pick, FinishJob, ReadOrder, ReadSnapshot, ReadGone, ReadRaises,
        LoadRow, AccountFill, ApplyToSleeve, books
  <2>3. CASE \E r \in Reconcilers : JobFault(r)
    BY <2>3 DEF JobFault, AccountingFails, SleeveFails, JobDies, books
  <2> QED
    BY <2>1, <2>2, <2>3 DEF Next
<1> QED
  BY <1>2, <1>3, <1>4, <1>5

(* Every change of a tracked status is a transition of the state machine,  *)
(* although the job computes it from a row it read several steps earlier.  *)
THEOREM TransitionsAreLegal ==
  ASSUME OneReconciler
  PROVE  Spec => LegalTransitions
<1>1. SafeInv /\ [Next]_vars => [MovesLegally]_vars
  BY StepsAreLegal
<1> QED
  BY <1>1, SafeIsInvariant, PTL DEF Spec, LegalTransitions

-----------------------------------------------------------------------------
(***************************************************************************)
(* With one reconciler at a time, and a broker whose answers may be stale  *)
(* but not false, no share is missed and order handling implements         *)
(* OrderPromise, through any number of crashes and accounting errors.      *)
(***************************************************************************)

(* The environment of these proofs: crashes, stale answers and failing     *)
(* accounting, but no late or lost acknowledgement, no order that is       *)
(* forgotten, suspended or stopped, and no fill without a price.           *)
Calm == Misbehaviour \subseteq {"stale_reads"}

Working == {"new", "partially_filled", "pending_cancel"}

(* An order the broker is done with has shown its last snapshot.           *)
LastIsLast ==
  \A o \in Orders :
    /\ broker[o].status \in Working \cup BrokerFinal \cup {"none"}
    /\ \A s \in seen[o] : /\ s.status \in Working \cup BrokerFinal
                          /\ s.status \in BrokerFinal => s = broker[o]

(* A closed order was refused, or is done at the broker and booked whole.  *)
ClosedIsFinal ==
  \A o \in Orders :
    tracked[o].status \in Terminal =>
      /\ sub[o] = "done" /\ fills[o] = broker[o].filled
      /\ broker[o].status \in BrokerFinal \cup {"none"}

(* The result in hand takes the row to the answer's quantity, and closes   *)
(* it only on the broker's last snapshot.                                  *)
AnswerIsUsed ==
  \A r \in Reconcilers :
    pc[r] \in {"load", "commit"} =>
      LET row == input[r][cur[r]]
      IN /\ row.filled + result[r].fill = Greater(answer[r].filled, row.filled)
         /\ result[r].next \in Terminal =>
              /\ broker[cur[r]].status \in BrokerFinal
              /\ answer[r].filled = broker[cur[r]].filled

PromiseInv == LastIsLast /\ TrackedIsBooked /\ ClosedIsFinal /\ AnswerIsUsed

(* Nothing is closed and nothing in hand at the start.                    *)
LEMMA PromiseInit == Init => PromiseInv
BY DEF Init, PromiseInv, LastIsLast, TrackedIsBooked, ClosedIsFinal, AnswerIsUsed,
       NotTracked, NoSnapshot, Terminal

-----------------------------------------------------------------------------
(* What each writing step does, where the environment is calm              *)

(* The broker moves only orders it is still working on.                    *)
LEMMA MoveFacts ==
  ASSUME Calm, TypeInv, NEW o \in Orders, BrokerMove(o)
  PROVE  \E s \in Snapshot :
           /\ broker' = [broker EXCEPT ![o] = s] /\ seen' = [seen EXCEPT ![o] = @ \cup {s}]
           /\ broker[o].status \in Working \cup {"stopped"}
           /\ s.status \in Working \cup BrokerFinal
           /\ broker[o].filled =< s.filled
           /\ UNCHANGED <<sub, books, jobVars>>
<1>1. PICK s \in BrokerMoves(broker[o]) : Show(o, s)
  BY DEF BrokerMove
<1>2. broker[o] \in Snapshot
  BY DEF TypeInv, TypeOK
<1>3. s \in Snapshot /\ broker[o].filled =< s.filled
  BY <1>2, MovesUp
<1>4. "suspends" \notin Misbehaviour /\ "stops" \notin Misbehaviour
  BY DEF Calm
<1>5. broker[o].status \in Working \cup {"stopped"} /\ s.status \in Working \cup BrokerFinal
  BY <1>1, <1>4 DEF BrokerMoves, Working, BrokerFinal
<1> QED
  BY <1>1, <1>3, <1>5 DEF BrokerMove, Show

(* The acknowledgement books what it shows.                                *)
LEMMA AckFacts ==
  ASSUME Calm, TypeInv, BookingInv, NEW o \in Orders, RecordSubmitted(o)
  PROVE  \E n, l \in Nat :
           /\ tracked' = [tracked EXCEPT ![o] =
                            [status |-> "SUBMITTED", filled |-> n, open |-> TRUE]]
           /\ fills' = [fills EXCEPT ![o] = n] /\ ledger' = [ledger EXCEPT ![o] = l]
           /\ n =< broker[o].filled /\ l =< n
           /\ tracked[o] = NotTracked /\ fills[o] = 0 /\ ledger[o] = 0
           /\ UNCHANGED <<broker, seen, jobVars>>
<1>1. PICK s \in Acks(o), priced \in PricedIn, booked \in BOOLEAN, placed \in BOOLEAN :
        BookAck(o, s, AckDelta(s, priced), booked, placed)
  BY DEF RecordSubmitted
<1>2. s \in Snapshot /\ s \in seen[o] /\ s.filled \in Nat
  BY AckTyped, QtyAssumption DEF TypeInv, Quantity
<1>3. s.filled =< broker[o].filled
  BY <1>2 DEF BookingInv, SnapshotsHonest
<1>4. priced = TRUE
  BY DEF Calm, PricedIn
<1>5. s.filled = 0 \/ s.status = "filled"
  BY DEF Calm, Acks
<1>6. AckDelta(s, priced) = s.filled
  <2>1. CASE s.status = "filled"
    <3>1. "FILLED" \in MapOrderStatus(s.status)
      BY <2>1 DEF MapOrderStatus
    <3> QED
      BY <1>2, <1>4, <3>1 DEF AckDelta, FillDelta
  <2>2. CASE s.filled = 0
    BY <1>2, <2>2 DEF AckDelta, FillDelta
  <2> QED
    BY <1>5, <2>1, <2>2
<1>7. sub[o] = "sent"
  BY DEF RecordSubmitted
<1>8. tracked[o] = NotTracked /\ fills[o] = 0
  BY <1>7 DEF BookingInv, UnsentIsEmpty
<1>9. fills \in [Orders -> Nat] /\ ledger \in [Orders -> Nat] /\ ledger[o] = 0
  BY <1>8 DEF TypeInv, TypeOK, BookingInv, LedgersFollowFills
<1> DEFINE n == s.filled
           l == IF booked THEN n ELSE 0
<1>10. /\ tracked' = [tracked EXCEPT ![o] = [status |-> "SUBMITTED", filled |-> n, open |-> TRUE]]
       /\ fills' = [fills EXCEPT ![o] = @ + n]
       /\ ledger' = [ledger EXCEPT ![o] = IF booked THEN @ + n ELSE @]
  BY <1>1, <1>6 DEF BookAck
<1>11. fills' = [fills EXCEPT ![o] = n] /\ ledger' = [ledger EXCEPT ![o] = l]
  <2>1. 0 + n = n
    BY <1>2
  <2>2. fills[o] + n = n /\ ledger[o] + n = n
    BY <1>8, <1>9, <2>1, Zenon
  <2>3. fills' = [fills EXCEPT ![o] = n]
    BY <1>10, <2>2, Zenon
  <2>4. ledger' = [ledger EXCEPT ![o] = l]
    <3>1. CASE booked
      BY <1>10, <2>2, <3>1, Zenon
    <3>2. CASE ~booked
      BY <1>8, <1>9, <1>10, <3>2, Zenon
    <3> QED
      BY <3>1, <3>2
  <2> QED
    BY <2>3, <2>4
<1>12. n \in Nat /\ l \in Nat /\ l =< n
  BY <1>2
<1>13. UNCHANGED <<broker, seen, jobVars>>
  BY DEF RecordSubmitted
<1> QED
  BY <1>3, <1>8, <1>9, <1>10, <1>11, <1>12, <1>13

(* The booking transaction takes row and fills to the same quantity, and   *)
(* closes an order only when nothing is left to book.                      *)
LEMMA CommitFacts ==
  ASSUME TypeInv, BookingInv, PromiseInv, NEW r \in Reconcilers, CommitResult(r)
  PROVE  LET o == cur[r]
         IN \E row \in Row :
              /\ o \in Orders
              /\ tracked' = [tracked EXCEPT ![o] = row]
              /\ fills' = [fills EXCEPT ![o] = row.filled]
              /\ fills[o] =< row.filled /\ row.filled =< broker[o].filled
              /\ tracked[o].status \notin Terminal
              /\ row.status \in Terminal =>
                   broker[o].status \in BrokerFinal /\ row.filled = broker[o].filled
              /\ sub[o] = "done" /\ UNCHANGED <<broker, seen, sub, ledger>>
<1> DEFINE o == cur[r]
<1>1. /\ pc[r] = "commit"
      /\ tracked' = [tracked EXCEPT ![o] = AppliedRow(r)]
      /\ fills' = [fills EXCEPT ![o] = @ + result[r].fill]
      /\ UNCHANGED <<broker, seen, sub, ledger>>
  BY DEF CommitResult, brokerVars
<1>2. o \in todo[r] /\ o \in Orders
  BY <1>1 DEF TypeInv, TypeOK, InHand
<1>3. sub[o] = "done" /\ input[r][o] = tracked[o] /\ loaded[r] = tracked[o]
  BY <1>1, <1>2 DEF BookingInv, ListIsCurrent, LoadedIsCurrent
<1>4. tracked[o].status \notin Terminal
  BY <1>2, <1>3 DEF TypeInv, ListedOpen, Reconcilable, Terminal
<1>5. /\ answer[r] \in Snapshot /\ tracked[o] \in Row /\ result[r] \in Result
      /\ fills \in [Orders -> Nat]
  BY <1>2 DEF TypeInv, TypeOK
<1>6. /\ answer[r].filled \in Quantity /\ tracked[o].filled \in Quantity
      /\ answer[r].filled =< broker[o].filled
      /\ tracked[o].filled =< broker[o].filled
  BY <1>1, <1>2, <1>5 DEF Snapshot, Row, BookingInv, ResultFollows, NeverOverBooked
<1>7. AppliedRow(r).filled = Greater(answer[r].filled, tracked[o].filled)
  BY <1>3 DEF AppliedRow, Written, MonotonicQty
<1>8. AppliedRow(r).status = result[r].next
  BY <1>3 DEF AppliedRow, Written
<1>9. AppliedRow(r) \in Row
  <2>1. AppliedRow(r).open \in BOOLEAN
    <3>1. AppliedRow(r).open \in {IsOpen(result[r].next), tracked[o].open}
      BY Zenon DEF AppliedRow, Written
    <3>2. IsOpen(result[r].next) \in BOOLEAN
      BY DEF IsOpen
    <3>3. tracked[o].open \in BOOLEAN
      BY <1>5 DEF Row
    <3> QED
      BY <3>1, <3>2, <3>3, Zenon
  <2>2. Greater(answer[r].filled, tracked[o].filled) \in Quantity
    BY <1>6 DEF Greater
  <2>3. result[r].next \in Statuses
    BY <1>5 DEF Result
  <2>4. AppliedRow(r) = [status |-> AppliedRow(r).status, filled |-> AppliedRow(r).filled,
                         open |-> AppliedRow(r).open]
    BY DEF AppliedRow
  <2> QED
    BY <1>7, <1>8, <2>1, <2>2, <2>3, <2>4 DEF Row
<1>10. fills[o] + result[r].fill = AppliedRow(r).filled
  BY <1>1, <1>2, <1>3, <1>7 DEF PromiseInv, TrackedIsBooked, AnswerIsUsed
<1>11. /\ tracked[o].filled =< AppliedRow(r).filled
       /\ AppliedRow(r).filled =< broker[o].filled
  BY <1>6, <1>7, QtyAssumption DEF Greater, Quantity
<1>12. AppliedRow(r).status \in Terminal =>
         broker[o].status \in BrokerFinal /\ AppliedRow(r).filled = broker[o].filled
  <2>1. broker[o].filled \in Quantity
    BY <1>2 DEF TypeInv, TypeOK, Snapshot
  <2>2. result[r].next \in Terminal =>
          broker[o].status \in BrokerFinal /\ answer[r].filled = broker[o].filled
    BY <1>1 DEF PromiseInv, AnswerIsUsed
  <2> QED
    BY <1>6, <1>7, <1>8, <2>1, <2>2, QtyAssumption DEF Greater, Quantity
<1>13. fills[o] = tracked[o].filled
  BY <1>2 DEF PromiseInv, TrackedIsBooked
<1>14. fills' = [fills EXCEPT ![o] = AppliedRow(r).filled]
  BY <1>1, <1>2, <1>5, <1>10
<1> HIDE DEF o
<1>15. \E row \in Row :
         /\ o \in Orders
         /\ tracked' = [tracked EXCEPT ![o] = row]
         /\ fills' = [fills EXCEPT ![o] = row.filled]
         /\ fills[o] =< row.filled /\ row.filled =< broker[o].filled
         /\ tracked[o].status \notin Terminal
         /\ row.status \in Terminal =>
              broker[o].status \in BrokerFinal /\ row.filled = broker[o].filled
         /\ sub[o] = "done" /\ UNCHANGED <<broker, seen, sub, ledger>>
  BY <1>1, <1>2, <1>3, <1>4, <1>9, <1>11, <1>12, <1>13, <1>14
<1> QED
  BY <1>15 DEF o

-----------------------------------------------------------------------------
(* PromiseInv is inductive                                                 *)

(* A step that leaves alone the books and the broker keeps the first three *)
(* parts.                                                                  *)
LEMMA QuietKeeps ==
  ASSUME PromiseInv, UNCHANGED brokerVars, UNCHANGED <<tracked, fills>>
  PROVE  LastIsLast' /\ TrackedIsBooked' /\ ClosedIsFinal'
BY DEF PromiseInv, LastIsLast, TrackedIsBooked, ClosedIsFinal, brokerVars

(* The broker's and the submission's steps keep PromiseInv.               *)
LEMMA PromiseOrderStep ==
  ASSUME Calm, TypeInv, BookingInv, PromiseInv, NEW o \in Orders, OrderStep(o)
  PROVE  PromiseInv'
<1>1. /\ broker \in [Orders -> Snapshot] /\ seen \in [Orders -> SUBSET Snapshot]
      /\ tracked \in [Orders -> Row] /\ fills \in [Orders -> Nat]
      /\ sub \in [Orders -> {"todo", "sent", "done"}]
      /\ \A r \in Reconcilers : pc[r] \in {"load", "commit"} => cur[r] \in Orders
  BY DEF TypeInv, TypeOK, InHand
<1>2. CASE BrokerMove(o)
  <2>1. PICK s \in Snapshot :
          /\ broker' = [broker EXCEPT ![o] = s] /\ seen' = [seen EXCEPT ![o] = @ \cup {s}]
          /\ broker[o].status \in Working \cup {"stopped"}
          /\ s.status \in Working \cup BrokerFinal
          /\ UNCHANGED <<sub, books, jobVars>>
    BY <1>2, MoveFacts
  <2>2. broker[o].status \notin BrokerFinal \cup {"none"}
    BY <2>1 DEF Working, BrokerFinal
  <2>3. LastIsLast'
    BY <1>1, <2>1, <2>2 DEF PromiseInv, LastIsLast
  <2>4. TrackedIsBooked' /\ ClosedIsFinal'
    BY <1>1, <2>1, <2>2 DEF PromiseInv, TrackedIsBooked, ClosedIsFinal, books
  <2>5. AnswerIsUsed'
    BY <1>1, <2>1, <2>2 DEF PromiseInv, AnswerIsUsed, jobVars
  <2> QED
    BY <2>3, <2>4, <2>5 DEF PromiseInv
<1>3. CASE BrokerForgets(o)
  BY <1>3 DEF BrokerForgets, Calm
<1>4. CASE BrokerAccepts(o)
  <2> DEFINE s == [status |-> "new", filled |-> 0]
  <2>1. /\ sub[o] = "todo" /\ sub' = [sub EXCEPT ![o] = "sent"]
        /\ broker' = [broker EXCEPT ![o] = s] /\ seen' = [seen EXCEPT ![o] = @ \cup {s}]
        /\ UNCHANGED <<books, jobVars>>
    BY <1>4 DEF BrokerAccepts, Show
  <2>2. broker[o].status = "none" /\ seen[o] = {} /\ tracked[o].status \notin Terminal
    BY <2>1 DEF BookingInv, UnsentIsEmpty, NoSnapshot, NotTracked, Terminal
  <2>3. s.status \in Working
    BY DEF Working
  <2> HIDE DEF s
  <2>4. LastIsLast'
    BY <1>1, <2>1, <2>2, <2>3 DEF PromiseInv, LastIsLast
  <2>5. TrackedIsBooked' /\ ClosedIsFinal'
    BY <1>1, <2>1, <2>2 DEF PromiseInv, TrackedIsBooked, ClosedIsFinal, books
  <2>6. AnswerIsUsed'
    <3>1. "none" \notin BrokerFinal
      BY DEF BrokerFinal
    <3> QED
      BY <1>1, <2>1, <2>2, <3>1 DEF PromiseInv, AnswerIsUsed, jobVars
  <2> QED
    BY <2>4, <2>5, <2>6 DEF PromiseInv
<1>5. CASE RecordSubmitted(o)
  <2>1. PICK n \in Nat, l \in Nat :
          /\ tracked' = [tracked EXCEPT ![o] =
                           [status |-> "SUBMITTED", filled |-> n, open |-> TRUE]]
          /\ fills' = [fills EXCEPT ![o] = n]
          /\ UNCHANGED <<broker, seen, jobVars>>
    BY <1>5, AckFacts
  <2>2. sub' = [sub EXCEPT ![o] = "done"]
    BY <1>5 DEF RecordSubmitted
  <2>3. LastIsLast' /\ TrackedIsBooked'
    BY <1>1, <2>1 DEF PromiseInv, LastIsLast, TrackedIsBooked
  <2>4. ClosedIsFinal'
    <3>1. "SUBMITTED" \notin Terminal
      BY DEF Terminal
    <3> QED
      BY <1>1, <2>1, <2>2, <3>1 DEF PromiseInv, ClosedIsFinal
  <2>5. AnswerIsUsed'
    BY <2>1 DEF PromiseInv, AnswerIsUsed, jobVars
  <2> QED
    BY <2>3, <2>4, <2>5 DEF PromiseInv
<1>6. CASE RecordRefused(o)
  <2>1. /\ sub[o] = "todo" /\ sub' = [sub EXCEPT ![o] = "done"]
        /\ tracked' = [tracked EXCEPT ![o] = RejectedRow]
        /\ UNCHANGED <<broker, seen, fills, jobVars>>
    BY <1>6 DEF RecordRefused
  <2>2. broker[o] = NoSnapshot /\ fills[o] = 0
    BY <2>1 DEF BookingInv, UnsentIsEmpty
  <2>3. LastIsLast' /\ TrackedIsBooked' /\ ClosedIsFinal'
    BY <1>1, <2>1, <2>2
    DEF PromiseInv, LastIsLast, TrackedIsBooked, ClosedIsFinal, NoSnapshot, RejectedRow
  <2>4. AnswerIsUsed'
    BY <2>1 DEF PromiseInv, AnswerIsUsed, jobVars
  <2> QED
    BY <2>3, <2>4 DEF PromiseInv
<1>7. CASE RecordRejectedLive(o)
  <2>1. PICK s \in Acks(o) : MapOrderStatus(s.status) = {}
    BY <1>7 DEF RecordRejectedLive, Calm
  <2>2. s.status \in Working \cup BrokerFinal
    BY <2>1 DEF Acks, PromiseInv, LastIsLast
  <2> QED
    BY <2>1, <2>2 DEF MapOrderStatus, Working, BrokerFinal
<1> QED
  BY <1>2, <1>3, <1>4, <1>5, <1>6, <1>7 DEF OrderStep

(* An answer is used whole; a status that closes comes from the broker's   *)
(* last snapshot.                                                          *)
LEMMA PromiseAnswer ==
  ASSUME OneReconciler, Calm, TypeInv, BookingInv, PromiseInv, NEW r \in Reconcilers,
         ReadOrder(r)
  PROVE  AnswerIsUsed'
<1> DEFINE row == input[r][cur[r]]
<1>1. PICK s \in Answers(cur[r]) : ReadSnapshot(r, s)
  BY DEF ReadOrder
<1>2. PICK priced \in PricedIn, mapped \in MapOrderStatus(s.status) :
        \E next \in NextStatus(row.status, mapped) :
          result' = [result EXCEPT ![r] =
                       [next |-> next, fill |-> FillDelta(s.filled, row.filled, priced)]]
  BY <1>1 DEF ReadSnapshot
<1>3. PICK next \in NextStatus(row.status, mapped) :
        result' = [result EXCEPT ![r] =
                     [next |-> next, fill |-> FillDelta(s.filled, row.filled, priced)]]
  BY <1>2
<1>4. /\ pc[r] = "read" /\ answer' = [answer EXCEPT ![r] = s]
      /\ UNCHANGED <<broker, input, cur>>
  BY <1>1 DEF ReadSnapshot, brokerVars
<1>5. /\ cur[r] \in todo[r] /\ cur[r] \in Orders /\ row \in Row
      /\ broker[cur[r]] \in Snapshot
      /\ answer \in [Reconcilers -> Snapshot] /\ result \in [Reconcilers -> Result]
      /\ \A q \in Reconcilers : q = r
  BY <1>4 DEF TypeInv, TypeOK, InHand, OneReconciler
<1>6. s \in Snapshot /\ (s \in seen[cur[r]] \/ s = broker[cur[r]])
  BY <1>5 DEF Answers, TypeInv, TypeOK
<1>7. row.status \notin Terminal
  BY <1>5 DEF TypeInv, ListedOpen, Reconcilable, Terminal
<1>8. priced = TRUE
  BY DEF Calm, PricedIn
<1>9. s.filled \in Nat /\ row.filled \in Nat
  BY <1>5, <1>6, QtyAssumption DEF Snapshot, Row, Quantity
<1>10. row.filled + FillDelta(s.filled, row.filled, priced) = Greater(s.filled, row.filled)
  <2> HIDE DEF row
  <2> QED
    BY <1>8, <1>9 DEF FillDelta, Greater
<1>11. next \in Terminal => s.status \in BrokerFinal
  <2>1. s.status \in Working \cup BrokerFinal
    BY <1>4, <1>5, <1>6 DEF Answers, PromiseInv, LastIsLast, BrokerStatuses
  <2>2. s.status \notin BrokerFinal =>
          mapped \in {"SUBMITTED", "PENDING_CANCEL", "PARTIALLY_FILLED"}
    BY <2>1 DEF Working, BrokerFinal, MapOrderStatus
  <2>3. mapped \in {"SUBMITTED", "PENDING_CANCEL", "PARTIALLY_FILLED"} =>
          ToOrderEvent(mapped) \subseteq {"REQUEST_CANCEL", "PARTIAL_FILL"}
    BY DEF ToOrderEvent
  <2>4. \A e \in {"REQUEST_CANCEL", "PARTIAL_FILL"} :
          ApplyEvent(row.status, e) \cap Terminal = {}
    BY DEF ApplyEvent, ValidTransitions, Terminal
  <2> HIDE DEF row
  <2>5. mapped \in {"SUBMITTED", "PENDING_CANCEL", "PARTIALLY_FILLED"} =>
          next = row.status \/ \E e \in {"REQUEST_CANCEL", "PARTIAL_FILL"} :
                                 next \in ApplyEvent(row.status, e)
    BY <2>3 DEF NextStatus
  <2> QED
    BY <1>7, <2>2, <2>4, <2>5
<1>12. s.status \in BrokerFinal =>
         broker[cur[r]].status \in BrokerFinal /\ s.filled = broker[cur[r]].filled
  BY <1>5, <1>6 DEF PromiseInv, LastIsLast
<1>13. /\ answer'[r] = s
       /\ result'[r] = [next |-> next, fill |-> FillDelta(s.filled, row.filled, priced)]
  BY <1>3, <1>4, <1>5
<1>14. /\ row.filled + result'[r].fill = Greater(answer'[r].filled, row.filled)
       /\ result'[r].next \in Terminal =>
            broker[cur[r]].status \in BrokerFinal /\ answer'[r].filled = broker[cur[r]].filled
  <2> HIDE DEF row
  <2> QED
    BY <1>10, <1>11, <1>12, <1>13
<1> QED
  BY <1>4, <1>5, <1>14 DEF AnswerIsUsed

(* A step that takes a lone reconciler out of load and commit leaves no    *)
(* result in hand.                                                         *)
LEMMA NothingInHand ==
  ASSUME OneReconciler, NEW r \in Reconcilers, pc'[r] \notin {"load", "commit"}
  PROVE  AnswerIsUsed'
BY DEF OneReconciler, AnswerIsUsed

(* The job's steps keep PromiseInv.                                       *)
LEMMA PromiseJobStep ==
  ASSUME OneReconciler, Calm, TypeInv, BookingInv, PromiseInv, NEW r \in Reconcilers,
         JobStep(r)
  PROVE  PromiseInv'
<1>1. pc \in [Reconcilers -> Steps] /\ \A q \in Reconcilers : q = r
  BY DEF TypeInv, TypeOK, OneReconciler
<1>2. CASE StartJob(r) \/ (\E o \in Orders : Pick(r, o)) \/ FinishJob(r) \/ ReadRaises(r)
  <2>1. UNCHANGED brokerVars /\ UNCHANGED <<tracked, fills>>
    BY <1>2 DEF StartJob, Pick, FinishJob, ReadRaises, books
  <2>2. \E l \in {"pick", "read", "idle"} : pc' = [pc EXCEPT ![r] = l]
    BY <1>2 DEF StartJob, Pick, FinishJob, ReadRaises, Leave
  <2>3. AnswerIsUsed'
    BY <1>1, <2>2, NothingInHand
  <2> QED
    BY <2>1, <2>3, QuietKeeps DEF PromiseInv
<1>3. CASE ReadOrder(r)
  <2>1. UNCHANGED brokerVars /\ UNCHANGED <<tracked, fills>>
    BY <1>3 DEF ReadOrder, ReadSnapshot, books
  <2> QED
    BY <1>3, <2>1, PromiseAnswer, QuietKeeps DEF PromiseInv
<1>4. CASE ReadGone(r)
  <2>1. pc[r] = "read" /\ broker[cur[r]].status = "gone"
    BY <1>4 DEF ReadGone
  <2>2. cur[r] \in Orders
    BY <2>1 DEF TypeInv, TypeOK, InHand
  <2> QED
    BY <2>1, <2>2 DEF PromiseInv, LastIsLast, Working, BrokerFinal
<1>5. CASE LoadRow(r)
  <2>1. /\ pc[r] = "load" /\ UNCHANGED <<input, cur, answer, result>>
        /\ UNCHANGED brokerVars /\ UNCHANGED <<tracked, fills>>
    BY <1>5 DEF LoadRow, books
  <2>2. AnswerIsUsed'
    BY <1>1, <2>1 DEF PromiseInv, AnswerIsUsed, brokerVars
  <2> QED
    BY <2>1, <2>2, QuietKeeps DEF PromiseInv
<1>6. CASE CommitResult(r)
  <2>1. PICK row \in Row :
          LET o == cur[r]
          IN /\ o \in Orders
             /\ tracked' = [tracked EXCEPT ![o] = row]
             /\ fills' = [fills EXCEPT ![o] = row.filled]
             /\ row.status \in Terminal =>
                  broker[o].status \in BrokerFinal /\ row.filled = broker[o].filled
             /\ sub[o] = "done" /\ UNCHANGED <<broker, seen, sub>>
    BY <1>6, CommitFacts
  <2>2. tracked \in [Orders -> Row] /\ fills \in [Orders -> Nat]
    BY DEF TypeInv, TypeOK
  <2>3. LastIsLast' /\ TrackedIsBooked'
    BY <2>1, <2>2 DEF PromiseInv, LastIsLast, TrackedIsBooked
  <2>4. ClosedIsFinal'
    BY <2>1, <2>2 DEF PromiseInv, ClosedIsFinal
  <2>5. pc' = [pc EXCEPT ![r] = IF result[r].fill > 0 THEN "account" ELSE "pick"]
    BY <1>6 DEF CommitResult
  <2>6. AnswerIsUsed'
    BY <1>1, <2>5, NothingInHand
  <2> QED
    BY <2>3, <2>4, <2>6 DEF PromiseInv
<1>7. CASE AccountFill(r) \/ ApplyToSleeve(r)
  <2>1. UNCHANGED brokerVars /\ UNCHANGED <<tracked, fills>>
    BY <1>7 DEF AccountFill, ApplyToSleeve
  <2>2. \E l \in {"sleeve", "pick"} : pc' = [pc EXCEPT ![r] = l]
    BY <1>7 DEF AccountFill, ApplyToSleeve, AfterAccounting
  <2>3. AnswerIsUsed'
    BY <1>1, <2>2, NothingInHand
  <2> QED
    BY <2>1, <2>3, QuietKeeps DEF PromiseInv
<1> QED
  BY <1>2, <1>3, <1>4, <1>5, <1>6, <1>7 DEF JobStep

(* A crash or an error of the job keeps PromiseInv.                       *)
LEMMA PromiseJobFault ==
  ASSUME OneReconciler, TypeInv, PromiseInv, NEW r \in Reconcilers, JobFault(r)
  PROVE  PromiseInv'
<1>1. UNCHANGED brokerVars /\ UNCHANGED <<tracked, fills>>
  BY DEF JobFault, AccountingFails, SleeveFails, JobDies, books
<1>2. \E l \in {"sleeve", "pick", "idle"} : pc' = [pc EXCEPT ![r] = l]
  BY DEF JobFault, AccountingFails, SleeveFails, JobDies, Leave, AfterAccounting
<1>3. AnswerIsUsed'
  BY <1>2, NothingInHand DEF TypeInv, TypeOK
<1> QED
  BY <1>1, <1>3, QuietKeeps DEF PromiseInv

KeptInv == SafeInv /\ PromiseInv

(* PromiseInv is inductive with one reconciler and a calm environment.    *)
LEMMA PromiseStep ==
  ASSUME OneReconciler, Calm
  PROVE  KeptInv /\ [Next]_vars => KeptInv'
<1> SUFFICES ASSUME KeptInv, [Next]_vars
             PROVE  KeptInv'
  OBVIOUS
<1>1. SafeInv /\ PromiseInv /\ SafeInv'
  BY BookingStep DEF KeptInv
<1>2. TypeInv /\ BookingInv
  BY <1>1 DEF SafeInv
<1>3. CASE UNCHANGED vars
  <2>1. PromiseInv'
    BY <1>1, <1>3
    DEF vars, PromiseInv, LastIsLast, TrackedIsBooked, ClosedIsFinal, AnswerIsUsed
  <2> QED
    BY <1>1, <2>1 DEF KeptInv
<1>4. CASE \E o \in Orders : OrderStep(o)
  BY <1>1, <1>2, <1>4, PromiseOrderStep DEF KeptInv
<1>5. CASE \E r \in Reconcilers : JobStep(r) \/ JobFault(r)
  BY <1>1, <1>2, <1>5, PromiseJobStep, PromiseJobFault DEF KeptInv
<1> QED
  BY <1>3, <1>4, <1>5 DEF Next

(* Both invariants hold in every reachable state.                         *)
LEMMA KeptIsInvariant ==
  ASSUME OneReconciler, Calm
  PROVE  Spec => []KeptInv
<1>1. Init => KeptInv
  BY TypeInit, BookingInit, PromiseInit DEF KeptInv, SafeInv
<1> QED
  BY <1>1, PromiseStep, PTL DEF Spec

-----------------------------------------------------------------------------
(* The theorems.                                                           *)

(* What is tracked is what is booked, and a closed order has every share   *)
(* the broker executed in the fills table, whatever crashed on the way and *)
(* however old the answers were.                                           *)
THEOREM NothingMissed ==
  ASSUME OneReconciler, Calm
  PROVE  Spec => []BookingsComplete
<1>1. KeptInv => BookingsComplete
  <2>1. KeptInv => ClosedIsBooked
    BY DEF KeptInv, PromiseInv, ClosedIsFinal, ClosedIsBooked
  <2> QED
    BY <2>1 DEF KeptInv, PromiseInv, BookingsComplete
<1> QED
  BY <1>1, KeptIsInvariant, PTL

Grows(o) ==
  /\ tracked[o].filled =< tracked'[o].filled /\ fills[o] =< fills'[o]
  /\ ledger[o] =< ledger'[o] /\ sleeve[o] =< sleeve'[o]

(* Under BookingInv no step takes anything out of the books.              *)
LEMMA StepsGrow ==
  ASSUME OneReconciler, SafeInv, Next, NEW p \in Orders
  PROVE  Grows(p)
<1>1. /\ tracked \in [Orders -> Row] /\ tracked[p].filled \in Nat
      /\ fills \in [Orders -> Nat] /\ ledger \in [Orders -> Nat] /\ sleeve \in [Orders -> Nat]
      /\ \A r \in Reconcilers : result[r].fill \in Nat /\ answer[r].filled \in Nat
      /\ \A o \in Orders : tracked[o].filled \in Nat /\ fills[o] \in Nat
      /\ \A s \in Snapshot : s.filled \in Nat
  BY QtyAssumption DEF SafeInv, TypeInv, TypeOK, Row, Result, Snapshot, Quantity
<1>2. CASE UNCHANGED <<tracked, fills, ledger, sleeve>>
  BY <1>1, <1>2 DEF Grows
<1>3. CASE \E o \in Orders : RecordSubmitted(o)
  <2>1. PICK o \in Orders : RecordSubmitted(o)
    BY <1>3
  <2>2. PICK s \in Acks(o), priced \in PricedIn, booked \in BOOLEAN, placed \in BOOLEAN :
          BookAck(o, s, AckDelta(s, priced), booked, placed)
    BY <2>1 DEF RecordSubmitted
  <2> DEFINE d == AckDelta(s, priced)
  <2>3. d \in Nat /\ s.filled \in Nat
    BY AckTyped, QtyAssumption DEF SafeInv, TypeInv, Quantity
  <2>4. tracked[o].filled = 0
    BY <2>1 DEF RecordSubmitted, SafeInv, BookingInv, UnsentIsEmpty, NotTracked
  <2> HIDE DEF d
  <2>5. /\ tracked' = [tracked EXCEPT ![o] =
                         [status |-> "SUBMITTED", filled |-> s.filled, open |-> TRUE]]
        /\ fills' = [fills EXCEPT ![o] = @ + d]
        /\ ledger' = [ledger EXCEPT ![o] = IF booked THEN @ + d ELSE @]
        /\ sleeve' = [sleeve EXCEPT ![o] = IF placed /\ Portfolio THEN @ + d ELSE @]
    BY <2>2 DEF BookAck, d
  <2> QED
    BY <1>1, <2>3, <2>4, <2>5 DEF Grows
<1>4. CASE \E o \in Orders : RecordRefused(o) \/ RecordRejectedLive(o)
  <2>1. PICK o \in Orders : RecordRefused(o) \/ RecordRejectedLive(o)
    BY <1>4
  <2>2. /\ sub[o] # "done" /\ tracked' = [tracked EXCEPT ![o] = RejectedRow]
        /\ UNCHANGED <<fills, ledger, sleeve>>
    BY <2>1 DEF RecordRefused, RecordRejectedLive
  <2>3. tracked[o].filled = 0
    BY <2>2 DEF SafeInv, BookingInv, UnsentIsEmpty, NotTracked
  <2> QED
    BY <1>1, <2>2, <2>3 DEF Grows, RejectedRow
<1>5. CASE \E r \in Reconcilers : CommitResult(r)
  <2>1. PICK r \in Reconcilers : CommitResult(r)
    BY <1>5
  <2> DEFINE o == cur[r]
             fill == result[r].fill
  <2>2. /\ pc[r] = "commit" /\ tracked' = [tracked EXCEPT ![o] = AppliedRow(r)]
        /\ fills' = [fills EXCEPT ![o] = @ + fill]
        /\ UNCHANGED <<ledger, sleeve>>
    BY <2>1 DEF CommitResult
  <2>3. o \in Orders /\ loaded[r] = tracked[o]
    BY <2>2 DEF SafeInv, TypeInv, TypeOK, InHand, BookingInv, LoadedIsCurrent
  <2>4. AppliedRow(r).filled = Greater(answer[r].filled, tracked[o].filled)
    BY <2>3 DEF AppliedRow, Written, MonotonicQty
  <2>5. fill \in Nat /\ answer[r].filled \in Nat
    BY <1>1
  <2> HIDE DEF o, fill
  <2>6. tracked[o].filled =< AppliedRow(r).filled
    BY <1>1, <2>3, <2>4, <2>5 DEF Greater
  <2> QED
    BY <1>1, <2>2, <2>3, <2>5, <2>6 DEF Grows
<1>6. CASE \E r \in Reconcilers : AccountFill(r) \/ ApplyToSleeve(r)
  <2>1. PICK r \in Reconcilers : AccountFill(r) \/ ApplyToSleeve(r)
    BY <1>6
  <2> DEFINE fill == result[r].fill
  <2>2. fill \in Nat
    BY <1>1
  <2>3. /\ UNCHANGED <<tracked, fills>>
        /\ ledger' \in {ledger, [ledger EXCEPT ![cur[r]] = @ + fill]}
        /\ sleeve' \in {sleeve, [sleeve EXCEPT ![cur[r]] = @ + fill]}
    BY <2>1 DEF AccountFill, ApplyToSleeve
  <2> HIDE DEF fill
  <2> QED
    BY <1>1, <2>2, <2>3 DEF Grows
<1>7. \/ UNCHANGED <<tracked, fills, ledger, sleeve>>
      \/ \E o \in Orders : RecordSubmitted(o) \/ RecordRefused(o) \/ RecordRejectedLive(o)
      \/ \E r \in Reconcilers : CommitResult(r) \/ AccountFill(r) \/ ApplyToSleeve(r)
  <2>1. CASE \E o \in Orders : OrderStep(o)
    BY <2>1 DEF OrderStep, BrokerMove, BrokerForgets, BrokerAccepts, books
  <2>2. CASE \E r \in Reconcilers : JobStep(r)
    BY <2>2
    DEF JobStep, StartJob, Pick, FinishJob, ReadOrder, ReadSnapshot, ReadGone, ReadRaises,
        LoadRow, books
  <2>3. CASE \E r \in Reconcilers : JobFault(r)
    BY <2>3 DEF JobFault, AccountingFails, SleeveFails, JobDies, books
  <2> QED
    BY <2>1, <2>2, <2>3 DEF Next
<1> QED
  BY <1>2, <1>3, <1>4, <1>5, <1>6, <1>7

(* No book is ever corrected downwards, whatever the environment does: the *)
(* answer in hand may be older than the row, the row never follows it down.*)
THEOREM BooksGrow ==
  ASSUME OneReconciler
  PROVE  Spec => BooksOnlyGrow
<1> DEFINE A == \A o \in Orders : /\ tracked[o].filled =< tracked'[o].filled
                                  /\ fills[o] =< fills'[o]
                                  /\ ledger[o] =< ledger'[o]
                                  /\ sleeve[o] =< sleeve'[o]
<1>1. SafeInv /\ [Next]_vars => [A]_vars
  BY StepsGrow DEF Grows
<1> QED
  BY <1>1, SafeIsInvariant, PTL DEF Spec, BooksOnlyGrow

-----------------------------------------------------------------------------
(* The ledgers when nothing failed                                         *)

(* While nothing has failed, what a ledger lacks of the fills table is the *)
(* fill some job is about to post there.                                   *)
NothingOwed ==
  faults = 0 =>
    /\ \A o \in Orders :
         /\ (\A r \in Reconcilers : pc[r] = "account" => cur[r] # o) => ledger[o] = fills[o]
         /\ (\A r \in Reconcilers : pc[r] \in {"account", "sleeve"} => cur[r] # o) =>
              (Portfolio => sleeve[o] = fills[o])
    /\ \A r \in Reconcilers :
         /\ pc[r] = "account" => ledger[cur[r]] + result[r].fill = fills[cur[r]]
         /\ pc[r] \in {"account", "sleeve"} =>
              (Portfolio => sleeve[cur[r]] + result[r].fill = fills[cur[r]])

(* The broker's and the submission's steps owe the ledgers nothing new.   *)
LEMMA OwedOrderStep ==
  ASSUME TypeInv, NothingOwed, NEW o \in Orders, OrderStep(o)
  PROVE  NothingOwed'
<1>1. /\ fills \in [Orders -> Nat] /\ ledger \in [Orders -> Nat] /\ sleeve \in [Orders -> Nat]
      /\ \A r \in Reconcilers : result[r].fill \in Nat
      /\ \A r \in Reconcilers : pc[r] \in {"account", "sleeve"} => cur[r] \in Orders
      /\ faults \in Nat
  BY QtyAssumption, BoundsAssumption DEF TypeInv, TypeOK, InHand, Result, Quantity
<1>2. CASE RecordSubmitted(o)
  <2>1. PICK s \in Acks(o), priced \in PricedIn, booked \in BOOLEAN, placed \in BOOLEAN :
          BookAck(o, s, AckDelta(s, priced), booked, placed)
    BY <1>2 DEF RecordSubmitted
  <2> DEFINE d == AckDelta(s, priced)
  <2>2. d \in Nat
    BY AckTyped, QtyAssumption DEF TypeInv
  <2> HIDE DEF d
  <2>3. /\ faults' = faults + Errors(booked) + Errors(placed)
        /\ fills' = [fills EXCEPT ![o] = @ + d]
        /\ ledger' = [ledger EXCEPT ![o] = IF booked THEN @ + d ELSE @]
        /\ sleeve' = [sleeve EXCEPT ![o] = IF placed /\ Portfolio THEN @ + d ELSE @]
        /\ UNCHANGED <<pc, cur, result>>
    BY <1>2, <2>1 DEF BookAck, RecordSubmitted, jobVars, d
  <2>4. CASE faults' = 0
    <3>1. booked /\ placed /\ faults = 0
      BY <1>1, <2>3, <2>4 DEF Errors
    <3>2. ledger' = [ledger EXCEPT ![o] = @ + d]
      BY <2>3, <3>1
    <3>3. Portfolio => sleeve' = [sleeve EXCEPT ![o] = @ + d]
      BY <2>3, <3>1
    <3> QED
      BY <1>1, <2>2, <2>3, <3>1, <3>2, <3>3 DEF NothingOwed
  <2> QED
    BY <2>4 DEF NothingOwed
<1>3. CASE ~RecordSubmitted(o)
  <2>1. UNCHANGED <<fills, ledger, sleeve, faults, pc, cur, result>>
    BY <1>3
    DEF OrderStep, BrokerMove, BrokerForgets, BrokerAccepts, RecordRefused,
        RecordRejectedLive, books, jobVars
  <2> QED
    BY <2>1 DEF NothingOwed
<1> QED
  BY <1>2, <1>3

(* The job owes a ledger the fill it is about to post, and no other.      *)
LEMMA OwedJobStep ==
  ASSUME OneReconciler, TypeInv, NothingOwed, NEW r \in Reconcilers, JobStep(r)
  PROVE  NothingOwed'
<1>1. /\ fills \in [Orders -> Nat] /\ ledger \in [Orders -> Nat] /\ sleeve \in [Orders -> Nat]
      /\ result[r].fill \in Nat /\ pc \in [Reconcilers -> Steps]
      /\ pc[r] \in {"commit", "account", "sleeve"} => cur[r] \in Orders
      /\ \A q \in Reconcilers : q = r
  BY QtyAssumption DEF TypeInv, TypeOK, InHand, Result, Quantity, OneReconciler
<1>2. CASE CommitResult(r)
  <2>1. /\ pc[r] = "commit" /\ fills' = [fills EXCEPT ![cur[r]] = @ + result[r].fill]
        /\ pc' = [pc EXCEPT ![r] = IF result[r].fill > 0 THEN "account" ELSE "pick"]
        /\ UNCHANGED <<ledger, sleeve, cur, result, faults>>
    BY <1>2 DEF CommitResult
  <2>2. CASE result[r].fill > 0
    BY <1>1, <2>1, <2>2 DEF NothingOwed
  <2>3. CASE result[r].fill = 0
    <3>1. fills' = fills /\ pc'[r] = "pick"
      BY <1>1, <2>1, <2>3
    <3> QED
      BY <1>1, <2>1, <3>1 DEF NothingOwed
  <2> QED
    BY <1>1, <2>2, <2>3
<1>3. CASE AccountFill(r)
  <2>1. /\ pc[r] = "account" /\ ledger' = [ledger EXCEPT ![cur[r]] = @ + result[r].fill]
        /\ pc' = [pc EXCEPT ![r] = AfterAccounting]
        /\ UNCHANGED <<fills, sleeve, cur, result, faults>>
    BY <1>3 DEF AccountFill
  <2>2. pc'[r] = "sleeve" \/ (~Portfolio /\ pc'[r] = "pick")
    BY <1>1, <2>1 DEF AfterAccounting
  <2> QED
    BY <1>1, <2>1, <2>2 DEF NothingOwed
<1>4. CASE ApplyToSleeve(r)
  <2>1. /\ pc[r] = "sleeve" /\ sleeve' = [sleeve EXCEPT ![cur[r]] = @ + result[r].fill]
        /\ pc' = [pc EXCEPT ![r] = "pick"]
        /\ UNCHANGED <<fills, ledger, cur, result, faults>>
    BY <1>4 DEF ApplyToSleeve
  <2>2. pc'[r] = "pick"
    BY <1>1, <2>1
  <2> QED
    BY <1>1, <2>1, <2>2 DEF NothingOwed
<1>5. CASE ~CommitResult(r) /\ ~AccountFill(r) /\ ~ApplyToSleeve(r)
  <2>1. /\ pc[r] \notin {"account", "sleeve"} /\ pc'[r] \notin {"account", "sleeve"}
        /\ UNCHANGED <<fills, ledger, sleeve, faults>>
    BY <1>1, <1>5
    DEF JobStep, StartJob, Pick, FinishJob, ReadOrder, ReadSnapshot, ReadGone, ReadRaises,
        LoadRow, Leave, books
  <2> QED
    BY <1>1, <2>1 DEF NothingOwed
<1> QED
  BY <1>2, <1>3, <1>4, <1>5

(* Nothing is lost on the way to a ledger: where nothing failed and no job *)
(* is about to post, the ledgers hold exactly the booked fills.            *)
THEOREM LedgersCatchUp ==
  ASSUME OneReconciler
  PROVE  Spec => []LedgersComplete
<1>1. Init => NothingOwed
  BY DEF Init, NothingOwed
<1>2. SafeInv /\ NothingOwed /\ [Next]_vars => NothingOwed'
  <2> SUFFICES ASSUME TypeInv, NothingOwed, [Next]_vars
               PROVE  NothingOwed'
    BY DEF SafeInv
  <2>1. CASE UNCHANGED vars
    BY <2>1 DEF vars, NothingOwed
  <2>2. CASE \E o \in Orders : OrderStep(o)
    BY <2>2, OwedOrderStep
  <2>3. CASE \E r \in Reconcilers : JobStep(r)
    BY <2>3, OwedJobStep
  <2>4. CASE \E r \in Reconcilers : JobFault(r)
    <3>1. faults \in Nat /\ faults' = faults + 1
      BY <2>4, BoundsAssumption
      DEF JobFault, AccountingFails, SleeveFails, JobDies, TypeInv, TypeOK
    <3> QED
      BY <3>1 DEF NothingOwed
  <2> QED
    BY <2>1, <2>2, <2>3, <2>4 DEF Next
<1>3. NothingOwed => LedgersComplete
  BY DEF NothingOwed, LedgersComplete
<1> QED
  BY <1>1, <1>2, <1>3, SafeIsInvariant, PTL DEF Spec

-----------------------------------------------------------------------------
(* Order handling implements OrderPromise.                                 *)

(* What the refinement mapping shows of the order books.                   *)
Executed == [o \in Orders |-> broker[o].filled]
Life     == [o \in Orders |-> LifeOf(broker[o])]
Closed   == [o \in Orders |-> tracked[o].status \in Terminal]

(* How the life of an order reads its status at the broker.               *)
LEMMA LifeTyped ==
  ASSUME PromiseInv, NEW o \in Orders
  PROVE  /\ LifeOf(broker[o]) = "unsent" <=> broker[o].status = "none"
         /\ LifeOf(broker[o]) = "final" <=> broker[o].status \in BrokerFinal
         /\ LifeOf(broker[o]) = "working" <=> broker[o].status \in Working
BY DEF LifeOf, PromiseInv, LastIsLast, Working, BrokerFinal

(* The initial state maps to the initial state of OrderPromise.           *)
LEMMA PromiseStarts == Init => Promise!Init
<1> SUFFICES ASSUME Init
             PROVE  Promise!Init
  OBVIOUS
<1>1. LifeOf(NoSnapshot) = "unsent" /\ NoSnapshot.filled = 0
  BY DEF LifeOf, NoSnapshot, BrokerFinal
<1>2. NotTracked.status \notin Terminal
  BY DEF NotTracked, Terminal
<1>3. Executed = [o \in Orders |-> 0] /\ Life = [o \in Orders |-> "unsent"]
  BY <1>1 DEF Init, Executed, Life
<1>4. Closed = [o \in Orders |-> FALSE]
  <2>1. (NotTracked.status \in Terminal) = FALSE
    BY <1>2, SMT
  <2>2. Closed = [o \in Orders |-> NotTracked.status \in Terminal]
    BY DEF Init, Closed
  <2> QED
    BY <2>1, <2>2, Zenon
<1> QED
  BY <1>3, <1>4 DEF Init, Promise!Init, Executed, Life, Closed

(* Every step of the orders themselves is one the promise allows.          *)
LEMMA OrderStepAllowed ==
  ASSUME OneReconciler, Calm, KeptInv, KeptInv', NEW o \in Orders, OrderStep(o)
  PROVE  Promise!Next \/ UNCHANGED Promise!vars
<1>1. /\ TypeInv /\ BookingInv /\ PromiseInv /\ PromiseInv'
      /\ broker \in [Orders -> Snapshot] /\ tracked \in [Orders -> Row]
      /\ fills \in [Orders -> Nat] /\ ledger \in [Orders -> Nat]
      /\ \A s \in Snapshot : s.filled \in Quantity
  BY DEF KeptInv, SafeInv, TypeInv, TypeOK, Snapshot
<1>2. CASE BrokerMove(o)
  <2>1. PICK s \in Snapshot :
          /\ broker' = [broker EXCEPT ![o] = s]
          /\ broker[o].status \in Working \cup {"stopped"}
          /\ s.status \in Working \cup BrokerFinal
          /\ broker[o].filled =< s.filled
          /\ UNCHANGED books
    BY <1>1, <1>2, MoveFacts
  <2>2. broker[o].status \in Working
    BY <1>1, <2>1 DEF PromiseInv, LastIsLast, BrokerFinal
  <2>3. LifeOf(broker[o]) = "working"
    BY <1>1, <2>2, LifeTyped
  <2>4. LifeOf(s) \in {"working", "final"}
    BY <2>1 DEF LifeOf, Working, BrokerFinal
  <2>5. s.filled \in broker[o].filled .. Qty
    BY <1>1, <2>1, QtyAssumption DEF Quantity
  <2>6. /\ Executed' = [Executed EXCEPT ![o] = s.filled]
        /\ Life' = [Life EXCEPT ![o] = LifeOf(s)]
        /\ UNCHANGED <<fills, ledger, Closed>>
    BY <1>1, <2>1 DEF Executed, Life, Closed, books
  <2>7. Promise!Execute(o)
    BY <2>3, <2>4, <2>5, <2>6 DEF Promise!Execute, Executed, Life, Closed
  <2> QED
    BY <2>7 DEF Promise!Next
<1>3. CASE BrokerForgets(o)
  BY <1>3 DEF BrokerForgets, Calm
<1>4. CASE BrokerAccepts(o)
  <2> DEFINE s == [status |-> "new", filled |-> 0]
  <2>1. /\ sub[o] = "todo" /\ broker' = [broker EXCEPT ![o] = s] /\ UNCHANGED books
    BY <1>4 DEF BrokerAccepts, Show
  <2>2. broker[o] = NoSnapshot /\ tracked[o].status \notin Terminal
    BY <1>1, <2>1 DEF BookingInv, UnsentIsEmpty, NotTracked, Terminal
  <2>3. LifeOf(broker[o]) = "unsent" /\ LifeOf(s) = "working" /\ s.filled = broker[o].filled
    BY <2>2 DEF LifeOf, NoSnapshot, BrokerFinal
  <2> HIDE DEF s
  <2>4. /\ UNCHANGED <<Executed, fills, ledger, Closed>>
        /\ Life' = [Life EXCEPT ![o] = "working"]
    BY <1>1, <2>1, <2>3 DEF Executed, Life, Closed, books
  <2>5. Promise!Send(o)
    BY <2>2, <2>3, <2>4 DEF Promise!Send, Executed, Life, Closed
  <2> QED
    BY <2>5 DEF Promise!Next
<1>5. CASE RecordSubmitted(o)
  <2>1. PICK n \in Nat, l \in Nat :
          /\ tracked' = [tracked EXCEPT ![o] =
                           [status |-> "SUBMITTED", filled |-> n, open |-> TRUE]]
          /\ fills' = [fills EXCEPT ![o] = n] /\ ledger' = [ledger EXCEPT ![o] = l]
          /\ n =< broker[o].filled /\ l =< n
          /\ tracked[o] = NotTracked /\ fills[o] = 0 /\ ledger[o] = 0
          /\ UNCHANGED broker
    BY <1>1, <1>5, AckFacts
  <2>2. tracked[o].status \notin Terminal /\ "SUBMITTED" \notin Terminal
    BY <2>1 DEF NotTracked, Terminal
  <2>3. n \in fills[o] .. broker[o].filled /\ l \in ledger[o] .. n
    BY <1>1, <2>1, QtyAssumption DEF Quantity
  <2>4. /\ UNCHANGED <<Executed, Life>> /\ Closed' = [Closed EXCEPT ![o] = FALSE]
    <3>1. PICK row : row.status \notin Terminal /\ tracked' = [tracked EXCEPT ![o] = row]
      BY <2>1, <2>2
    <3>2. (row.status \in Terminal) = FALSE
      BY <3>1, SMT
    <3>3. Closed' = [Closed EXCEPT ![o] = row.status \in Terminal]
      BY <1>1, <3>1 DEF Closed
    <3>4. Closed' = [Closed EXCEPT ![o] = FALSE]
      BY <3>2, <3>3, Zenon
    <3> QED
      BY <2>1, <3>4 DEF Executed, Life
  <2>5. Promise!Settle(o)
    BY <2>1, <2>2, <2>3, <2>4 DEF Promise!Settle, Executed, Life, Closed
  <2> QED
    BY <2>5 DEF Promise!Next
<1>6. CASE RecordRefused(o)
  <2>1. /\ sub[o] = "todo" /\ tracked' = [tracked EXCEPT ![o] = RejectedRow]
        /\ UNCHANGED <<broker, fills, ledger>>
    BY <1>6 DEF RecordRefused
  <2>2. broker[o] = NoSnapshot /\ tracked[o].status \notin Terminal
    BY <1>1, <2>1 DEF BookingInv, UnsentIsEmpty, NotTracked, Terminal
  <2>3. LifeOf(broker[o]) = "unsent" /\ RejectedRow.status \in Terminal
    BY <2>2 DEF LifeOf, NoSnapshot, BrokerFinal, RejectedRow, Terminal
  <2>4. UNCHANGED <<Executed, Life>> /\ Closed' = [Closed EXCEPT ![o] = TRUE]
    BY <1>1, <2>1, <2>3 DEF Executed, Life, Closed
  <2>5. Promise!Refuse(o)
    BY <2>1, <2>2, <2>3, <2>4 DEF Promise!Refuse, Executed, Life, Closed
  <2> QED
    BY <2>5 DEF Promise!Next
<1>7. CASE RecordRejectedLive(o)
  <2>1. PICK s \in Acks(o) : MapOrderStatus(s.status) = {}
    BY <1>7 DEF RecordRejectedLive, Calm
  <2>2. s.status \in Working \cup BrokerFinal
    BY <1>1, <2>1 DEF Acks, PromiseInv, LastIsLast
  <2> QED
    BY <2>1, <2>2 DEF MapOrderStatus, Working, BrokerFinal
<1> QED
  BY <1>2, <1>3, <1>4, <1>5, <1>6, <1>7 DEF OrderStep

(* So is every step, and every failure, of the reconciliation job.         *)
LEMMA JobStepAllowed ==
  ASSUME OneReconciler, Calm, KeptInv, NEW r \in Reconcilers, JobStep(r) \/ JobFault(r)
  PROVE  Promise!Next \/ UNCHANGED Promise!vars
<1>1. /\ TypeInv /\ BookingInv /\ PromiseInv
      /\ broker \in [Orders -> Snapshot] /\ tracked \in [Orders -> Row]
      /\ fills \in [Orders -> Nat] /\ ledger \in [Orders -> Nat]
      /\ \A s \in Snapshot : s.filled \in Nat
  BY QtyAssumption DEF KeptInv, SafeInv, TypeInv, TypeOK, Snapshot, Quantity
<1>2. CASE CommitResult(r)
  <2>0. PICK o : o = cur[r]
    OBVIOUS
  <2>1. PICK row \in Row :
          /\ o \in Orders
          /\ tracked' = [tracked EXCEPT ![o] = row]
          /\ fills' = [fills EXCEPT ![o] = row.filled]
          /\ fills[o] =< row.filled /\ row.filled =< broker[o].filled
          /\ tracked[o].status \notin Terminal
          /\ row.status \in Terminal =>
               broker[o].status \in BrokerFinal /\ row.filled = broker[o].filled
          /\ UNCHANGED <<broker, ledger>>
    BY <1>1, <1>2, <2>0, CommitFacts
  <2>2. /\ ledger[o] =< fills[o] /\ ledger[o] \in Nat /\ fills[o] \in Nat
        /\ row.filled \in Nat /\ broker[o].filled \in Nat
    BY <1>1, <2>1, QtyAssumption DEF BookingInv, LedgersFollowFills, Row, Quantity
  <2>3. row.filled \in fills[o] .. broker[o].filled /\ ledger[o] \in ledger[o] .. row.filled
    BY <2>1, <2>2
  <2>4. /\ UNCHANGED <<Executed, Life>>
        /\ Closed' = [Closed EXCEPT ![o] = row.status \in Terminal]
        /\ ledger' = [ledger EXCEPT ![o] = ledger[o]]
    BY <1>1, <2>1 DEF Executed, Life, Closed
  <2>5. (row.status \in Terminal) \in
          {FALSE, LifeOf(broker[o]) = "final" /\ row.filled = broker[o].filled}
    <3> DEFINE closes == row.status \in Terminal
               done == LifeOf(broker[o]) = "final" /\ row.filled = broker[o].filled
    <3>1. closes => done
      BY <1>1, <2>1, LifeTyped
    <3>2. closes \in BOOLEAN /\ done \in BOOLEAN
      OBVIOUS
    <3> HIDE DEF closes, done
    <3>3. closes \in {FALSE, done}
      BY <3>1, <3>2, Zenon
    <3> QED
      BY <3>3 DEF closes, done
  <2>6. Promise!Settle(o)
    BY <2>1, <2>3, <2>4, <2>5 DEF Promise!Settle, Executed, Life, Closed
  <2> QED
    BY <2>1, <2>6 DEF Promise!Next
<1>3. CASE AccountFill(r)
  <2>0. PICK o : o = cur[r]
    OBVIOUS
  <2> DEFINE p == ledger[o] + result[r].fill
  <2>1. /\ pc[r] = "account" /\ UNCHANGED <<broker, tracked, fills>>
        /\ ledger' = [ledger EXCEPT ![o] = p]
    BY <1>3, <2>0 DEF AccountFill, brokerVars
  <2>2. o \in Orders /\ result[r].fill \in Nat
    BY <1>1, <2>0, <2>1, QtyAssumption DEF TypeInv, TypeOK, InHand, Result, Quantity
  <2>3. p =< fills[o]
    BY <1>1, <2>0, <2>1 DEF BookingInv, OnItsWay
  <2>4. p \in ledger[o] .. fills[o]
    BY <1>1, <2>2, <2>3
  <2> HIDE DEF p
  <2>5. UNCHANGED <<Executed, Life, Closed>>
    BY <2>1 DEF Executed, Life, Closed
  <2>6. Promise!Post(o)
    BY <2>1, <2>4, <2>5 DEF Promise!Post, Executed, Life, Closed
  <2> QED
    BY <2>2, <2>6 DEF Promise!Next
<1>4. CASE ~CommitResult(r) /\ ~AccountFill(r)
  <2>1. UNCHANGED <<broker, tracked, fills, ledger>>
    <3>1. CASE JobStep(r)
      BY <1>4, <3>1
      DEF JobStep, StartJob, Pick, FinishJob, ReadOrder, ReadSnapshot, ReadGone, ReadRaises,
          LoadRow, ApplyToSleeve, books, brokerVars
    <3>2. CASE JobFault(r)
      BY <3>2 DEF JobFault, AccountingFails, SleeveFails, JobDies, books, brokerVars
    <3> QED
      BY <3>1, <3>2
  <2> QED
    BY <2>1 DEF Promise!vars
<1> QED
  BY <1>2, <1>3, <1>4

(* Order handling keeps its promise: a share is booked once and posted     *)
(* once, and only a refused order, or one the broker is done with and      *)
(* whose shares are all booked, is ever closed.                            *)
THEOREM PromiseIsKept ==
  ASSUME OneReconciler, Calm
  PROVE  Spec => KeepsPromise
<1>1. KeptInv /\ KeptInv' /\ [Next]_vars => [Promise!Next]_(Promise!vars)
  <2> SUFFICES ASSUME KeptInv, KeptInv', [Next]_vars
               PROVE  Promise!Next \/ UNCHANGED Promise!vars
    OBVIOUS
  <2>1. CASE UNCHANGED vars
    BY <2>1 DEF vars, Promise!vars
  <2>2. CASE \E o \in Orders : OrderStep(o)
    BY <2>2, OrderStepAllowed
  <2>3. CASE \E r \in Reconcilers : JobStep(r) \/ JobFault(r)
    BY <2>3, JobStepAllowed
  <2> QED
    BY <2>1, <2>2, <2>3 DEF Next
<1> QED
  BY <1>1, PromiseStarts, KeptIsInvariant, PTL DEF Spec, KeepsPromise, Promise!Spec
=============================================================================
