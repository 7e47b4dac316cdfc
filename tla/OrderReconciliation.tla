------------------------ MODULE OrderReconciliation ------------------------
(***************************************************************************)
(* Tracked orders, fills and the two fill ledgers, from the broker's       *)
(* acknowledgement of an order to the poll that closes it: the tail of     *)
(* run_order_submission_job, run_order_reconciliation_job with             *)
(* OrderReconciliationService and OrderRuntimeStateService, and the broker *)
(* they poll (external).                                                   *)
(*                                                                         *)
(* One action is one database transaction (a SorUnitOfWork), one broker    *)
(* call, or one step of a job's loop; any number of processes may be in    *)
(* the reconciliation job at once (the scheduled cycle, an overlapping     *)
(* cycle, `execution reconcile-open-orders`), and any may die between two  *)
(* steps.                                                                  *)
(***************************************************************************)
EXTENDS OrderLifecycle

CONSTANTS
  Orders,        \* order intents, each submitted once
  NoOrder,       \* no order: not one of Orders
  Qty,           \* requested quantity of an order, in shares
  Reconcilers,   \* processes that can be inside the reconciliation job
  Portfolio,     \* portfolio_mode_enabled: fills also go to a sleeve
  Misbehaviour,  \* what the environment may do, a subset of Misbehaviours
  MaxFaults      \* bound on crashes, broker errors and accounting errors

(* stale_reads: an answer older than the broker's current state.           *)
(* late_ack:    the submission is answered by the idempotency lookup,      *)
(*              after the order may have begun to fill.                    *)
(* lost_ack:    every answer to a submission the broker accepted is lost.  *)
(* drops:       the broker forgets an order and answers 404.               *)
(* suspends, stops: broker statuses the platform rejects or cannot read.   *)
(* unpriced:    a snapshot with a filled quantity but no average price.    *)
Misbehaviours == {"stale_reads", "late_ack", "lost_ack", "drops",
                  "suspends", "stops", "unpriced"}

ASSUME QtyAssumption == Qty \in Nat \ {0}
ASSUME MisbehaviourAssumption == Misbehaviour \subseteq Misbehaviours
ASSUME NoOrderAssumption == NoOrder \notin Orders
ASSUME BoundsAssumption == MaxFaults \in Nat /\ Portfolio \in BOOLEAN

VARIABLES
  broker,   \* [order -> the broker's current snapshot of it]
  seen,     \* [order -> every snapshot the broker ever showed of it]
  sub,      \* [order -> where its submission is: "todo", "sent", "done"]
  tracked,  \* [order -> its tracked_orders row]
  fills,    \* [order -> shares in the fills table]
  ledger,   \* [order -> shares applied to the position and cash ledgers]
  sleeve,   \* [order -> shares applied to the strategy's sleeve]
  pc,       \* [reconciler -> where the job is]
  todo,     \* [reconciler -> orders of its list not yet handled]
  input,    \* [reconciler -> the rows as the job listed them]
  cur,      \* [reconciler -> the order in hand]
  answer,   \* [reconciler -> the broker's answer for it]
  result,   \* [reconciler -> the next status and fill computed from it]
  loaded,   \* [reconciler -> the row as re-read in the booking transaction]
  faults    \* crashes and errors so far

brokerVars == <<broker, seen, sub>>
books      == <<tracked, fills, ledger, sleeve>>
jobVars    == <<pc, todo, input, cur, answer, result, loaded>>
vars       == <<broker, seen, sub, tracked, fills, ledger, sleeve,
                pc, todo, input, cur, answer, result, loaded, faults>>

Quantity   == 0 .. Qty
Snapshot   == [status : BrokerStatuses \cup {"none", "gone"}, filled : Quantity]
Row        == [status : Statuses \cup {"UNTRACKED"}, filled : Quantity, open : BOOLEAN]
Result     == [next : Statuses, fill : Quantity]
NotTracked == [status |-> "UNTRACKED", filled |-> 0, open |-> FALSE]
NoSnapshot == [status |-> "none", filled |-> 0]
NoResult   == [next |-> "NEW", fill |-> 0]
Steps      == {"idle", "pick", "read", "load", "commit", "account", "sleeve"}

BrokerFinal == {"filled", "canceled", "expired", "rejected"}

TypeOK ==
  /\ broker \in [Orders -> Snapshot]
  /\ seen \in [Orders -> SUBSET Snapshot]
  /\ sub \in [Orders -> {"todo", "sent", "done"}]
  /\ tracked \in [Orders -> Row]
  /\ fills \in [Orders -> Nat]
  /\ ledger \in [Orders -> Nat]
  /\ sleeve \in [Orders -> Nat]
  /\ pc \in [Reconcilers -> Steps]
  /\ todo \in [Reconcilers -> SUBSET Orders]
  /\ input \in [Reconcilers -> [Orders -> Row]]
  /\ cur \in [Reconcilers -> Orders \cup {NoOrder}]
  /\ answer \in [Reconcilers -> Snapshot]
  /\ result \in [Reconcilers -> Result]
  /\ loaded \in [Reconcilers -> Row]
  /\ faults \in 0 .. MaxFaults

Init ==
  /\ broker = [o \in Orders |-> NoSnapshot]
  /\ seen = [o \in Orders |-> {}]
  /\ sub = [o \in Orders |-> "todo"]
  /\ tracked = [o \in Orders |-> NotTracked]
  /\ fills = [o \in Orders |-> 0]
  /\ ledger = [o \in Orders |-> 0]
  /\ sleeve = [o \in Orders |-> 0]
  /\ pc = [r \in Reconcilers |-> "idle"]
  /\ todo = [r \in Reconcilers |-> {}]
  /\ input = [r \in Reconcilers |-> [o \in Orders |-> NotTracked]]
  /\ cur = [r \in Reconcilers |-> NoOrder]
  /\ answer = [r \in Reconcilers |-> NoSnapshot]
  /\ result = [r \in Reconcilers |-> NoResult]
  /\ loaded = [r \in Reconcilers |-> NotTracked]
  /\ faults = 0

-----------------------------------------------------------------------------
(* The broker (external).                                                  *)

(* The snapshots that can follow snapshot s of one order.                  *)
BrokerMoves(s) ==
  LET working == s.status \in {"new", "partially_filled", "pending_cancel"}
      At(status) == [status |-> status, filled |-> s.filled]
  IN {t \in Snapshot :
        \/ /\ working /\ s.filled + 1 < Qty
           /\ t = [status |-> "partially_filled", filled |-> s.filled + 1]
        \/ /\ working \/ s.status = "stopped"
           /\ t = [status |-> "filled", filled |-> Qty]
        \/ working /\ t \in {At("canceled"), At("expired")}
        \/ s.status = "new" /\ t = At("rejected")
        \/ s.status \in {"new", "partially_filled"} /\ t = At("pending_cancel")
        \/ /\ "suspends" \in Misbehaviour
           /\ s.status \in {"new", "partially_filled"} /\ t = At("suspended")
        \/ "stops" \in Misbehaviour /\ s.status = "new" /\ t = At("stopped")}

Show(o, s) ==
  /\ broker' = [broker EXCEPT ![o] = s]
  /\ seen' = [seen EXCEPT ![o] = @ \cup {s}]

BrokerMove(o) ==
  /\ \E s \in BrokerMoves(broker[o]) : Show(o, s)
  /\ UNCHANGED <<sub, books, jobVars, faults>>

BrokerForgets(o) ==
  /\ "drops" \in Misbehaviour
  /\ broker[o].status \in BrokerStatuses
  /\ broker' = [broker EXCEPT ![o].status = "gone"]
  /\ UNCHANGED <<seen, sub, books, jobVars, faults>>

(* What the broker may answer when asked for order o now.                  *)
Answers(o) ==
  IF broker[o].status \notin BrokerStatuses THEN {}
  ELSE IF "stale_reads" \in Misbehaviour THEN seen[o] ELSE {broker[o]}

(* Whether a snapshot carries filled_avg_price.                            *)
PricedIn == IF "unpriced" \in Misbehaviour THEN BOOLEAN ELSE {TRUE}

-----------------------------------------------------------------------------
(* Submission, seen from the books: the broker accepts the order, then the *)
(* job commits what the answer says.  The retry protocol between the two   *)
(* is module OrderSubmission.                                              *)

BrokerAccepts(o) ==
  /\ sub[o] = "todo"
  /\ sub' = [sub EXCEPT ![o] = "sent"]
  /\ Show(o, [status |-> "new", filled |-> 0])
  /\ UNCHANGED <<books, jobVars, faults>>

(* The snapshots a submission may be answered with: the POST shows the     *)
(* order unfilled or already filled whole; the lookup shows any state.     *)
Acks(o) ==
  {s \in seen[o] : "late_ack" \in Misbehaviour \/ s.filled = 0 \/ s.status = "filled"}

RejectedRow == [status |-> "REJECTED", filled |-> 0, open |-> FALSE]

(* One transaction: the tracked row, and, only when the answer says the    *)
(* order is FILLED, the fill and its accounting.  The tracked row starts   *)
(* from the quantity the answer shows, whether or not a fill is booked.    *)
(* Accounting errors are caught and the transaction still commits.         *)
AckDeltaSkipped(s, priced) == 0  \* mutant: left for the next poll

AckDelta(s, priced) ==
  IF "FILLED" \in MapOrderStatus(s.status) THEN FillDelta(s.filled, 0, priced) ELSE 0

Errors(done) == IF done THEN 0 ELSE 1

BookAck(o, s, delta, booked, placed) ==
  /\ MapOrderStatus(s.status) # {}
  /\ delta = 0 => booked /\ placed
  /\ ~Portfolio => placed
  /\ faults' = faults + Errors(booked) + Errors(placed)
  /\ faults' =< MaxFaults
  /\ tracked' = [tracked EXCEPT ![o] =
                   [status |-> "SUBMITTED", filled |-> s.filled, open |-> TRUE]]
  /\ fills' = [fills EXCEPT ![o] = @ + delta]
  /\ ledger' = [ledger EXCEPT ![o] = IF booked THEN @ + delta ELSE @]
  /\ sleeve' = [sleeve EXCEPT ![o] = IF placed /\ Portfolio THEN @ + delta ELSE @]

RecordSubmitted(o) ==
  /\ sub[o] = "sent"
  /\ sub' = [sub EXCEPT ![o] = "done"]
  /\ \E s \in Acks(o), priced \in PricedIn, booked, placed \in BOOLEAN :
       BookAck(o, s, AckDelta(s, priced), booked, placed)
  /\ UNCHANGED <<broker, seen, jobVars>>

(* The broker refused the order, or a limit stopped it before it was sent. *)
RecordRefused(o) ==
  /\ sub[o] = "todo"
  /\ sub' = [sub EXCEPT ![o] = "done"]
  /\ tracked' = [tracked EXCEPT ![o] = RejectedRow]
  /\ UNCHANGED <<broker, seen, fills, ledger, sleeve, jobVars, faults>>

(* The broker accepted the order and the job recorded it REJECTED: every   *)
(* answer was lost, or the mapper cannot read the one it got.              *)
RecordRejectedLive(o) ==
  /\ sub[o] = "sent"
  /\ \/ "lost_ack" \in Misbehaviour
     \/ \E s \in Acks(o) : MapOrderStatus(s.status) = {}
  /\ sub' = [sub EXCEPT ![o] = "done"]
  /\ tracked' = [tracked EXCEPT ![o] = RejectedRow]
  /\ UNCHANGED <<broker, seen, fills, ledger, sleeve, jobVars, faults>>

-----------------------------------------------------------------------------
(* The reconciliation job.                                                 *)

(* The job's locals are gone once it returns, raises or dies.              *)
Leave(r) ==
  /\ pc' = [pc EXCEPT ![r] = "idle"]
  /\ todo' = [todo EXCEPT ![r] = {}]
  /\ input' = [input EXCEPT ![r] = [o \in Orders |-> NotTracked]]
  /\ cur' = [cur EXCEPT ![r] = NoOrder]
  /\ answer' = [answer EXCEPT ![r] = NoSnapshot]
  /\ result' = [result EXCEPT ![r] = NoResult]
  /\ loaded' = [loaded EXCEPT ![r] = NotTracked]

(* list_reconciliation_inputs, in a transaction of its own.                *)
StartJob(r) ==
  LET listed == {o \in Orders : tracked[o].status \in Reconcilable}
  IN /\ pc[r] = "idle"
     /\ listed # {}
     /\ pc' = [pc EXCEPT ![r] = "pick"]
     /\ todo' = [todo EXCEPT ![r] = listed]
     /\ input' = [input EXCEPT ![r] =
                    [o \in Orders |-> IF o \in listed THEN tracked[o] ELSE NotTracked]]
     /\ UNCHANGED <<brokerVars, books, cur, answer, result, loaded, faults>>

(* The next order of the list; the query has no ORDER BY.                  *)
Pick(r, o) ==
  /\ pc[r] = "pick"
  /\ o \in todo[r]
  /\ pc' = [pc EXCEPT ![r] = "read"]
  /\ cur' = [cur EXCEPT ![r] = o]
  /\ UNCHANGED <<brokerVars, books, todo, input, answer, result, loaded, faults>>

FinishJob(r) ==
  /\ pc[r] = "pick"
  /\ todo[r] = {}
  /\ Leave(r)
  /\ UNCHANGED <<brokerVars, books, faults>>

(* reconcile_order with answer s: fill and next status computed from the   *)
(* row as it was listed.                                                   *)
ReadSnapshot(r, s) ==
  LET row == input[r][cur[r]]
  IN /\ pc[r] = "read"
     /\ \E priced \in PricedIn, mapped \in MapOrderStatus(s.status) :
          \E next \in NextStatus(row.status, mapped) :
            result' = [result EXCEPT ![r] =
                         [next |-> next, fill |-> FillDelta(s.filled, row.filled, priced)]]
     /\ answer' = [answer EXCEPT ![r] = s]
     /\ pc' = [pc EXCEPT ![r] = "load"]
     /\ UNCHANGED <<brokerVars, books, todo, input, cur, loaded, faults>>

ReadOrder(r) == pc[r] = "read" /\ \E s \in Answers(cur[r]) : ReadSnapshot(r, s)
ReadFresh(r, o) == cur[r] = o /\ broker[o] \in Answers(o) /\ ReadSnapshot(r, broker[o])

(* A 404 for an expirable order expires it; there is no broker order and   *)
(* no fill in the result.                                                  *)
ReadGone(r) ==
  /\ pc[r] = "read"
  /\ broker[cur[r]].status = "gone"
  /\ input[r][cur[r]].status \in Expirable
  /\ \E next \in ApplyEvent(input[r][cur[r]].status, "EXPIRE") :
       result' = [result EXCEPT ![r] = [next |-> next, fill |-> 0]]
  /\ answer' = [answer EXCEPT ![r] = NoSnapshot]
  /\ pc' = [pc EXCEPT ![r] = "load"]
  /\ UNCHANGED <<brokerVars, books, todo, input, cur, loaded, faults>>

(* An unknown broker status or an invalid transition raises: the job fails *)
(* and the rest of its list is not looked at.                              *)
ReadRaises(r) ==
  /\ pc[r] = "read"
  /\ \E s \in Answers(cur[r]) :
       \A mapped \in MapOrderStatus(s.status) :
         NextStatus(input[r][cur[r]].status, mapped) = {}
  /\ Leave(r)
  /\ UNCHANGED <<brokerVars, books, faults>>

(* The transaction that books the result: it re-reads the row ...          *)
LoadRow(r) ==
  /\ pc[r] = "load"
  /\ loaded' = [loaded EXCEPT ![r] = tracked[cur[r]]]
  /\ pc' = [pc EXCEPT ![r] = "commit"]
  /\ UNCHANGED <<brokerVars, books, todo, input, cur, answer, result, faults>>

(* ... and commits the fill with apply_reconciliation_result, which sets    *)
(* the status and raises the quantity to the broker's (an expired order    *)
(* has no broker order, and keeps its own).                                *)
GuardDropped(r) == answer[r].filled  \* mutant: the broker's quantity, always
GuardAdds(r) == loaded[r].filled + answer[r].filled  \* mutant: an increment

MonotonicQty(r) == Greater(answer[r].filled, loaded[r].filled)

(* The session writes only the columns that differ from the row it loaded. *)
Written(new, old, now) == IF new = old THEN now ELSE new

AppliedRow(r) ==
  LET now == tracked[cur[r]]
      next == result[r].next
  IN [status |-> Written(next, loaded[r].status, now.status),
      filled |-> Written(MonotonicQty(r), loaded[r].filled, now.filled),
      open   |-> Written(IsOpen(next), loaded[r].open, now.open)]

CommitResult(r) ==
  /\ pc[r] = "commit"
  /\ tracked' = [tracked EXCEPT ![cur[r]] = AppliedRow(r)]
  /\ fills' = [fills EXCEPT ![cur[r]] = @ + result[r].fill]
  /\ todo' = [todo EXCEPT ![r] = @ \ {cur[r]}]
  /\ pc' = [pc EXCEPT ![r] = IF result[r].fill > 0 THEN "account" ELSE "pick"]
  /\ UNCHANGED <<brokerVars, ledger, sleeve, input, cur, answer, result, loaded, faults>>

(* A second transaction: the position and cash ledgers.  An exception is   *)
(* logged and the job goes on.                                             *)
SleeveForgotten == "pick"  \* mutant

AfterAccounting == IF Portfolio THEN "sleeve" ELSE "pick"

AccountCumulative(r) ==  \* mutant: posts the answer's quantity, not the fill's
  /\ pc[r] = "account"
  /\ ledger' = [ledger EXCEPT ![cur[r]] = @ + answer[r].filled]
  /\ pc' = [pc EXCEPT ![r] = AfterAccounting]
  /\ UNCHANGED <<brokerVars, tracked, fills, sleeve, todo, input, cur, answer, result,
                 loaded, faults>>

AccountFill(r) ==
  /\ pc[r] = "account"
  /\ ledger' = [ledger EXCEPT ![cur[r]] = @ + result[r].fill]
  /\ pc' = [pc EXCEPT ![r] = AfterAccounting]
  /\ UNCHANGED <<brokerVars, tracked, fills, sleeve, todo, input, cur, answer, result,
                 loaded, faults>>

AccountingFails(r) ==
  /\ pc[r] = "account"
  /\ faults < MaxFaults
  /\ faults' = faults + 1
  /\ pc' = [pc EXCEPT ![r] = AfterAccounting]
  /\ UNCHANGED <<brokerVars, books, todo, input, cur, answer, result, loaded>>

(* A third one, in portfolio mode: the strategy's sleeve.                  *)
ApplyToSleeve(r) ==
  /\ pc[r] = "sleeve"
  /\ sleeve' = [sleeve EXCEPT ![cur[r]] = @ + result[r].fill]
  /\ pc' = [pc EXCEPT ![r] = "pick"]
  /\ UNCHANGED <<brokerVars, tracked, fills, ledger, todo, input, cur, answer, result,
                 loaded, faults>>

SleeveFails(r) ==
  /\ pc[r] = "sleeve"
  /\ faults < MaxFaults
  /\ faults' = faults + 1
  /\ pc' = [pc EXCEPT ![r] = "pick"]
  /\ UNCHANGED <<brokerVars, books, todo, input, cur, answer, result, loaded>>

(* The process dies, or a broker or database error fails the job; what is  *)
(* committed stays.                                                        *)
JobDies(r) ==
  /\ pc[r] # "idle"
  /\ faults < MaxFaults
  /\ faults' = faults + 1
  /\ Leave(r)
  /\ UNCHANGED <<brokerVars, books>>

-----------------------------------------------------------------------------
OrderStep(o) ==
  \/ BrokerMove(o) \/ BrokerForgets(o) \/ BrokerAccepts(o)
  \/ RecordSubmitted(o) \/ RecordRefused(o) \/ RecordRejectedLive(o)

JobStep(r) ==
  \/ StartJob(r) \/ (\E o \in Orders : Pick(r, o)) \/ FinishJob(r)
  \/ ReadOrder(r) \/ ReadGone(r) \/ ReadRaises(r)
  \/ LoadRow(r) \/ CommitResult(r)
  \/ AccountFill(r) \/ ApplyToSleeve(r)

JobFault(r) == AccountingFails(r) \/ SleeveFails(r) \/ JobDies(r)

Next ==
  \/ \E o \in Orders : OrderStep(o)
  \/ \E r \in Reconcilers : JobStep(r) \/ JobFault(r)

Spec == Init /\ [][Next]_vars

(* The job is scheduled again after every run and its steps complete; the  *)
(* broker does not answer with a stale snapshot for ever.                  *)
Fairness ==
  \A r \in Reconcilers :
    /\ WF_vars(JobStep(r))
    /\ \A o \in Orders : SF_vars(ReadFresh(r, o))

FairSpec == Spec /\ Fairness
-----------------------------------------------------------------------------
(* Properties.                                                             *)

OneReconciler == \A r, q \in Reconcilers : r = q

(* A share is never booked twice and never before the broker executed it:  *)
(* the fills table stays within the tracked quantity, which stays within   *)
(* what the broker has filled, through stale answers, restarts and         *)
(* failures (extract_incremental_fill, the monotonic guard).               *)
NeverOverBooked ==
  \A o \in Orders : /\ fills[o] =< tracked[o].filled
                    /\ tracked[o].filled =< broker[o].filled

(* Each of the two ledgers applies a share at most once and only after its *)
(* fill row is committed.                                                  *)
LedgersFollowFills ==
  \A o \in Orders : ledger[o] =< fills[o] /\ sleeve[o] =< fills[o]

(* With nothing but crashes and stale answers going wrong, an order that   *)
(* reached a terminal status has every executed share in the fills table:  *)
(* a terminal order is never polled again, so a share missing then is      *)
(* missing for good.                                                       *)
ClosedIsBooked ==
  \A o \in Orders :
    tracked[o].status \in Terminal => fills[o] = broker[o].filled

(* What is tracked is what is booked, at every moment.                     *)
TrackedIsBooked == \A o \in Orders : fills[o] = tracked[o].filled

(* No share is missed: neither while an order is open nor when it closes.  *)
BookingsComplete == TrackedIsBooked /\ ClosedIsBooked

(* When no job is between two transactions and nothing failed, the ledgers *)
(* hold exactly the booked fills.                                          *)
LedgersComplete ==
  (faults = 0 /\ \A r \in Reconcilers : pc[r] \notin {"account", "sleeve"}) =>
    \A o \in Orders : ledger[o] = fills[o] /\ (Portfolio => sleeve[o] = fills[o])

(* Every change of a tracked status is a transition of the state machine   *)
(* from the status that is in the database, not from the one the job       *)
(* listed; a terminal status never changes.                                *)
MovesLegally ==
  \A o \in Orders :
    (tracked[o].status \notin {"UNTRACKED", tracked'[o].status}) =>
      Legal(tracked[o].status, tracked'[o].status)

LegalTransitions == [][MovesLegally]_vars

(* The tracked quantity and the three books only grow.                     *)
BooksOnlyGrow ==
  [][\A o \in Orders : /\ tracked[o].filled =< tracked'[o].filled
                       /\ fills[o] =< fills'[o]
                       /\ ledger[o] =< ledger'[o]
                       /\ sleeve[o] =< sleeve'[o]]_vars

(* An order that is final at the broker and recorded as submitted is       *)
(* closed by some later poll, and its fills are booked.                    *)
EventuallyClosed ==
  \A o \in Orders :
    (broker[o].status \in BrokerFinal /\ sub[o] = "done") ~> (tracked[o].status \in Terminal)

EventuallyBooked ==
  \A o \in Orders :
    (broker[o].status \in BrokerFinal /\ sub[o] = "done") ~> (fills[o] = broker[o].filled)

-----------------------------------------------------------------------------
(* The inductive invariant behind NeverOverBooked, LedgersFollowFills and  *)
(* LegalTransitions when one process reconciles at a time.                 *)

(* The order in hand is one of the list's, and the fill in hand one of an  *)
(* order's.                                                                *)
InHand ==
  \A r \in Reconcilers :
    /\ pc[r] \in {"read", "load", "commit"} => cur[r] \in todo[r]
    /\ pc[r] \in {"account", "sleeve"} => cur[r] \in Orders

(* The broker never showed more than it has filled, now or before.         *)
SnapshotsHonest == \A o \in Orders : \A s \in seen[o] : s.filled =< broker[o].filled

(* The broker knows nothing of an order that was not sent, and nothing is  *)
(* booked for one whose submission is not recorded.                        *)
UnsentIsEmpty ==
  \A o \in Orders :
    /\ sub[o] = "todo" => broker[o] = NoSnapshot /\ seen[o] = {}
    /\ sub[o] # "done" => tracked[o] = NotTracked /\ fills[o] = 0

(* The rows a job listed and has not handled yet have not changed since.   *)
ListIsCurrent ==
  \A r \in Reconcilers : \A o \in todo[r] : sub[o] = "done" /\ input[r][o] = tracked[o]

(* The result in hand follows from a snapshot the broker did show and the  *)
(* row that is still in the database.                                      *)
ResultFollows ==
  \A r \in Reconcilers :
    pc[r] \in {"load", "commit"} =>
      LET row == input[r][cur[r]]
      IN /\ answer[r].filled =< broker[cur[r]].filled
         /\ result[r].fill = 0 \/ row.filled + result[r].fill = answer[r].filled
         /\ result[r].next = row.status \/ Legal(row.status, result[r].next)

LoadedIsCurrent ==
  \A r \in Reconcilers : pc[r] = "commit" => loaded[r] = tracked[cur[r]]

(* The fill on its way to a ledger is in the fills table and not in that   *)
(* ledger yet.                                                             *)
OnItsWay ==
  \A r \in Reconcilers :
    /\ pc[r] = "account" => ledger[cur[r]] + result[r].fill =< fills[cur[r]]
    /\ pc[r] \in {"account", "sleeve"} => sleeve[cur[r]] + result[r].fill =< fills[cur[r]]

(* What a lone reconciler maintains: the books trail the broker, and all   *)
(* it holds in hand still follows from the books as they are.              *)
BookingInv ==
  /\ SnapshotsHonest /\ UnsentIsEmpty
  /\ NeverOverBooked /\ LedgersFollowFills
  /\ InHand /\ ListIsCurrent /\ ResultFollows /\ LoadedIsCurrent /\ OnItsWay

-----------------------------------------------------------------------------
(* The abstract specification this one implements.                         *)

LifeOf(s) ==
  CASE s.status = "none"        -> "unsent"
    [] s.status \in BrokerFinal -> "final"
    [] OTHER                    -> "working"

Promise == INSTANCE OrderPromise WITH
  executed <- [o \in Orders |-> broker[o].filled],
  life     <- [o \in Orders |-> LifeOf(broker[o])],
  booked   <- fills,
  posted   <- ledger,
  closed   <- [o \in Orders |-> tracked[o].status \in Terminal]

(* Order handling keeps the promise of OrderPromise: at most one booking   *)
(* and one posting of a share, and no order closed with shares unbooked.   *)
KeepsPromise == Promise!Spec

=============================================================================
