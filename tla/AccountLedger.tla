---------------------------- MODULE AccountLedger ----------------------------
(* The account's books beside the broker's account: the cash and position      *)
(* snapshots that every booked fill extends (post_fill_accounting_service),    *)
(* which row of a tick is the newest (cash_ and position_snapshot_repository), *)
(* and the operator's resync of both from the broker, net of the fills no tick *)
(* has applied yet (broker_runtime_sync_service).                              *)
(*                                                                             *)
(* One symbol, one poster at a time.  Money is counted in 1/Unit of a currency *)
(* unit so that an average price is an integer.  Time is not counted: rows of  *)
(* an earlier timestamp are never the newest again, so a book keeps the rows   *)
(* of its newest timestamp only, and "posted" tells whether that is the tick's.*)
EXTENDS Integers, FiniteSets, FiniteSetsExt, Sums

CONSTANTS Orders,       \* orders accepted by the broker
          Size,         \* Size[o]: shares ordered
          Buys,         \* the orders that buy; the others sell
          RunOf,        \* RunOf[o]: run id of the cycle that submitted o
          PricesOf,     \* PricesOf[o]: prices an execution of o may have
          Unit,         \* a multiple of every Size[o]
          StartCash, StartShares,  \* both books and the account at the start
          MarketOpen,   \* TRUE: executions may happen during a resync
          MaxFaults,    \* bound: crashes of the process that posts
          MaxSyncs      \* bound: resyncs by the operator

ASSUME OrdersAssumption == IsFiniteSet(Orders) /\ Buys \subseteq Orders
ASSUME SizesAssumption == Size \in [Orders -> Nat]
ASSUME PricesAssumption == PricesOf \in [Orders -> SUBSET Nat] /\ Unit \in Nat \ {0}
ASSUME StartAssumption == StartCash \in Int /\ StartShares \in Nat

NoFill == [shares |-> 0, cash |-> 0, run |-> "none"]
Zero == [shares |-> 0, cash |-> 0]
Sign(o) == IF o \in Buys THEN 1 ELSE -1

VARIABLES
  executed,  \* executed[o]: [qty, paid], the broker's filled quantity and its total price
  account,   \* [shares, cash]: the broker's account
  booked,    \* booked[o]: previous_filled_qty of the tracked order
  toPost,    \* the fill booked by the last visit, its accounting not yet done
  cashRows, positionRows,   \* rows of the newest timestamp: [run, rec, value]
  posted,    \* TRUE: the newest timestamp of both books is the running tick's
  tick,      \* [pass, todo]: pass 0 = no tick; orders the pass has still to visit
  sync,      \* [pc, seen]: the operator's resync and what it has read
  missed,    \* history: [shares, cash] booked but never posted since the book's last resync
  snapshot,  \* the stored account's cash
  fresh,     \* which of the account in the resync's hand, the stored account and
             \* the newest cash row show its present buying power and equity
  verdict,   \* the last answer of validate-broker-consistency
  faults, syncs

vars == <<executed, account, booked, toPost, cashRows, positionRows, posted,
          tick, sync, missed, snapshot, fresh, verdict, faults, syncs>>
books == <<cashRows, positionRows>>
brokerSide == <<executed, account>>
checks == <<snapshot, fresh, verdict>>

Init ==
  /\ executed = [o \in Orders |-> [qty |-> 0, paid |-> 0]]
  /\ account = [shares |-> StartShares, cash |-> StartCash * Unit]
  /\ booked = [o \in Orders |-> 0]
  /\ toPost = NoFill
  /\ cashRows = {[run |-> "seed", rec |-> 1, value |-> StartCash * Unit]}
  /\ positionRows = {[run |-> "seed", rec |-> 1, value |-> StartShares]}
  /\ posted = FALSE
  /\ tick = [pass |-> 0, todo |-> {}]
  /\ sync = [pc |-> "idle", seen |-> 0]
  /\ missed = Zero
  /\ snapshot = StartCash * Unit /\ fresh = {"snapshot", "row"}
  /\ verdict = "none"
  /\ faults = 0 /\ syncs = 0

-----------------------------------------------------------------------------
(* get_latest: among the rows of the newest timestamp, the one recorded last;   *)
(* a row whose recorded_at is NULL (0 here) falls back to its timestamp, which  *)
(* is before every recorded_at of the same tick.                                *)
Newest(rows) == CHOOSE r \in rows : \A other \in rows : r.rec >= other.rec
LedgerCash == Newest(cashRows).value
LedgerShares == Newest(positionRows).value

NextRec(rows) == 1 + Max({r.rec : r \in rows})
RowOf(rows, run) == {r \in rows : posted /\ r.run = run}

OtherRows(rows, run) == {r \in rows : posted /\ r.run # run}

(* cash_snapshots.upsert: the id is (run, now, LEDGER), so a second fill of the *)
(* run in the tick overwrites the run's row with every column of a transient    *)
(* row, its unset recorded_at included.                                         *)
WriteCash(rows, run, value) ==
  OtherRows(rows, run)
    \cup {[run |-> run, value |-> value,
           rec |-> IF RowOf(rows, run) # {} THEN 0 ELSE NextRec(rows)]}

(* position_snapshots.get_or_create_header: the same id, but an existing header *)
(* keeps the recorded_at of its first write.                                    *)
WritePositions(rows, run, value) ==
  OtherRows(rows, run)
    \cup {[run |-> run, value |-> value,
           rec |-> IF RowOf(rows, run) # {} THEN Newest(RowOf(rows, run)).rec
                                            ELSE NextRec(rows)]}

(* extract_incremental_fill: what the broker reports beyond the booked quantity,*)
(* at the order's cumulative average price.                                     *)
Average(o) == executed[o].paid \div executed[o].qty

FillOf(o) ==
  LET qty == executed[o].qty - booked[o]
  IN [run |-> RunOf[o], shares |-> Sign(o) * qty,
      cash |-> IF qty = 0 THEN 0 ELSE -Sign(o) * qty * Average(o)]

\* mutant: a partly filled order is not listed any more
Untouched == {o \in Orders : booked[o] = 0}

(* list_reconcilable_orders, and pending_fills over it. *)
Open == {o \in Orders : booked[o] < Size[o]}
ShareFills == [o \in Orders |-> FillOf(o).shares]
CashFills == [o \in Orders |-> FillOf(o).cash]
PendingShares == SumOver(ShareFills, Open)
PendingCash == SumOver(CashFills, Open)

-----------------------------------------------------------------------------
(* The broker executes one share. *)
Execute(o) ==
  /\ executed[o].qty < Size[o]
  /\ MarketOpen \/ sync.pc = "idle"
  /\ o \in Buys \/ account.shares > 0
  /\ \E price \in PricesOf[o] :
       /\ executed' = [executed EXCEPT
                         ![o] = [qty |-> @.qty + 1, paid |-> @.paid + Unit * price]]
       /\ account' = [shares |-> account.shares + Sign(o),
                      cash |-> account.cash - Sign(o) * Unit * price]
  /\ fresh' = {}
  /\ UNCHANGED <<booked, toPost, books, posted, tick, sync, missed, snapshot, verdict,
                 faults, syncs>>

(* A price moves or an order is sent: the account's cash stays, its equity or   *)
(* buying power does not.                                                       *)
FiguresMove ==
  /\ fresh # {}
  /\ fresh' = {}
  /\ UNCHANGED <<brokerSide, booked, toPost, books, posted, tick, sync, missed, snapshot,
                 verdict, faults, syncs>>

(* A tick has a new timestamp and reconciles twice: before it evaluates, and    *)
(* after it has submitted (a tick with no open order changes nothing here).     *)
StartTick ==
  /\ tick.pass = 0 /\ sync.pc = "idle"
  /\ Open # {}
  /\ tick' = [pass |-> 1, todo |-> Open]
  /\ posted' = FALSE
  /\ UNCHANGED <<brokerSide, booked, toPost, books, sync, missed, checks, faults, syncs>>

EndPass ==
  /\ tick.pass > 0 /\ tick.todo = {} /\ toPost = NoFill
  /\ tick' = IF tick.pass = 1 THEN [pass |-> 2, todo |-> Open]
                              ELSE [pass |-> 0, todo |-> {}]
  /\ UNCHANGED <<brokerSide, booked, toPost, books, posted, sync, missed, checks,
                 faults, syncs>>

(* First transaction of a visit: the tracked order takes the broker's quantity. *)
Book(o) ==
  /\ o \in tick.todo /\ toPost = NoFill
  /\ tick' = [tick EXCEPT !.todo = @ \ {o}]
  /\ booked' = [booked EXCEPT ![o] = executed[o].qty]
  /\ toPost' = IF executed[o].qty > booked[o] THEN FillOf(o) ELSE NoFill
  /\ UNCHANGED <<brokerSide, books, posted, sync, missed, checks, faults, syncs>>

(* position_ledger_service refuses a sale of more than the ledger holds. *)
Refused == LedgerShares + toPost.shares < 0

(* Second transaction: both books extended from their newest rows; buying power *)
(* and equity of the new cash row are the ledger's own, not the broker's.       *)
Post ==
  /\ toPost # NoFill /\ ~Refused
  /\ cashRows' = WriteCash(cashRows, toPost.run, LedgerCash + toPost.cash)
  /\ positionRows' = WritePositions(positionRows, toPost.run, LedgerShares + toPost.shares)
  /\ posted' = TRUE
  /\ toPost' = NoFill
  /\ fresh' = fresh \ {"row"}
  /\ UNCHANGED <<brokerSide, booked, tick, sync, missed, snapshot, verdict, faults, syncs>>

Miss == missed' = [shares |-> missed.shares + toPost.shares, cash |-> missed.cash + toPost.cash]

(* The accounting raises: logged, the transaction rolled back, the job goes on. *)
PostRaises ==
  /\ toPost # NoFill /\ Refused
  /\ Miss
  /\ toPost' = NoFill
  /\ UNCHANGED <<brokerSide, booked, books, posted, tick, sync, checks, faults, syncs>>

(* The process dies: the booked fill is behind previous_filled_qty already, so  *)
(* no later visit sees it again.                                                *)
Crash ==
  /\ tick.pass > 0 /\ faults < MaxFaults
  /\ faults' = faults + 1
  /\ Miss
  /\ toPost' = NoFill
  /\ tick' = [pass |-> 0, todo |-> {}]
  /\ UNCHANGED <<brokerSide, booked, books, posted, sync, checks, syncs>>

-----------------------------------------------------------------------------
(* sync-broker-state: the account first, then the open orders. *)
SyncAccount ==
  /\ sync.pc = "idle" /\ tick.pass = 0 /\ syncs < MaxSyncs
  /\ sync' = [pc |-> "cash", seen |-> account.cash]
  /\ fresh' = fresh \cup {"hand"}
  /\ syncs' = syncs + 1
  /\ UNCHANGED <<brokerSide, booked, toPost, books, posted, tick, missed, snapshot,
                 verdict, faults>>

(* What the hand held is stored in the places, which are as fresh as it was.    *)
Store(places) ==
  /\ snapshot' = sync.seen
  /\ fresh' = (fresh \ ({"hand"} \cup places)) \cup (IF "hand" \in fresh THEN places ELSE {})

(* With --run-id, the stored account and the ledger's cash row. *)
WriteSyncedCash ==
  /\ sync.pc = "cash"
  /\ Store({"snapshot", "row"})
  /\ cashRows' = {[run |-> "sync", rec |-> 1, value |-> sync.seen - PendingCash]}
  /\ missed' = [missed EXCEPT !.cash = 0]
  /\ sync' = [pc |-> "positions", seen |-> 0]
  /\ UNCHANGED <<brokerSide, booked, toPost, positionRows, posted, tick, verdict,
                 faults, syncs>>

(* Without it, the stored account alone. *)
WriteSnapshotOnly ==
  /\ sync.pc = "cash"
  /\ Store({"snapshot"})
  /\ sync' = [pc |-> "idle", seen |-> 0]
  /\ UNCHANGED <<brokerSide, booked, toPost, books, posted, tick, missed, verdict,
                 faults, syncs>>

\* mutant: the resync writes the broker's positions as they are
SyncGross ==
  /\ sync.pc = "positions"
  /\ sync' = [pc |-> "shares", seen |-> 0]
  /\ UNCHANGED <<brokerSide, booked, toPost, books, posted, tick, missed, checks,
                 faults, syncs>>

(* sync-position-snapshot: the pending fills first, then the positions. *)
SyncPending ==
  /\ sync.pc = "positions"
  /\ sync' = [pc |-> "shares", seen |-> PendingShares]
  /\ UNCHANGED <<brokerSide, booked, toPost, books, posted, tick, missed, checks,
                 faults, syncs>>

WriteSyncedPositions ==
  /\ sync.pc = "shares"
  /\ positionRows' = {[run |-> "sync", rec |-> 1, value |-> account.shares - sync.seen]}
  /\ missed' = [missed EXCEPT !.shares = 0]
  /\ sync' = [pc |-> "validate", seen |-> 0]
  /\ UNCHANGED <<brokerSide, booked, toPost, cashRows, posted, tick, checks, faults, syncs>>

(* The operator stops after sync-broker-state; positions keep the old book. *)
Abandon ==
  /\ sync.pc = "positions"
  /\ sync' = [pc |-> "idle", seen |-> 0]
  /\ UNCHANGED <<brokerSide, booked, toPost, books, posted, tick, missed, checks,
                 faults, syncs>>

\* mutant: the validator forgets the fills no tick has applied
CashEqual == LedgerCash = account.cash

(* validate-broker-consistency compares the ledger's cash net of the pending    *)
(* fills, the stored account's cash, and the buying power and equity of both,   *)
(* which agree where nothing moved since they were stored and may or may not    *)
(* otherwise.  It may be run at any time no tick is in flight, and ends a       *)
(* resync.  There is one account, and both rows exist.                          *)
CashAgrees == LedgerCash = account.cash - PendingCash
SnapshotAgrees == snapshot = account.cash
AllFresh == {"snapshot", "row"} \subseteq fresh
Validate ==
  /\ tick.pass = 0 /\ sync.pc \in {"idle", "validate"}
  /\ \E figuresAgree \in IF AllFresh THEN {TRUE} ELSE BOOLEAN :
       verdict' = IF CashAgrees /\ SnapshotAgrees /\ figuresAgree THEN "ok" ELSE "drifted"
  /\ sync' = [pc |-> "idle", seen |-> 0]
  /\ UNCHANGED <<brokerSide, booked, toPost, books, posted, tick, missed, snapshot, fresh,
                 faults, syncs>>

Next ==
  \/ \E o \in Orders : Execute(o) \/ Book(o)
  \/ StartTick \/ EndPass \/ Post \/ PostRaises \/ Crash \/ FiguresMove
  \/ SyncAccount \/ WriteSyncedCash \/ WriteSnapshotOnly
  \/ SyncPending \/ WriteSyncedPositions \/ Abandon \/ Validate

Spec == Init /\ [][Next]_vars

(* The scheduler runs tick after tick and a running tick goes on; a resync once *)
(* begun is finished.  Executions, crashes and operators owe nothing.           *)
Resyncing == WriteSyncedCash \/ SyncPending \/ WriteSyncedPositions
             \/ (sync.pc = "validate" /\ Validate)
Ticking == EndPass \/ Post \/ PostRaises \/ \E o \in Orders : Book(o)
FairSpec == Spec /\ WF_vars(Ticking) /\ WF_vars(StartTick) /\ WF_vars(Resyncing)

-----------------------------------------------------------------------------
(* Type invariant. *)
TypeOK ==
  /\ \A o \in Orders : executed[o].qty \in 0..Size[o] /\ booked[o] \in 0..executed[o].qty
  /\ account.shares \in Nat /\ account.cash \in Int
  /\ toPost.shares \in Int /\ toPost.cash \in Int
  /\ \A rows \in {cashRows, positionRows} :
       /\ rows # {}
       /\ \A r, s \in rows : r.run = s.run => r = s
  /\ tick.pass \in 0..2 /\ tick.todo \subseteq Orders
  /\ sync.pc \in {"idle", "cash", "positions", "shares", "validate"}
  /\ missed \in [shares : Int, cash : Int]
  /\ snapshot \in Int /\ fresh \subseteq {"hand", "snapshot", "row"}
  /\ verdict \in {"none", "ok", "drifted"}

(* The newest position row, the fills the broker has executed and no tick has   *)
(* applied, the fill in hand and those lost by a crash or refused make the      *)
(* broker's position: no fill is counted twice or dropped on the way, across    *)
(* ticks, crashes and resyncs (Finding 25 double-counted one).                  *)
SharesBalance ==
  LedgerShares + PendingShares + toPost.shares + missed.shares = account.shares

(* The same for the cash book. *)
CashBalance ==
  LedgerCash + PendingCash + toPost.cash + missed.cash = account.cash

(* Both books balance, and every variable keeps to its range: a book has one    *)
(* row a run, and no order is booked beyond what was executed.                  *)
BooksBalance == TypeOK /\ SharesBalance /\ CashBalance

(* A ledger that has posted every fill and lost none holds the cash the broker  *)
(* holds: what it posted is what was paid.                                      *)
CashIsPaid ==
  (Open = {} /\ toPost = NoFill /\ missed = Zero) => LedgerCash = account.cash

(* The validator never overlooks lost cash, and cries no drift over fills that  *)
(* wait for their tick: a resync followed by this check reads ok, as its doc    *)
(* says, as long as nothing moved at the broker and no fill was posted since.   *)
(* (Once the stored account or the cash row is older than that, it may answer   *)
(* drifted with no cash lost.)                                                  *)
VerdictIsTrue ==
  [][Validate => /\ verdict' = "ok" => missed.cash = 0
                 /\ missed.cash = 0 /\ AllFresh => verdict' = "ok"]_vars

(* The ledger lands on the broker's book: once nothing more is lost and what    *)
(* was lost is resynced, both books come to equal the account, and stay.        *)
LandsOnBroker ==
  <>[](missed = Zero) =>
    <>[](LedgerShares = account.shares /\ LedgerCash = account.cash)
=============================================================================
