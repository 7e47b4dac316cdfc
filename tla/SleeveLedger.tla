---------------------------- MODULE SleeveLedger ----------------------------
(* The strategies' sleeves beside the account, for one symbol: how a tick of    *)
(* portfolio mode books fills to their owners, adopts account shares that no    *)
(* sleeve owns, nets the strategies' intents by internal crosses and sends the  *)
(* rest, and how the end-of-day resync makes the sleeves sum to the account     *)
(* again after a fill was lost (portfolio_evaluation, sleeve_crossing_service,  *)
(* strategy_sleeve_ledger_service).                                             *)
(*                                                                              *)
(* One process at a time owns the sleeves: ticks and the chain run in one       *)
(* worker.  The broker fills and ends orders at any moment, from its acceptance *)
(* on; the order's row commits only after the acceptance, and an order whose    *)
(* row never commits goes astray.                                               *)
EXTENDS Integers, FiniteSets, Sums

CONSTANTS NStrategies,   \* strategies 1..NStrategies, in name order
          StartHeld,     \* StartHeld[s]: shares in s's sleeve at the start
          MaxBuy,        \* bound: shares a strategy buys in a tick
          MaxHeld,       \* bound: the account does not buy beyond it
          MaxTrades,     \* bound: ticks that send orders
          MaxFaults      \* bound: crashes, orders whose answer is lost and trades
                         \* outside the platform

Unattributed == 0        \* the orphan sleeve; it sorts before every strategy
Strategies == 1..NStrategies
Sleeves == {Unattributed} \cup Strategies

ASSUME SizesAssumption ==
  /\ NStrategies \in Nat /\ MaxBuy \in Nat /\ MaxHeld \in Nat
  /\ MaxTrades \in Nat /\ MaxFaults \in Nat
  /\ StartHeld \in [Sleeves -> Nat]

VARIABLES
  account,   \* shares the broker's account holds
  sleeve,    \* sleeve[s]: shares in the sleeve's book
  order,     \* order[s]: the owner's order: [side, left, unbooked];
             \* left = 0: ended at the broker, unbooked: filled, not reconciled
  fresh,     \* {s}: s's order is accepted, and its row not committed yet
  stray,     \* [buy, sell]: shares of live orders that got no row
  mislaid,   \* history: shares of the sales that were left without a row
  phase,     \* what the worker is doing
  todo,      \* orders the running reconciliation has still to visit
  hand,      \* [owner, shares]: the booked fill not yet in its sleeve
  plan,      \* plan[s]: what is left to send of s's intent, a sale negative
  seen,      \* the account's shares as last fetched
  lost,      \* history: shares the account gained for no sleeve since they last agreed
  trades, faults

vars == <<account, sleeve, order, fresh, stray, mislaid, phase, todo, hand, plan, seen,
          lost, trades, faults>>
astray == <<stray, mislaid>>
broker == <<account, order, fresh, astray>>

NoOrder == [side |-> "none", left |-> 0, unbooked |-> 0]
NoFill == [owner |-> Unattributed, shares |-> 0]
NoStray == [buy |-> 0, sell |-> 0]
Nothing == [s \in Sleeves |-> 0]

Sum(f) == SumOver(f, Sleeves)
Least(a, b) == IF a <= b THEN a ELSE b
AtLeastZero(a) == IF a < 0 THEN 0 ELSE a
Signed(side, n) == IF side = "buy" THEN n ELSE -n

Init ==
  /\ sleeve = StartHeld
  /\ account = Sum(StartHeld)
  /\ order = [s \in Sleeves |-> NoOrder] /\ fresh = {}
  /\ stray = NoStray /\ mislaid = 0
  /\ phase = "idle" /\ todo = {}
  /\ hand = NoFill /\ plan = Nothing
  /\ seen = 0 /\ lost = 0
  /\ trades = 0 /\ faults = 0

(* list_reconcilable_orders. *)
OpenRows == {s \in Sleeves \ fresh : order[s].side # "none"}
Unbooked(s) == Signed(order[s].side, order[s].unbooked)

-----------------------------------------------------------------------------
(* The broker fills one share of an order, or ends it. *)
Fill(s) ==
  /\ order[s].left > 0
  /\ order' = [order EXCEPT ![s].left = @ - 1, ![s].unbooked = @ + 1]
  /\ account' = account + Signed(order[s].side, 1)
  /\ UNCHANGED <<sleeve, fresh, astray, phase, todo, hand, plan, seen, lost, trades, faults>>

OrderEnds(s) ==
  /\ order[s].left > 0
  /\ order' = [order EXCEPT ![s].left = 0]
  /\ UNCHANGED <<account, sleeve, fresh, astray, phase, todo, hand, plan, seen, lost, trades, faults>>

(* So with an order that got no row, whose fills nobody asks for. *)
StrayFills(side) ==
  /\ stray[side] > 0
  /\ stray' = [stray EXCEPT ![side] = @ - 1]
  /\ account' = account + Signed(side, 1)
  /\ lost' = lost + Signed(side, 1)
  /\ UNCHANGED <<sleeve, order, fresh, mislaid, phase, todo, hand, plan, seen, trades, faults>>

StraysEnd ==
  /\ stray # NoStray
  /\ stray' = NoStray
  /\ UNCHANGED <<account, sleeve, order, fresh, mislaid, phase, todo, hand, plan, seen, lost,
                 trades, faults>>

Resting == Sum([s \in Sleeves |-> IF order[s].side = "sell" THEN order[s].left ELSE 0])

(* Somebody trades on the broker's dashboard, between two ticks. *)
TradeOutside ==
  /\ phase = "idle" /\ faults < MaxFaults
  /\ faults' = faults + 1
  /\ \/ account > Resting + stray.sell /\ account' = account - 1 /\ lost' = lost - 1
     \/ account < MaxHeld /\ account' = account + 1 /\ lost' = lost + 1
  /\ UNCHANGED <<sleeve, order, fresh, astray, phase, todo, hand, plan, seen, trades>>

-----------------------------------------------------------------------------
(* A tick reconciles, evaluates, submits, and reconciles once more. *)
StartTick ==
  /\ phase = "idle"
  /\ phase' = "opening" /\ todo' = OpenRows
  /\ UNCHANGED <<broker, sleeve, hand, plan, seen, lost, trades, faults>>

(* First transaction of a visit: the fill is booked, and the row of an order    *)
(* that has ended closes.                                                       *)
Visit(s) ==
  /\ phase \in {"opening", "closing"} /\ s \in todo /\ hand = NoFill
  /\ todo' = todo \ {s}
  /\ hand' = [owner |-> s, shares |-> Unbooked(s)]
  /\ order' = [order EXCEPT ![s] = IF @.left = 0 THEN NoOrder ELSE [@ EXCEPT !.unbooked = 0]]
  /\ UNCHANGED <<account, sleeve, fresh, astray, phase, plan, seen, lost, trades, faults>>

\* mutant: the fill goes to the orphan sleeve
OwnerLost(fill) == Unattributed

Owner(fill) == fill.owner

(* Last transaction of a visit: apply_fill_to_sleeve.  It raises for a sale of  *)
(* more than the sleeve holds; SellsOwnShares says that there is none.          *)
ApplyToSleeve ==
  /\ hand # NoFill
  /\ sleeve[Owner(hand)] + hand.shares >= 0
  /\ sleeve' = [sleeve EXCEPT ![Owner(hand)] = @ + hand.shares]
  /\ hand' = NoFill
  /\ UNCHANGED <<broker, phase, todo, plan, seen, lost, trades, faults>>

Reconciled ==
  /\ phase \in {"opening", "closing"} /\ todo = {} /\ hand = NoFill
  /\ phase' = IF phase = "opening" THEN "reconciled" ELSE "idle"
  /\ UNCHANGED <<broker, sleeve, todo, hand, plan, seen, lost, trades, faults>>

FetchPositions ==
  /\ phase = "reconciled"
  /\ seen' = account
  /\ phase' = "fetched"
  /\ UNCHANGED <<broker, sleeve, todo, hand, plan, lost, trades, faults>>

\* mutant: adoption does not look at the open orders
AdoptsAnyway == seen > Sum(sleeve)

(* reconcile(adopt_unowned): only with no order open, and only what no sleeve   *)
(* owns; an over-claim is reported and stays.                                   *)
Adopts == OpenRows = {} /\ seen > Sum(sleeve)

Adopt ==
  /\ phase = "fetched"
  /\ phase' = "loaded"
  /\ IF Adopts
     THEN /\ sleeve' = [sleeve EXCEPT ![Unattributed] = @ + seen - Sum(sleeve)]
          /\ lost' = account - seen
     ELSE UNCHANGED <<sleeve, lost>>
  /\ UNCHANGED <<broker, todo, hand, plan, seen, trades, faults>>

Room == AtLeastZero(MaxHeld - account)

(* What the strategies want: each sells at most what its sleeve holds; orphans  *)
(* only exit.  Nothing while an order on the symbol is open (held back).        *)
Wants ==
  {w \in [Sleeves -> -MaxHeld..MaxBuy] :
     /\ \A s \in Sleeves : -w[s] <= sleeve[s]
     /\ w[Unattributed] \in {0, -sleeve[Unattributed]}
     /\ Sum([s \in Sleeves |-> AtLeastZero(w[s])]) <= Room}

\* mutant: intents are not held back
NothingHeldBack(w) == w

HoldBack(w) == IF OpenRows = {} THEN w ELSE Nothing

Bought(w) == [s \in Sleeves |-> AtLeastZero(w[s])]
Sold(w) == [s \in Sleeves |-> AtLeastZero(-w[s])]
Before(f, s) == SumOver(f, {z \in Sleeves : z < s})

(* Of a total to hand out in name order, what falls to s, which asks for f[s]. *)
Share(total, f, s) == Least(f[s], AtLeastZero(total - Before(f, s)))

(* sleeve_crossing_service.plan: buys against sells, both in name order. *)
CrossedTotal(w) == Least(Sum(Bought(w)), Sum(Sold(w)))

\* mutant: the seller's leg takes the whole intent
CrossWhole(w) ==
  [s \in Sleeves |-> Share(CrossedTotal(w), Bought(w), s)
                     - (IF CrossedTotal(w) > 0 THEN Sold(w)[s] ELSE 0)]

Crossed(w) ==
  [s \in Sleeves |-> Share(CrossedTotal(w), Bought(w), s) - Share(CrossedTotal(w), Sold(w), s)]

\* mutant: sales are sent as they are
Unclamped(w) == w

(* _clamp_sells_to_account: sells in name order, up to the holdings fetched. *)
Clamped(w) ==
  [s \in Sleeves |-> IF w[s] < 0 THEN -Share(AtLeastZero(seen), Sold(w), s) ELSE w[s]]

Order(n) ==
  IF n = 0 THEN NoOrder
  ELSE [side |-> IF n > 0 THEN "buy" ELSE "sell", unbooked |-> 0,
        left |-> IF n > 0 THEN n ELSE -n]

(* The crosses are committed first; what is left of the intents is to be sent.  *)
Evaluate ==
  /\ phase = "loaded"
  /\ \/ /\ trades < MaxTrades
        /\ trades' = trades + 1
        /\ \E w \in Wants :
             LET crossed == Crossed(HoldBack(w))
             IN /\ sleeve' = [s \in Sleeves |-> sleeve[s] + crossed[s]]
                /\ plan' = Clamped([s \in Sleeves |-> HoldBack(w)[s] - crossed[s]])
     \/ UNCHANGED <<trades, sleeve, plan>>
  /\ phase' = "submitting"
  /\ UNCHANGED <<broker, todo, hand, seen, lost, faults>>

Mislay(side, n) ==
  /\ stray' = [stray EXCEPT ![side] = @ + n]
  /\ mislaid' = mislaid + (IF side = "sell" THEN n ELSE 0)

(* One intent is sent: the broker accepts it; or it lives although its answer   *)
(* is lost or taken for a refusal; or the checks, or the broker, refuse it.     *)
Send(s) ==
  /\ phase = "submitting" /\ fresh = {} /\ plan[s] # 0
  /\ plan' = [plan EXCEPT ![s] = 0]
  /\ \/ order' = [order EXCEPT ![s] = Order(plan[s])] /\ fresh' = {s}
        /\ UNCHANGED <<astray, faults>>
     \/ faults < MaxFaults /\ faults' = faults + 1
        /\ Mislay(Order(plan[s]).side, Order(plan[s]).left)
        /\ UNCHANGED <<order, fresh>>
     \/ UNCHANGED <<order, fresh, astray, faults>>
  /\ UNCHANGED <<account, sleeve, phase, todo, hand, seen, lost, trades>>

(* The row commits: an open one; or, if the acknowledgement showed the order    *)
(* ended, a closed one, and its fill in the sleeve in the same transaction.     *)
Record(s) ==
  /\ s \in fresh
  /\ fresh' = {}
  /\ \/ UNCHANGED <<order, sleeve>>
     \/ /\ order[s].left = 0
        /\ sleeve' = [sleeve EXCEPT ![s] = @ + Unbooked(s)]
        /\ order' = [order EXCEPT ![s] = NoOrder]
  /\ UNCHANGED <<account, astray, phase, todo, hand, plan, seen, lost, trades, faults>>

ReconcileAgain ==
  /\ phase = "submitting" /\ plan = Nothing /\ fresh = {}
  /\ phase' = "closing" /\ todo' = OpenRows
  /\ UNCHANGED <<broker, sleeve, hand, plan, seen, lost, trades, faults>>

(* The worker dies, or a step of the tick raises: a fill booked but not in its  *)
(* sleeve stays out of it, an order with no row has none, or a REJECTED one,    *)
(* and what had filled of it is lost to its sleeve.                             *)
Crash ==
  /\ phase # "idle" /\ faults < MaxFaults
  /\ faults' = faults + 1
  /\ \/ fresh = {} /\ lost' = lost + hand.shares /\ UNCHANGED <<order, astray>>
     \/ \E s \in fresh : /\ lost' = lost + hand.shares + Unbooked(s)
                         /\ order' = [order EXCEPT ![s] = NoOrder]
                         /\ Mislay(order[s].side, order[s].left)
  /\ fresh' = {}
  /\ hand' = NoFill /\ plan' = Nothing
  /\ phase' = "idle" /\ todo' = {}
  /\ UNCHANGED <<account, sleeve, seen, trades>>

-----------------------------------------------------------------------------
(* The chain's sleeve resync, and sync-sleeves: the positions, then the open    *)
(* orders; a symbol with one is skipped.                                        *)
FetchForResync ==
  /\ phase = "idle"
  /\ seen' = account
  /\ phase' = "resync"
  /\ UNCHANGED <<broker, sleeve, todo, hand, plan, lost, trades, faults>>

Surplus == AtLeastZero(Sum(sleeve) - AtLeastZero(seen))

WrittenDown == [s \in Sleeves |-> sleeve[s] - Share(Surplus, sleeve, s)]

\* mutant: the resync adopts, but writes nothing down
ResyncedUp ==
  [sleeve EXCEPT ![Unattributed] = @ + AtLeastZero(seen - Sum(sleeve))]

Resynced ==
  IF seen > Sum(sleeve) THEN [sleeve EXCEPT ![Unattributed] = @ + seen - Sum(sleeve)]
                        ELSE WrittenDown

Resync ==
  /\ phase = "resync"
  /\ phase' = "idle"
  /\ IF OpenRows = {}
     THEN sleeve' = Resynced /\ lost' = account - AtLeastZero(seen)
     ELSE UNCHANGED <<sleeve, lost>>
  /\ UNCHANGED <<broker, todo, hand, plan, seen, trades, faults>>

-----------------------------------------------------------------------------
Working ==
  \/ Reconciled \/ FetchPositions \/ Adopt \/ Evaluate \/ ReconcileAgain \/ Resync
  \/ ApplyToSleeve
  \/ \E s \in Sleeves : Visit(s) \/ Send(s) \/ Record(s)

BrokerMoves ==
  \/ \E s \in Sleeves : Fill(s) \/ OrderEnds(s)
  \/ \E side \in {"buy", "sell"} : StrayFills(side)
  \/ StraysEnd

Next == StartTick \/ FetchForResync \/ Working \/ Crash \/ TradeOutside \/ BrokerMoves

Spec == Init /\ [][Next]_vars

(* The worker's loop runs ticks and, each evening, the chain; a day order ends. *)
FairSpec ==
  /\ Spec
  /\ WF_vars(Working) /\ SF_vars(StartTick) /\ SF_vars(FetchForResync)
  /\ WF_vars(BrokerMoves)

-----------------------------------------------------------------------------
(* Type invariant; no sleeve is ever negative. *)
TypeOK ==
  /\ account \in Int
  /\ sleeve \in [Sleeves -> Nat]
  /\ order \in [Sleeves -> [side : {"none", "buy", "sell"}, left : Nat, unbooked : Nat]]
  /\ fresh \subseteq Sleeves
  /\ stray \in [buy : Nat, sell : Nat] /\ mislaid \in Nat
  /\ phase \in {"idle", "opening", "reconciled", "fetched", "loaded", "submitting",
                "closing", "resync"}
  /\ todo \subseteq OpenRows
  /\ hand \in [owner : Sleeves, shares : Int]
  /\ plan \in [Sleeves -> Int]
  /\ seen \in Int /\ lost \in Int
  /\ trades \in 0..MaxTrades /\ faults \in 0..MaxFaults

(* The sleeves, the fills on their way to them, those lost by a crash or by an  *)
(* order without a row, and the trades made outside make the account's          *)
(* holdings: crossing creates and destroys no share, and adoption and resync,   *)
(* after which the account differs from the sleeves by what it has gained since *)
(* its positions were fetched, take no fill still under way for an orphan.      *)
Balance ==
  Sum(sleeve) + Sum([s \in Sleeves |-> Unbooked(s)]) + hand.shares + lost = account

(* The sleeves balance and keep to their range: none is ever negative.          *)
SleevesBalance == TypeOK /\ Balance

(* While nothing was lost, every share stays with the strategy that bought it:  *)
(* neither adoption nor resync mistakes a fill still under way for an orphan,   *)
(* and the orphans there were can only be sold.                                 *)
NothingOrphaned == faults = 0 => sleeve[Unattributed] <= StartHeld[Unattributed]

(* A strategy's sale, down to the part filled and not yet in its sleeve, is of  *)
(* shares its own sleeve holds, so that no fill is refused: crosses, open       *)
(* orders, write-downs and crashes leave no share sold twice by orders that     *)
(* have, or will have, a row.                                                   *)
Selling(s) ==
  (IF order[s].side = "sell" THEN order[s].left + order[s].unbooked ELSE 0)
  + (IF hand.owner = s THEN AtLeastZero(-hand.shares) ELSE 0)
SellsOwnShares == \A s \in Sleeves : Selling(s) <= sleeve[s]

(* "Sleeve drift must not short": whatever the sleeves claim, the sales alive   *)
(* at the broker, with a row or without, exceed the account's holdings by no    *)
(* more than the sales that were left without a row.                            *)
UncoveredOnlyByStrays == Resting + stray.sell <= account + mislaid

(* Once the strategies trade no more, the sleeves come to sum to the account    *)
(* and stay so, whatever crashes and stray orders did before; a short account   *)
(* is beyond them, and leaves them empty.                                       *)
SleevesConverge == <>[](Sum(sleeve) = AtLeastZero(account))
=============================================================================
