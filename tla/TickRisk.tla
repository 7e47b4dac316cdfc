------------------------------ MODULE TickRisk ------------------------------
(***************************************************************************)
(* Exposure across the ticks of portfolio mode: what the account holds,    *)
(* the orders resting at the broker, and the views a tick decides with -   *)
(* the positions it sizes against, the open-order rows that hold symbols   *)
(* back, and the risk state the pre-trade checks read.  Orders outlive the *)
(* tick that sent them; the broker fills or cancels them at any time.  An  *)
(* order lives from the broker's acceptance on, and has a row only once    *)
(* the job has committed it: a tick that ends in between leaves a stray.   *)
(* A unit of a symbol is worth one unit of notional.                       *)
(***************************************************************************)
EXTENDS Integers, FiniteSets, Sums

CONSTANTS
  Symbols,
  MaxGross,     \* max_gross_exposure
  MaxSymbol,    \* max_symbol_exposure, the tightest per-symbol cap
  Opening,      \* the holdings, per symbol, the account may start with
  Overlapping,  \* whether another process may reconcile during a tick: what
                \* can be the case, a subset of BOOLEAN
  RefreshFails, \* the broker's positions may be unreadable as a tick is built
  MaxPlan,      \* bound on the units a tick plans to trade in one symbol
  MaxMislaid,   \* bound: no further order goes astray once so many units have
  MaxTicks      \* bound on ticks

ASSUME SymbolsAssumption == IsFiniteSet(Symbols)
ASSUME LimitsAssumption == MaxGross \in Nat /\ MaxSymbol \in Nat
ASSUME OpeningAssumption == Opening \subseteq Nat /\ Opening # {}
ASSUME BoundsAssumption == MaxTicks \in Nat /\ MaxPlan \in Nat /\ MaxMislaid \in Nat
ASSUME EnvironmentAssumption ==
  Overlapping \subseteq BOOLEAN /\ Overlapping # {} /\ RefreshFails \in BOOLEAN

VARIABLES
  overlap,   \* another process may reconcile while a tick is under way
  held,      \* [symbol -> units the account holds, at the broker]
  resting,   \* [symbol -> units of the orders with a row resting at the broker]
  inHand,    \* the order accepted at the broker, its row not yet committed
  stray,     \* [symbol -> units of resting orders that got no row]
  mislaid,   \* [symbol -> units of orders that were left without a row]: history
  booked,    \* [symbol -> holdings the position ledger's last snapshot shows]
  openRows,  \* symbols with a reconcilable tracked order
  phase,     \* where the tick is
  base,      \* [symbol -> holdings the risk state reader is based on]
  pending,   \* [symbol -> exposure of the orders noted this tick]
  gross,     \* gross exposure of the orders noted this tick
  account,   \* [symbol -> holdings the evaluation sizes against]
  plan,      \* [symbol -> units left to buy (> 0) or to sell (< 0)]
  ticks      \* ticks started

orders == <<held, resting, inHand, stray, mislaid>>
reader == <<base, pending, gross>>
vars   == <<overlap, held, resting, inHand, stray, mislaid, booked, openRows, phase,
            base, pending, gross, account, plan, ticks>>

Phases == {"idle", "built", "reconciled", "positions", "submitting", "closing"}

Sides == {"buy", "sell"}
Units == [buy : Nat, sell : Nat]
NoUnits == [buy |-> 0, sell |-> 0]
NoOrder == [symbol |-> "none", side |-> "none", left |-> 0]
HandOrders == [symbol : Symbols, side : Sides, left : Nat]

TypeOK ==
  /\ overlap \in Overlapping
  /\ held \in [Symbols -> Int]
  /\ resting \in [Symbols -> Units]
  /\ inHand \in HandOrders \cup {NoOrder}
  /\ stray \in [Symbols -> Units]
  /\ mislaid \in [Symbols -> Units]
  /\ booked \in [Symbols -> Int]
  /\ openRows \subseteq Symbols
  /\ phase \in Phases
  /\ base \in [Symbols -> Int]
  /\ pending \in [Symbols -> Int]
  /\ gross \in Int
  /\ account \in [Symbols -> Int]
  /\ plan \in [Symbols -> -MaxPlan .. MaxPlan]
  /\ ticks \in 0 .. MaxTicks

Nothing == [s \in Symbols |-> 0]

Init ==
  /\ overlap \in Overlapping
  /\ held \in [Symbols -> Opening]
  /\ resting = [s \in Symbols |-> NoUnits]
  /\ inHand = NoOrder
  /\ stray = [s \in Symbols |-> NoUnits]
  /\ mislaid = [s \in Symbols |-> NoUnits]
  /\ booked = held
  /\ openRows = {}
  /\ phase = "idle"
  /\ base = Nothing
  /\ pending = Nothing
  /\ gross = 0
  /\ account = Nothing
  /\ plan = Nothing
  /\ ticks = 0

Sum(f) == SumOver(f, Symbols)
Abs(n) == IF n < 0 THEN -n ELSE n
Least(m, n) == IF m =< n THEN m ELSE n
AtLeastZero(n) == IF n < 0 THEN 0 ELSE n

Signed(side, k) == IF side = "buy" THEN k ELSE -k

Plus(units, side, k) ==
  [buy  |-> units.buy + (IF side = "buy" THEN k ELSE 0),
   sell |-> units.sell + (IF side = "sell" THEN k ELSE 0)]

-----------------------------------------------------------------------------
(* The broker (external).                                                  *)

Executes(s, side, k) == held' = [held EXCEPT ![s] = @ + Signed(side, k)]

Fill(s, side) ==
  /\ \E k \in 1 .. resting[s][side] :
       resting' = [resting EXCEPT ![s] = Plus(@, side, -k)] /\ Executes(s, side, k)
  /\ UNCHANGED <<overlap, inHand, stray, mislaid, booked, openRows, phase, reader,
                 account, plan, ticks>>

FillStray(s, side) ==
  /\ \E k \in 1 .. stray[s][side] :
       stray' = [stray EXCEPT ![s] = Plus(@, side, -k)] /\ Executes(s, side, k)
  /\ UNCHANGED <<overlap, resting, inHand, mislaid, booked, openRows, phase, reader,
                 account, plan, ticks>>

FillInHand ==
  /\ \E k \in 1 .. inHand.left :
       /\ inHand' = [inHand EXCEPT !.left = @ - k]
       /\ Executes(inHand.symbol, inHand.side, k)
  /\ UNCHANGED <<overlap, resting, stray, mislaid, booked, openRows, phase, reader,
                 account, plan, ticks>>

(* Orders of the symbol end: cancelled, or expired at the close.           *)
OrdersEnd(s) ==
  /\ \/ resting[s] # NoUnits /\ resting' = [resting EXCEPT ![s] = NoUnits]
        /\ UNCHANGED <<inHand, stray>>
     \/ stray[s] # NoUnits /\ stray' = [stray EXCEPT ![s] = NoUnits]
        /\ UNCHANGED <<resting, inHand>>
     \/ inHand.symbol = s /\ inHand.left > 0 /\ inHand' = [inHand EXCEPT !.left = 0]
        /\ UNCHANGED <<resting, stray>>
  /\ UNCHANGED <<overlap, held, mislaid, booked, openRows, phase, reader, account, plan, ticks>>

-----------------------------------------------------------------------------
(* What the pre-trade risk service reads: PositionAwareRiskStateReader.    *)

GrossExposure     == AtLeastZero(Sum([s \in Symbols |-> Abs(base[s])]) + gross)
SymbolExposure(s) == AtLeastZero(Abs(base[s]) + pending[s])

(* _calculate_exposure_delta for an order of k units.                      *)
Reversal(k, exposure) == AtLeastZero(k - exposure) - Least(k, exposure)

ExposureDelta(s, side, k) ==
  LET opposed == (side = "buy" /\ base[s] < 0) \/ (side = "sell" /\ base[s] > 0)
  IN IF opposed THEN Reversal(k, SymbolExposure(s)) ELSE k

GrossAllowsOpening(s, side, k) ==  \* mutant: orders noted this tick do not count
  Sum([z \in Symbols |-> Abs(base[z])]) + ExposureDelta(s, side, k) =< MaxGross

GrossAllows(s, side, k) == GrossExposure + ExposureDelta(s, side, k) =< MaxGross

(* The symbol cap lets an order that does not add exposure pass.           *)
SymbolAllows(s, side, k) ==
  ExposureDelta(s, side, k) > 0
    => SymbolExposure(s) + ExposureDelta(s, side, k) =< MaxSymbol

RiskAllows(s, side, k) == GrossAllows(s, side, k) /\ SymbolAllows(s, side, k)

(* record_submitted_order: a buy adds; a sell first closes what is held.   *)
NotedDeltaNet(s, side, k) == Signed(side, k)  \* mutant: no floor

NotedDelta(s, side, k) ==
  IF side = "buy" THEN k ELSE Reversal(k, SymbolExposure(s))

-----------------------------------------------------------------------------
(* A tick.                                                                 *)

(* The dependencies are built: the reader is based on the broker's live    *)
(* positions, or, if they cannot be read, on the ledger's last snapshot.   *)
BuildTick ==
  /\ phase = "idle" /\ ticks < MaxTicks
  /\ ticks' = ticks + 1
  /\ phase' = "built"
  /\ base' \in {held} \cup {b \in {booked} : RefreshFails}
  /\ pending' = Nothing
  /\ gross' = 0
  /\ UNCHANGED <<overlap, orders, booked, openRows, account, plan>>

(* Reconciliation posts the fills of the orders it polls, and closes the   *)
(* rows whose orders have ended at the broker; a stale answer leaves a     *)
(* symbol as it was.                                                       *)
BookFills ==
  \E polled \in SUBSET openRows :
    /\ booked' = [s \in Symbols |-> IF s \in polled THEN held[s] ELSE booked[s]]
    /\ openRows' = openRows \ {s \in polled : resting[s] = NoUnits}

(* The tick reconciles before it evaluates, and once more after it has     *)
(* submitted.                                                              *)
Reconcile ==
  /\ \/ phase = "built" /\ phase' = "reconciled"
     \/ phase = "submitting" /\ plan = Nothing /\ inHand = NoOrder /\ phase' = "closing"
  /\ BookFills
  /\ UNCHANGED <<overlap, orders, reader, account, plan, ticks>>

OtherReconciles ==
  /\ overlap
  /\ BookFills
  /\ UNCHANGED <<overlap, orders, phase, reader, account, plan, ticks>>

FetchPositions ==
  /\ phase = "reconciled"
  /\ account' = held
  /\ phase' = "positions"
  /\ UNCHANGED <<overlap, orders, booked, openRows, reader, plan, ticks>>

(* What a symbol may trade in the tick: nothing while it has an open order *)
(* (adoption and hold-back), buys up to the room under the symbol cap,     *)
(* sells up to the account's holdings.                                     *)
NothingHeldBack(s) == FALSE  \* mutant

HeldBack(s) == s \in openRows
BuyRoom(s)  == AtLeastZero(MaxSymbol - AtLeastZero(account[s]))
SellRoom(s) == AtLeastZero(account[s])

(* The evaluation, from its reading of the open rows to its residual       *)
(* intents: one side per symbol after crossing.                            *)
Evaluate ==
  /\ phase = "positions"
  /\ plan' \in [Symbols -> -MaxPlan .. MaxPlan]
  /\ \A s \in Symbols :
       /\ HeldBack(s) => plan'[s] = 0
       /\ -plan'[s] =< SellRoom(s) /\ plan'[s] =< BuyRoom(s)
  /\ phase' = "submitting"
  /\ UNCHANGED <<overlap, orders, booked, openRows, reader, account, ticks>>

TakeFromPlan(s, side, k) == plan' = [plan EXCEPT ![s] = @ - Signed(side, k)]

(* submit returns the broker's acceptance and the reader notes it; the row *)
(* comes later.                                                            *)
Accept(s, side, k) ==
  /\ inHand' = [symbol |-> s, side |-> side, left |-> k]
  /\ pending' = [pending EXCEPT ![s] = @ + NotedDelta(s, side, k)]
  /\ gross' = gross + NotedDelta(s, side, k)

CanMislay == Sum([s \in Symbols |-> mislaid[s].buy + mislaid[s].sell]) < MaxMislaid

Mislay(s, side, k) ==
  /\ stray' = [stray EXCEPT ![s] = Plus(@, side, k)]
  /\ mislaid' = [mislaid EXCEPT ![s] = Plus(@, side, k)]

(* One intent, of k units, is checked and sent, sells before buys: it is   *)
(* accepted; it lives but its answer never arrives or is taken for a       *)
(* refusal; or the checks, or the broker, refuse it.                       *)
Submit(s, side, k) ==
  /\ phase = "submitting" /\ inHand = NoOrder
  /\ side = "buy" => \A z \in Symbols : plan[z] >= 0
  /\ k \in 1 .. Signed(side, plan[s])
  /\ TakeFromPlan(s, side, k)
  /\ \/ RiskAllows(s, side, k) /\ Accept(s, side, k) /\ UNCHANGED <<stray, mislaid>>
     \/ RiskAllows(s, side, k) /\ CanMislay /\ Mislay(s, side, k)
        /\ UNCHANGED <<inHand, pending, gross>>
     \/ UNCHANGED <<inHand, stray, mislaid, pending, gross>>
  /\ UNCHANGED <<overlap, held, resting, booked, openRows, phase, base, account, ticks>>

(* The row commits with the status the acknowledgement had: open, or, if   *)
(* the order had ended by then, closed and with its fill posted.           *)
Record ==
  /\ inHand # NoOrder
  /\ LET s == inHand.symbol
     IN /\ resting' = [resting EXCEPT ![s] = Plus(@, inHand.side, inHand.left)]
        /\ \/ openRows' = openRows \cup {s} /\ UNCHANGED booked
           \/ /\ inHand.left = 0 /\ UNCHANGED openRows
              /\ booked' = [booked EXCEPT ![s] = held[s]]
  /\ inHand' = NoOrder
  /\ UNCHANGED <<overlap, held, stray, mislaid, phase, reader, account, plan, ticks>>

(* The tick completes, or fails at any step before the last: the process   *)
(* dies, or recording raises, which leaves at most a REJECTED row.  What   *)
(* is left of an order in hand is then a stray.                            *)
EndTick ==
  /\ phase # "idle"
  /\ IF inHand.left > 0
     THEN CanMislay /\ Mislay(inHand.symbol, inHand.side, inHand.left)
     ELSE UNCHANGED <<stray, mislaid>>
  /\ inHand' = NoOrder
  /\ phase' = "idle"
  /\ plan' = Nothing
  /\ UNCHANGED <<overlap, held, resting, booked, openRows, reader, account, ticks>>

-----------------------------------------------------------------------------
Broker ==
  \/ FillInHand
  \/ \E s \in Symbols :
       OrdersEnd(s) \/ \E side \in Sides : Fill(s, side) \/ FillStray(s, side)

Tick ==
  \/ BuildTick \/ Reconcile \/ FetchPositions \/ Evaluate \/ Record \/ EndTick
  \/ \E s \in Symbols, side \in Sides, k \in 1 .. MaxPlan : Submit(s, side, k)

Next == Broker \/ Tick \/ OtherReconciles

Spec == Init /\ [][Next]_vars

-----------------------------------------------------------------------------
(* Properties.                                                             *)

(* The units of the symbol's live orders: with a row, astray, or in hand.   *)
Live(s, side) ==
  resting[s][side] + stray[s][side]
  + (IF inHand.symbol = s /\ inHand.side = side THEN inHand.left ELSE 0)

(* With nobody else reconciling, whatever fills when, over any number of   *)
(* ticks, the account can be short of the sales that live by no more than  *)
(* the sales that were left without a row: hold-back and sell clamp sell   *)
(* nothing twice that the books know of.                                   *)
ShortOnlyByStrays ==
  ~overlap => \A s \in Symbols : Live(s, "sell") =< held[s] + mislaid[s].sell

(* With nobody else reconciling, a symbol's holding and its live buys      *)
(* together grow past the symbol cap by no more than the buys that were    *)
(* left without a row, however many ticks buy it.                          *)
GrowsPastCapByStraysOnly ==
  [][\A s \in Symbols :
       ~overlap /\ held'[s] + Live(s, "buy")' > held[s] + Live(s, "buy")
         => held'[s] + Live(s, "buy")' =< MaxSymbol + mislaid'[s].buy]_vars

(* The gross figure the reader keeps beside the per-symbol ones never      *)
(* drifts from their sum, so a cap is checked against one account.         *)
ReaderAgrees == GrossExposure = Sum([s \in Symbols |-> SymbolExposure(s)])

(* The reader agrees with itself and every variable keeps to its range.    *)
ReaderSound == TypeOK /\ ReaderAgrees

(* Within a tick the orders noted so far count: however many intents pass  *)
(* the checks, exposure as the tick reads it goes no further than the caps *)
(* - or than it already was, in an account that is short of nothing.       *)
CapsHoldInTick ==
  LET opening == Sum([s \in Symbols |-> Abs(base[s])])
      grown(from, by, cap) == by > 0 => from + by =< cap
  IN (\A s \in Symbols : base[s] >= 0) =>
       /\ grown(opening, gross, MaxGross)
       /\ \A s \in Symbols : grown(base[s], pending[s], MaxSymbol)
=============================================================================
