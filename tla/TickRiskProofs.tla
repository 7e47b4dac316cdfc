---------------------------- MODULE TickRiskProofs ----------------------------
(***************************************************************************)
(* For any symbols, caps and opening holdings, and any number of ticks:    *)
(* when nobody else reconciles during a tick, the account goes short, and  *)
(* a symbol passes its cap, by no more than the orders that were left      *)
(* without a row, one symbol at a time; and whoever reconciles, the sums   *)
(* the reader keeps are true and the orders of a tick stay within the caps *)
(* they are checked against.                                               *)
(***************************************************************************)
EXTENDS TickRisk, SumsProofs, TLAPS

(* The part of TypeOK the proof needs.                                     *)
UnitTypes ==
  /\ held \in [Symbols -> Int] /\ account \in [Symbols -> Int]
  /\ resting \in [Symbols -> Units]
  /\ stray \in [Symbols -> Units]
  /\ mislaid \in [Symbols -> Units]
  /\ inHand \in HandOrders \cup {NoOrder}
  /\ plan \in [Symbols -> Int]

(* A resting order that has a row has an open one.                         *)
RestingIsOpen == \A s \in Symbols : resting[s] # NoUnits => s \in openRows

(* Only a tick that submits has an order in hand.                          *)
HandIsSubmitting == inHand # NoOrder => phase = "submitting"

(* What is astray was mislaid.                                             *)
StrayIsMislaid ==
  \A s \in Symbols : stray[s].buy =< mislaid[s].buy /\ stray[s].sell =< mislaid[s].sell

(* When the positions are fetched, a symbol without an open row has what   *)
(* the account showed, but for what strays have filled since.              *)
AccountIsCurrent ==
  phase = "positions" =>
    \A s \in Symbols \ openRows :
      /\ account[s] + stray[s].sell =< held[s] + mislaid[s].sell
      /\ held[s] + stray[s].buy =< account[s] + mislaid[s].buy

(* What lives and what is still planned to be sold is held, or mislaid.    *)
SalesAreHeld ==
  \A s \in Symbols : Live(s, "sell") + AtLeastZero(-plan[s]) =< held[s] + mislaid[s].sell

(* What is held, lives and is planned to be bought keeps to the cap, but   *)
(* for what is mislaid.                                                    *)
BuysAreRoomed ==
  \A s \in Symbols :
    plan[s] > 0 => held[s] + Live(s, "buy") + plan[s] =< MaxSymbol + mislaid[s].buy

AloneInv ==
  /\ UnitTypes /\ RestingIsOpen /\ HandIsSubmitting /\ StrayIsMislaid
  /\ AccountIsCurrent /\ SalesAreHeld /\ BuysAreRoomed

RiskInv == ~overlap => AloneInv

(* Units are a record of two numbers, and adding to one side leaves the    *)
(* other.                                                                  *)
LEMMA UnitsPlus ==
  ASSUME NEW units \in Units, NEW side \in Sides, NEW k \in Int, units[side] + k >= 0
  PROVE  /\ Plus(units, side, k) \in Units
         /\ Plus(units, side, k).buy = units.buy + (IF side = "buy" THEN k ELSE 0)
         /\ Plus(units, side, k).sell = units.sell + (IF side = "sell" THEN k ELSE 0)
  BY DEF Units, Sides, Plus

(* No units are no units on either side.                                   *)
LEMMA UnitsNone ==
  /\ NoUnits \in Units /\ NoUnits.buy = 0 /\ NoUnits.sell = 0
  /\ \A units \in Units :
       /\ units.buy \in Nat /\ units.sell \in Nat
       /\ units["buy"] = units.buy /\ units["sell"] = units.sell
       /\ units.buy = 0 /\ units.sell = 0 => units = NoUnits
  BY DEF NoUnits, Units

(* The order in hand is a record, and no order has nothing left.           *)
LEMMA HandFields ==
  ASSUME UnitTypes
  PROVE  /\ inHand.left \in Nat
         /\ inHand # NoOrder => inHand.symbol \in Symbols /\ inHand.side \in Sides
         /\ NoOrder.left = 0 /\ NoOrder.side \notin Sides /\ NoOrder \notin HandOrders
  BY DEF UnitTypes, HandOrders, NoOrder, Sides

LiveIsNat == \A s \in Symbols : Live(s, "buy") \in Nat /\ Live(s, "sell") \in Nat

(* Live units are a number of units.                                       *)
LEMMA LiveNat == UnitTypes => LiveIsNat
<1> SUFFICES ASSUME UnitTypes, NEW s \in Symbols
             PROVE  Live(s, "buy") \in Nat /\ Live(s, "sell") \in Nat
  BY DEF LiveIsNat
<1>1. resting[s] \in Units /\ stray[s] \in Units /\ inHand.left \in Nat
  BY HandFields DEF UnitTypes
<1> QED
  BY <1>1, UnitsNone DEF Live

(* Nothing rests and nothing is planned at the start.                      *)
LEMMA RiskInit == Init => RiskInv
<1> SUFFICES ASSUME Init PROVE AloneInv
  BY DEF RiskInv
<1>1. held \in [Symbols -> Nat] /\ UnitTypes
  <2>1. held \in [Symbols -> Nat]
    BY OpeningAssumption DEF Init
  <2>2. Nothing \in [Symbols -> Nat]
    BY DEF Nothing
  <2> QED
    BY <2>1, <2>2, UnitsNone DEF Init, UnitTypes
<1>2. \A s \in Symbols :
        /\ stray[s] = NoUnits /\ mislaid[s] = NoUnits /\ resting[s] = NoUnits /\ plan[s] = 0
        /\ Live(s, "sell") = 0 /\ held[s] >= 0 /\ held[s] \in Int
  BY <1>1, UnitsNone, HandFields DEF Init, Nothing, Live, NoOrder
<1> QED
  BY <1>1, <1>2, UnitsNone DEF Init, AloneInv, RestingIsOpen, HandIsSubmitting, StrayIsMislaid,
     AccountIsCurrent, SalesAreHeld, AtLeastZero, BuysAreRoomed

(* What a step of the broker does to the orders and the holding of a       *)
(* symbol: no sale is lost from the account that did not live, and no buy  *)
(* comes in that did not; a symbol with neither row nor order in hand      *)
(* changes by its strays alone.                                            *)
BrokerMoves(z) ==
  /\ held'[z] - Live(z, "sell")' >= held[z] - Live(z, "sell")
  /\ held'[z] + Live(z, "buy")' =< held[z] + Live(z, "buy")
  /\ resting[z] = NoUnits => resting'[z] = NoUnits
  /\ stray'[z].buy =< stray[z].buy /\ stray'[z].sell =< stray[z].sell
  /\ resting[z] = NoUnits /\ inHand = NoOrder =>
       /\ held'[z] - stray'[z].sell >= held[z] - stray[z].sell
       /\ held'[z] + stray'[z].buy =< held[z] + stray[z].buy

(* Orders with a row fill.                                                 *)
LEMMA FillMoves ==
  ASSUME UnitTypes, NEW s \in Symbols, NEW side \in Sides, Fill(s, side)
  PROVE  UnitTypes' /\ \A z \in Symbols : BrokerMoves(z)
<1>1. PICK k \in 1 .. resting[s][side] :
        /\ resting' = [resting EXCEPT ![s] = Plus(@, side, -k)]
        /\ held' = [held EXCEPT ![s] = @ + Signed(side, k)]
  BY DEF Fill, Executes
<1>2. UNCHANGED <<inHand, stray, mislaid, account, plan>>
  BY DEF Fill
<1>3. /\ resting[s] \in Units /\ resting[s][side] \in Nat /\ k \in Nat /\ k > 0 /\ k =< resting[s][side]
      /\ held[s] \in Int /\ -k \in Int
  BY UnitsNone DEF UnitTypes, Sides
<1>4. /\ Plus(resting[s], side, -k) \in Units
      /\ Plus(resting[s], side, -k).buy = resting[s].buy + (IF side = "buy" THEN -k ELSE 0)
      /\ Plus(resting[s], side, -k).sell = resting[s].sell + (IF side = "sell" THEN -k ELSE 0)
  BY <1>3, UnitsPlus
<1>5. Signed(side, k) \in Int
  BY <1>3 DEF Signed
<1>6. UnitTypes'
  BY <1>1, <1>2, <1>4, <1>5 DEF UnitTypes
<1>7. resting'[s] = Plus(resting[s], side, -k) /\ held'[s] = held[s] + Signed(side, k)
  BY <1>1 DEF UnitTypes
<1>8. \A z \in Symbols \ {s} : resting'[z] = resting[z] /\ held'[z] = held[z]
  BY <1>1 DEF UnitTypes
<1>9. \A z \in Symbols :
        /\ resting[z] \in Units /\ stray[z] \in Units /\ held[z] \in Int /\ inHand.left \in Nat
        /\ Live(z, "buy") \in Nat /\ Live(z, "sell") \in Nat
  BY HandFields, LiveNat DEF UnitTypes, LiveIsNat
<1>10. BrokerMoves(s)
  <2>1. resting[s] # NoUnits
    BY <1>3, UnitsNone DEF Sides
  <2>2. /\ Live(s, "buy")' = Live(s, "buy") + (IF side = "buy" THEN -k ELSE 0)
        /\ Live(s, "sell")' = Live(s, "sell") + (IF side = "sell" THEN -k ELSE 0)
    BY <1>2, <1>3, <1>4, <1>7, <1>9, UnitsNone DEF Live
  <2> QED
    BY <1>2, <1>3, <1>7, <1>9, <2>1, <2>2, UnitsNone DEF BrokerMoves, Signed, Sides
<1>11. ASSUME NEW z \in Symbols, z # s PROVE BrokerMoves(z)
  <2>1. Live(z, "buy")' = Live(z, "buy") /\ Live(z, "sell")' = Live(z, "sell")
    BY <1>2, <1>8, <1>11 DEF Live
  <2> QED
    BY <1>2, <1>8, <1>9, <1>11, <2>1, UnitsNone DEF BrokerMoves
<1> QED
  BY <1>6, <1>10, <1>11

(* Strays fill.                                                            *)
LEMMA FillStrayMoves ==
  ASSUME UnitTypes, NEW s \in Symbols, NEW side \in Sides, FillStray(s, side)
  PROVE  UnitTypes' /\ \A z \in Symbols : BrokerMoves(z)
<1>1. PICK k \in 1 .. stray[s][side] :
        /\ stray' = [stray EXCEPT ![s] = Plus(@, side, -k)]
        /\ held' = [held EXCEPT ![s] = @ + Signed(side, k)]
  BY DEF FillStray, Executes
<1>2. UNCHANGED <<inHand, resting, mislaid, account, plan>>
  BY DEF FillStray
<1>3. /\ stray[s] \in Units /\ stray[s][side] \in Nat /\ k \in Nat /\ k > 0 /\ k =< stray[s][side]
      /\ held[s] \in Int /\ -k \in Int
  BY UnitsNone DEF UnitTypes, Sides
<1>4. /\ Plus(stray[s], side, -k) \in Units
      /\ Plus(stray[s], side, -k).buy = stray[s].buy + (IF side = "buy" THEN -k ELSE 0)
      /\ Plus(stray[s], side, -k).sell = stray[s].sell + (IF side = "sell" THEN -k ELSE 0)
  BY <1>3, UnitsPlus
<1>5. Signed(side, k) \in Int
  BY <1>3 DEF Signed
<1>6. UnitTypes'
  BY <1>1, <1>2, <1>4, <1>5 DEF UnitTypes
<1>7. stray'[s] = Plus(stray[s], side, -k) /\ held'[s] = held[s] + Signed(side, k)
  BY <1>1 DEF UnitTypes
<1>8. \A z \in Symbols \ {s} : stray'[z] = stray[z] /\ held'[z] = held[z]
  BY <1>1 DEF UnitTypes
<1>9. \A z \in Symbols :
        /\ resting[z] \in Units /\ stray[z] \in Units /\ held[z] \in Int /\ inHand.left \in Nat
        /\ Live(z, "buy") \in Nat /\ Live(z, "sell") \in Nat
  BY HandFields, LiveNat DEF UnitTypes, LiveIsNat
<1>10. BrokerMoves(s)
  <2>2. /\ Live(s, "buy")' = Live(s, "buy") + (IF side = "buy" THEN -k ELSE 0)
        /\ Live(s, "sell")' = Live(s, "sell") + (IF side = "sell" THEN -k ELSE 0)
    BY <1>2, <1>3, <1>4, <1>7, <1>9, UnitsNone DEF Live
  <2> QED
    BY <1>2, <1>3, <1>4, <1>7, <1>9, <2>2, UnitsNone DEF BrokerMoves, Signed, Sides
<1>11. ASSUME NEW z \in Symbols, z # s PROVE BrokerMoves(z)
  <2>1. Live(z, "buy")' = Live(z, "buy") /\ Live(z, "sell")' = Live(z, "sell")
    BY <1>2, <1>8, <1>11 DEF Live
  <2> QED
    BY <1>2, <1>8, <1>9, <1>11, <2>1, UnitsNone DEF BrokerMoves
<1> QED
  BY <1>6, <1>10, <1>11

(* The order in hand fills.                                                *)
LEMMA FillInHandMoves ==
  ASSUME UnitTypes, FillInHand
  PROVE  UnitTypes' /\ \A z \in Symbols : BrokerMoves(z)
<1>1. PICK k \in 1 .. inHand.left :
        /\ inHand' = [inHand EXCEPT !.left = @ - k]
        /\ held' = [held EXCEPT ![inHand.symbol] = @ + Signed(inHand.side, k)]
  BY DEF FillInHand, Executes
<1> PICK s, side : s = inHand.symbol /\ side = inHand.side
  OBVIOUS
<1>2. UNCHANGED <<resting, stray, mislaid, account, plan>>
  BY DEF FillInHand
<1>3. inHand.left \in Nat /\ k \in Nat /\ k > 0 /\ k =< inHand.left /\ inHand.left - k \in Nat
  BY HandFields
<1>4. inHand \in HandOrders /\ inHand # NoOrder /\ s \in Symbols /\ side \in Sides
  BY <1>3, HandFields DEF UnitTypes, HandOrders
<1>5. inHand'.symbol = s /\ inHand'.side = side /\ inHand'.left = inHand.left - k /\ inHand' \in HandOrders
  BY <1>1, <1>3, <1>4 DEF HandOrders
<1>6. Signed(side, k) \in Int
  BY <1>3 DEF Signed
<1>7. held' \in [Symbols -> Int] /\ held'[s] = held[s] + Signed(side, k) /\ held[s] \in Int
  BY <1>1, <1>4, <1>6 DEF UnitTypes
<1>8. \A z \in Symbols \ {s} : held'[z] = held[z]
  BY <1>1 DEF UnitTypes
<1>9. UnitTypes'
  BY <1>2, <1>5, <1>7 DEF UnitTypes
<1>10. \A z \in Symbols :
        /\ resting[z] \in Units /\ stray[z] \in Units /\ held[z] \in Int
        /\ Live(z, "buy") \in Nat /\ Live(z, "sell") \in Nat
  BY LiveNat DEF UnitTypes, LiveIsNat
<1>11. BrokerMoves(s)
  <2>2. /\ Live(s, "buy")' = Live(s, "buy") + (IF side = "buy" THEN -k ELSE 0)
        /\ Live(s, "sell")' = Live(s, "sell") + (IF side = "sell" THEN -k ELSE 0)
    <3>1. /\ inHand.symbol = s /\ inHand.side = side
          /\ inHand'.symbol = s /\ inHand'.side = side /\ inHand'.left = inHand.left - k
          /\ resting'[s] = resting[s] /\ stray'[s] = stray[s]
      BY <1>2, <1>5
    <3>2. resting[s].buy \in Nat /\ resting[s].sell \in Nat /\ stray[s].buy \in Nat /\ stray[s].sell \in Nat
      BY <1>4, <1>10, UnitsNone
    <3>3. side = "buy" \/ side = "sell"
      BY <1>4 DEF Sides
    <3> QED
      BY <1>3, <3>1, <3>2, <3>3 DEF Live
  <2> QED
    BY <1>2, <1>3, <1>4, <1>7, <1>10, <2>2, UnitsNone DEF BrokerMoves, Signed, Sides
<1>12. ASSUME NEW z \in Symbols, z # s PROVE BrokerMoves(z)
  <2>1. Live(z, "buy")' = Live(z, "buy") /\ Live(z, "sell")' = Live(z, "sell")
    BY <1>2, <1>5, <1>12 DEF Live
  <2> QED
    BY <1>2, <1>8, <1>10, <1>12, <2>1, UnitsNone DEF BrokerMoves
<1> QED
  BY <1>9, <1>11, <1>12

(* Orders end.                                                             *)
LEMMA EndMoves ==
  ASSUME UnitTypes, NEW s \in Symbols, OrdersEnd(s)
  PROVE  UnitTypes' /\ \A z \in Symbols : BrokerMoves(z)
<1>1. UNCHANGED <<held, mislaid, account, plan>>
  BY DEF OrdersEnd
<1>2. ASSUME NEW z \in Symbols
      PROVE  /\ resting[z] \in Units /\ stray[z] \in Units /\ held[z] \in Int /\ inHand.left \in Nat
             /\ Live(z, "buy") \in Nat /\ Live(z, "sell") \in Nat
  BY HandFields, LiveNat DEF UnitTypes, LiveIsNat
<1>3. CASE resting' = [resting EXCEPT ![s] = NoUnits] /\ UNCHANGED <<inHand, stray>>
  <2>1. UnitTypes'
    BY <1>1, <1>3, UnitsNone DEF UnitTypes
  <2>2. \A z \in Symbols : resting'[z] = resting[z] \/ resting'[z] = NoUnits
    BY <1>3 DEF UnitTypes
  <2> QED
    BY <1>1, <1>2, <1>3, <2>1, <2>2, UnitsNone DEF BrokerMoves, Live
<1>4. CASE stray' = [stray EXCEPT ![s] = NoUnits] /\ UNCHANGED <<resting, inHand>>
  <2>1. UnitTypes'
    BY <1>1, <1>4, UnitsNone DEF UnitTypes
  <2>2. \A z \in Symbols : stray'[z] = stray[z] \/ stray'[z] = NoUnits
    BY <1>4 DEF UnitTypes
  <2>3. ASSUME NEW z \in Symbols PROVE BrokerMoves(z)
    <3>1. stray'[z].buy \in Nat /\ stray'[z].buy =< stray[z].buy /\ stray'[z].sell \in Nat /\ stray'[z].sell =< stray[z].sell
      BY <1>2, <2>2, UnitsNone
    <3>2. /\ Live(z, "buy")' = Live(z, "buy") + stray'[z].buy - stray[z].buy
          /\ Live(z, "sell")' = Live(z, "sell") + stray'[z].sell - stray[z].sell
      <4>1. /\ stray'[z] \in Units /\ resting'[z] = resting[z] /\ inHand' = inHand
            /\ stray[z] \in Units /\ resting[z] \in Units /\ inHand.left \in Nat
        BY <1>2, <1>4, <2>2, UnitsNone
      <4> QED
        BY <4>1, UnitsNone DEF Live
    <3> QED
      BY <1>1, <1>2, <1>4, <3>1, <3>2, UnitsNone DEF BrokerMoves
  <2> QED
    BY <2>1, <2>3
<1>5. CASE inHand.left > 0 /\ inHand' = [inHand EXCEPT !.left = 0] /\ UNCHANGED <<resting, stray>>
  <2>1. inHand \in HandOrders
    BY <1>5, HandFields DEF UnitTypes
  <2>2. inHand' \in HandOrders /\ inHand'.symbol = inHand.symbol /\ inHand'.side = inHand.side /\ inHand'.left = 0
    BY <1>5, <2>1 DEF HandOrders
  <2>3. UnitTypes'
    BY <1>1, <1>5, <2>2 DEF UnitTypes
  <2> QED
    BY <1>1, <1>2, <1>5, <2>2, <2>3, UnitsNone DEF BrokerMoves, Live
<1> QED
  BY <1>3, <1>4, <1>5 DEF OrdersEnd

(* The broker fills or ends orders.                                        *)
LEMMA BrokerKeeps ==
  ASSUME AloneInv, Broker
  PROVE  /\ AloneInv'
         /\ \A z \in Symbols : held'[z] + Live(z, "buy")' =< held[z] + Live(z, "buy")
<1>1. UNCHANGED <<openRows, phase, account, plan, mislaid>>
  BY DEF Broker, Fill, FillStray, FillInHand, OrdersEnd
<1>2. UnitTypes /\ UnitTypes' /\ \A z \in Symbols : BrokerMoves(z)
  BY FillMoves, FillStrayMoves, FillInHandMoves, EndMoves DEF Broker, AloneInv
<1>3. HandIsSubmitting'
  <2>1. inHand = NoOrder => inHand' = NoOrder
    BY DEF Broker, Fill, FillStray, FillInHand, OrdersEnd, NoOrder
  <2> QED
    BY <1>1, <2>1 DEF AloneInv, HandIsSubmitting
<1>4. \A z \in Symbols :
        /\ held[z] \in Int /\ held'[z] \in Int /\ account[z] \in Int /\ plan[z] \in Int
        /\ stray[z].buy \in Nat /\ stray[z].sell \in Nat
        /\ stray'[z].buy \in Nat /\ stray'[z].sell \in Nat
        /\ mislaid[z].buy \in Nat /\ mislaid[z].sell \in Nat
        /\ Live(z, "buy") \in Nat /\ Live(z, "sell") \in Nat
  BY <1>2, LiveNat, UnitsNone DEF UnitTypes, LiveIsNat
<1>5. \A z \in Symbols : Live(z, "buy")' \in Nat /\ Live(z, "sell")' \in Nat
  <2>1. (UnitTypes => LiveIsNat)'
    BY LiveNat, PTL
  <2> QED
    BY <1>2, <2>1 DEF LiveIsNat
<1>6. RestingIsOpen'
  BY <1>1, <1>2 DEF AloneInv, RestingIsOpen, BrokerMoves
<1>7. StrayIsMislaid'
  BY <1>1, <1>2, <1>4 DEF AloneInv, StrayIsMislaid, BrokerMoves
<1>8. AccountIsCurrent'
  <2> SUFFICES ASSUME phase = "positions", NEW z \in Symbols \ openRows
               PROVE  /\ account[z] + stray'[z].sell =< held'[z] + mislaid[z].sell
                      /\ held'[z] + stray'[z].buy =< account[z] + mislaid[z].buy
    BY <1>1 DEF AccountIsCurrent
  <2>1. resting[z] = NoUnits /\ inHand = NoOrder
    BY DEF AloneInv, RestingIsOpen, HandIsSubmitting
  <2> QED
    BY <1>2, <1>4, <2>1 DEF AloneInv, AccountIsCurrent, BrokerMoves
<1>9. SalesAreHeld'
  BY <1>1, <1>2, <1>4, <1>5 DEF AloneInv, SalesAreHeld, AtLeastZero, BrokerMoves
<1>10. BuysAreRoomed' /\ \A z \in Symbols : held'[z] + Live(z, "buy")' =< held[z] + Live(z, "buy")
  BY <1>1, <1>2, <1>4, <1>5, LimitsAssumption DEF AloneInv, BuysAreRoomed, BrokerMoves
<1> QED
  BY <1>2, <1>3, <1>6, <1>7, <1>8, <1>9, <1>10 DEF AloneInv

(* Steps that leave the live orders, the holdings, the account's reading   *)
(* and the mislaid orders alone, and at most drop the plan.                *)
LEMMA QuietKeeps ==
  ASSUME AloneInv, UNCHANGED orders, plan' = plan \/ plan' = Nothing,
         account' \in [Symbols -> Int], RestingIsOpen', HandIsSubmitting', AccountIsCurrent'
  PROVE  AloneInv'
<1>1. UNCHANGED <<held, resting, inHand, stray, mislaid>>
  BY DEF orders
<1>2. UnitTypes'
  BY <1>1 DEF AloneInv, UnitTypes, Nothing
<1>3. \A s \in Symbols :
        /\ held[s] \in Int /\ plan[s] \in Int /\ mislaid[s].sell \in Nat
        /\ Live(s, "buy") \in Nat /\ Live(s, "sell") \in Nat
        /\ Live(s, "buy")' = Live(s, "buy") /\ Live(s, "sell")' = Live(s, "sell")
        /\ plan'[s] = plan[s] \/ plan'[s] = 0
  BY <1>1, LiveNat, UnitsNone DEF AloneInv, UnitTypes, LiveIsNat, Live, Nothing
<1>4. SalesAreHeld'
  BY <1>1, <1>3 DEF AloneInv, SalesAreHeld, AtLeastZero
<1>5. BuysAreRoomed'
  BY <1>1, <1>3 DEF AloneInv, BuysAreRoomed
<1>6. StrayIsMislaid'
  BY <1>1 DEF AloneInv, StrayIsMislaid
<1> QED
  BY <1>2, <1>4, <1>5, <1>6 DEF AloneInv

(* The tick's own steps up to the evaluation, and its closing              *)
(* reconciliation.                                                         *)
LEMMA PrepareKeeps ==
  ASSUME AloneInv, BuildTick \/ Reconcile \/ FetchPositions
  PROVE  AloneInv' /\ UNCHANGED orders
<1>1. UNCHANGED orders /\ UNCHANGED <<held, resting, inHand, stray, mislaid>> /\ plan' = plan
  BY DEF BuildTick, Reconcile, FetchPositions, orders
<1>2. RestingIsOpen'
  BY <1>1 DEF BuildTick, Reconcile, BookFills, FetchPositions, AloneInv, RestingIsOpen
<1>3. HandIsSubmitting'
  BY <1>1 DEF BuildTick, Reconcile, FetchPositions, AloneInv, HandIsSubmitting
<1>4. AccountIsCurrent'
  <2>1. CASE FetchPositions
    <3>1. account' = held /\ UNCHANGED <<openRows, held, stray, mislaid>>
      BY <1>1, <2>1 DEF FetchPositions
    <3>2. \A s \in Symbols :
            /\ held[s] \in Int
            /\ stray[s].buy \in Nat /\ stray[s].sell \in Nat
            /\ mislaid[s].buy \in Nat /\ mislaid[s].sell \in Nat
      BY UnitsNone DEF AloneInv, UnitTypes
    <3> QED
      BY <3>1, <3>2 DEF AloneInv, AccountIsCurrent, StrayIsMislaid
  <2>2. CASE BuildTick \/ Reconcile
    BY <2>2 DEF BuildTick, Reconcile, AccountIsCurrent
  <2> QED
    BY <2>1, <2>2
<1>5. account' \in [Symbols -> Int]
  BY DEF BuildTick, Reconcile, FetchPositions, AloneInv, UnitTypes
<1> QED
  BY <1>1, <1>2, <1>3, <1>4, <1>5, QuietKeeps

(* The evaluation plans only in symbols whose account it knows, but for    *)
(* their strays.                                                           *)
LEMMA EvaluateKeeps ==
  ASSUME AloneInv, Evaluate
  PROVE  AloneInv' /\ UNCHANGED orders
<1>1. /\ UNCHANGED orders
      /\ UNCHANGED <<held, resting, inHand, stray, mislaid, openRows, account>>
      /\ phase = "positions" /\ phase' = "submitting"
  BY DEF Evaluate, orders
<1>2. plan' \in [Symbols -> Int]
  BY BoundsAssumption DEF Evaluate
<1>3. UnitTypes' /\ RestingIsOpen' /\ HandIsSubmitting' /\ AccountIsCurrent' /\ StrayIsMislaid'
  BY <1>1, <1>2 DEF AloneInv, UnitTypes, RestingIsOpen, HandIsSubmitting, AccountIsCurrent, StrayIsMislaid
<1>4. ASSUME NEW s \in Symbols
      PROVE  /\ Live(s, "sell") + AtLeastZero(-plan'[s]) =< held[s] + mislaid[s].sell
             /\ plan'[s] > 0
                  => held[s] + Live(s, "buy") + plan'[s] =< MaxSymbol + mislaid[s].buy
  <2>1. /\ held[s] \in Int /\ account[s] \in Int /\ plan[s] \in Int /\ plan'[s] \in Int
        /\ stray[s].buy \in Nat /\ stray[s].sell \in Nat
        /\ mislaid[s].buy \in Nat /\ mislaid[s].sell \in Nat
        /\ Live(s, "buy") \in Nat /\ Live(s, "sell") \in Nat
    BY <1>2, LiveNat, UnitsNone DEF AloneInv, UnitTypes, LiveIsNat
  <2>2. Live(s, "sell") =< held[s] + mislaid[s].sell
    BY <2>1 DEF AloneInv, SalesAreHeld, AtLeastZero
  <2>3. CASE s \in openRows
    <3>1. plan'[s] = 0
      BY <2>3 DEF Evaluate, HeldBack
    <3> QED
      BY <2>1, <2>2, <3>1 DEF AtLeastZero
  <2>4. CASE s \notin openRows
    <3>1. resting[s] = NoUnits /\ inHand = NoOrder
      BY <1>1, <2>4 DEF AloneInv, RestingIsOpen, HandIsSubmitting
    <3>2. Live(s, "buy") = stray[s].buy /\ Live(s, "sell") = stray[s].sell
      BY <2>1, <3>1, UnitsNone DEF Live, NoOrder
    <3>3. /\ account[s] + stray[s].sell =< held[s] + mislaid[s].sell
          /\ held[s] + stray[s].buy =< account[s] + mislaid[s].buy
      BY <1>1, <2>4 DEF AloneInv, AccountIsCurrent
    <3>4. -plan'[s] =< AtLeastZero(account[s]) /\ plan'[s] =< AtLeastZero(MaxSymbol - AtLeastZero(account[s]))
      BY DEF Evaluate, SellRoom, BuyRoom
    <3> QED
      BY <2>1, <2>2, <3>2, <3>3, <3>4, LimitsAssumption DEF AtLeastZero
  <2> QED
    BY <2>3, <2>4
<1>5. \A s \in Symbols : Live(s, "buy")' = Live(s, "buy") /\ Live(s, "sell")' = Live(s, "sell")
  BY <1>1 DEF Live
<1>6. SalesAreHeld' /\ BuysAreRoomed'
  BY <1>1, <1>4, <1>5 DEF SalesAreHeld, BuysAreRoomed
<1> QED
  BY <1>1, <1>3, <1>6 DEF AloneInv

(* What an order of k units of a symbol does to what lives there, to what  *)
(* is mislaid and to what is still planned: it lives by no more than its   *)
(* units, and what is mislaid is among them.                               *)
SendMoves(s, side, k) ==
  /\ UNCHANGED <<held, resting, account, openRows, phase>>
  /\ \A z \in Symbols \ {s} :
       /\ plan'[z] = plan[z] /\ mislaid'[z] = mislaid[z]
       /\ stray'[z] = stray[z]
       /\ Live(z, "buy")' = Live(z, "buy") /\ Live(z, "sell")' = Live(z, "sell")
  /\ plan'[s] = plan[s] - Signed(side, k)
  /\ stray'[s].buy - stray[s].buy = mislaid'[s].buy - mislaid[s].buy
  /\ stray'[s].sell - stray[s].sell = mislaid'[s].sell - mislaid[s].sell
  /\ mislaid'[s].buy >= mislaid[s].buy /\ mislaid'[s].sell >= mislaid[s].sell
  /\ Live(s, "buy")' =< Live(s, "buy") + (IF side = "buy" THEN k ELSE 0)
  /\ Live(s, "sell")' =< Live(s, "sell") + (IF side = "sell" THEN k ELSE 0)

(* The order is accepted, astray from the start, or refused.               *)
LEMMA SubmitMoves ==
  ASSUME AloneInv, NEW s \in Symbols, NEW side \in Sides, NEW k \in 1 .. MaxPlan,
         Submit(s, side, k)
  PROVE  UnitTypes' /\ SendMoves(s, side, k)
<1>1. /\ UNCHANGED <<held, resting, account, openRows, phase>>
      /\ inHand = NoOrder /\ plan' = [plan EXCEPT ![s] = @ - Signed(side, k)]
  BY DEF Submit, TakeFromPlan
<1>2. k \in Nat /\ k > 0 /\ Signed(side, k) \in Int
  BY BoundsAssumption DEF Signed
<1>3. /\ plan' \in [Symbols -> Int]
      /\ plan'[s] = plan[s] - Signed(side, k)
      /\ \A z \in Symbols \ {s} : plan'[z] = plan[z]
  BY <1>1, <1>2 DEF AloneInv, UnitTypes
<1>4. ASSUME NEW z \in Symbols
      PROVE  /\ resting[z] \in Units /\ stray[z] \in Units /\ mislaid[z] \in Units
             /\ Live(z, "buy") = resting[z].buy + stray[z].buy
             /\ Live(z, "sell") = resting[z].sell + stray[z].sell
             /\ Live(z, "buy") \in Nat /\ Live(z, "sell") \in Nat
  <2>1. resting[z] \in Units /\ stray[z] \in Units /\ mislaid[z] \in Units
    BY DEF AloneInv, UnitTypes
  <2> QED
    BY <1>1, <2>1, UnitsNone DEF Live, NoOrder
<1>5. CASE Accept(s, side, k) /\ UNCHANGED <<stray, mislaid>>
  <2>1. inHand' = [symbol |-> s, side |-> side, left |-> k]
    BY <1>5 DEF Accept
  <2>2. UnitTypes'
    BY <1>1, <1>2, <1>3, <1>5, <2>1 DEF AloneInv, UnitTypes, HandOrders
  <2>3. inHand'.symbol = s /\ inHand'.side = side /\ inHand'.left = k
    BY <2>1
  <2>4. \A z \in Symbols : /\ resting'[z] = resting[z] /\ stray'[z] = stray[z]
                           /\ mislaid'[z] = mislaid[z]
    BY <1>1, <1>5
  <2>5. \A z \in Symbols \ {s} : Live(z, "buy")' = Live(z, "buy") /\ Live(z, "sell")' = Live(z, "sell")
    BY <1>2, <1>4, <2>3, <2>4, UnitsNone DEF Live
  <2>6. /\ Live(s, "buy")' = Live(s, "buy") + (IF side = "buy" THEN k ELSE 0)
        /\ Live(s, "sell")' = Live(s, "sell") + (IF side = "sell" THEN k ELSE 0)
    BY <1>2, <1>4, <2>3, <2>4, UnitsNone DEF Live
  <2> QED
    BY <1>1, <1>2, <1>3, <1>4, <2>2, <2>4, <2>5, <2>6, UnitsNone DEF SendMoves
<1>6. CASE Mislay(s, side, k) /\ UNCHANGED inHand
  <2>1. /\ Plus(stray[s], side, k) \in Units /\ Plus(mislaid[s], side, k) \in Units
        /\ Plus(stray[s], side, k).buy = stray[s].buy + (IF side = "buy" THEN k ELSE 0)
        /\ Plus(stray[s], side, k).sell = stray[s].sell + (IF side = "sell" THEN k ELSE 0)
        /\ Plus(mislaid[s], side, k).buy = mislaid[s].buy + (IF side = "buy" THEN k ELSE 0)
        /\ Plus(mislaid[s], side, k).sell = mislaid[s].sell + (IF side = "sell" THEN k ELSE 0)
    <3>1. stray[s][side] + k >= 0 /\ mislaid[s][side] + k >= 0 /\ k \in Int
      BY <1>2, <1>4, UnitsNone DEF Sides
    <3> QED
      BY <1>4, <3>1, UnitsPlus
  <2>2. UnitTypes'
    BY <1>1, <1>3, <1>6, <2>1 DEF AloneInv, UnitTypes, Mislay
  <2>3. /\ stray'[s] = Plus(stray[s], side, k) /\ mislaid'[s] = Plus(mislaid[s], side, k)
        /\ \A z \in Symbols \ {s} : stray'[z] = stray[z] /\ mislaid'[z] = mislaid[z]
    BY <1>6 DEF AloneInv, UnitTypes, Mislay
  <2>4. \A z \in Symbols \ {s} : Live(z, "buy")' = Live(z, "buy") /\ Live(z, "sell")' = Live(z, "sell")
    BY <1>1, <1>6, <2>3 DEF Live
  <2>5. /\ Live(s, "buy")' = Live(s, "buy") + (IF side = "buy" THEN k ELSE 0)
        /\ Live(s, "sell")' = Live(s, "sell") + (IF side = "sell" THEN k ELSE 0)
    <3>1. inHand'.left = 0 /\ inHand'.side \notin {"buy", "sell"}
      BY <1>1, <1>6 DEF NoOrder
    <3> QED
      BY <1>1, <1>2, <1>4, <2>1, <2>3, <3>1, UnitsNone DEF Live
  <2> QED
    BY <1>1, <1>2, <1>3, <1>4, <2>1, <2>2, <2>3, <2>4, <2>5, UnitsNone DEF SendMoves
<1>7. CASE UNCHANGED <<inHand, stray, mislaid>>
  <2>1. UnitTypes'
    BY <1>1, <1>3, <1>7 DEF AloneInv, UnitTypes
  <2>2. \A z \in Symbols :
          /\ Live(z, "buy")' = Live(z, "buy") /\ Live(z, "sell")' = Live(z, "sell")
          /\ stray'[z] = stray[z] /\ mislaid'[z] = mislaid[z]
    BY <1>1, <1>7 DEF Live
  <2> QED
    BY <1>1, <1>2, <1>3, <1>4, <2>1, <2>2, UnitsNone DEF SendMoves
<1> QED
  BY <1>5, <1>6, <1>7 DEF Submit

(* An intent takes its units out of the plan, and lives or is dropped.     *)
LEMMA SubmitKeeps ==
  ASSUME AloneInv, NEW s \in Symbols, NEW side \in Sides, NEW k \in 1 .. MaxPlan,
         Submit(s, side, k)
  PROVE  /\ AloneInv'
         /\ \A z \in Symbols : held'[z] + Live(z, "buy")' > held[z] + Live(z, "buy")
              => held'[z] + Live(z, "buy")' =< MaxSymbol + mislaid'[z].buy
<1>1. UnitTypes' /\ SendMoves(s, side, k)
  BY SubmitMoves
<1>2. /\ phase = "submitting" /\ k \in Nat /\ k > 0 /\ k =< Signed(side, plan[s])
      /\ UNCHANGED <<held, resting, account, openRows, phase>>
  BY <1>1, BoundsAssumption DEF Submit, SendMoves
<1>3. \A z \in Symbols :
        /\ held[z] \in Int /\ plan[z] \in Int /\ plan'[z] \in Int
        /\ stray[z].buy \in Nat /\ stray[z].sell \in Nat
        /\ stray'[z].buy \in Nat /\ stray'[z].sell \in Nat
        /\ mislaid[z].buy \in Nat /\ mislaid[z].sell \in Nat
        /\ mislaid'[z].buy \in Nat /\ mislaid'[z].sell \in Nat
        /\ Live(z, "buy") \in Nat /\ Live(z, "sell") \in Nat
  BY <1>1, LiveNat, UnitsNone DEF AloneInv, UnitTypes, LiveIsNat
<1>4. \A z \in Symbols : Live(z, "buy")' \in Nat /\ Live(z, "sell")' \in Nat
  <2>1. (UnitTypes => LiveIsNat)'
    BY LiveNat, PTL
  <2> QED
    BY <1>1, <2>1 DEF LiveIsNat
<1>5. side = "buy" \/ side = "sell"
  BY DEF Sides
<1>6. RestingIsOpen' /\ HandIsSubmitting' /\ AccountIsCurrent'
  BY <1>2 DEF AloneInv, RestingIsOpen, HandIsSubmitting, AccountIsCurrent
<1>7. StrayIsMislaid'
  BY <1>1, <1>3 DEF AloneInv, StrayIsMislaid, SendMoves
<1>8. SalesAreHeld'
  <2>1. ASSUME NEW z \in Symbols
        PROVE Live(z, "sell")' + AtLeastZero(-plan'[z]) =< held[z] + mislaid'[z].sell
    <3>1. Live(z, "sell") + AtLeastZero(-plan[z]) =< held[z] + mislaid[z].sell
      BY DEF AloneInv, SalesAreHeld
    <3>2. CASE z # s
      BY <1>1, <3>1, <3>2 DEF SendMoves
    <3>3. CASE z = s
      BY <1>1, <1>2, <1>3, <1>4, <1>5, <3>1, <3>3 DEF SendMoves, Signed, AtLeastZero
    <3> QED
      BY <3>2, <3>3
  <2> QED
    BY <1>2, <2>1 DEF SalesAreHeld
<1>9. ASSUME NEW z \in Symbols
      PROVE /\ plan'[z] > 0
                 => held[z] + Live(z, "buy")' + plan'[z] =< MaxSymbol + mislaid'[z].buy
            /\ Live(z, "buy")' > Live(z, "buy")
                 => held[z] + Live(z, "buy")' =< MaxSymbol + mislaid'[z].buy
  <2>1. plan[z] > 0 => held[z] + Live(z, "buy") + plan[z] =< MaxSymbol + mislaid[z].buy
    BY DEF AloneInv, BuysAreRoomed
  <2>2. CASE z # s
    BY <1>1, <1>3, <2>1, <2>2 DEF SendMoves
  <2>3. CASE z = s
    BY <1>1, <1>2, <1>3, <1>4, <1>5, <2>1, <2>3, LimitsAssumption DEF SendMoves, Signed
  <2> QED
    BY <2>2, <2>3
<1>10. BuysAreRoomed'
  BY <1>2, <1>9 DEF BuysAreRoomed
<1>11. \A z \in Symbols : held'[z] + Live(z, "buy")' > held[z] + Live(z, "buy")
              => held'[z] + Live(z, "buy")' =< MaxSymbol + mislaid'[z].buy
  BY <1>2, <1>3, <1>4, <1>9
<1> QED
  BY <1>1, <1>6, <1>7, <1>8, <1>10, <1>11 DEF AloneInv

(* The row commits: what was in hand now rests with an open row.           *)
LEMMA RecordKeeps ==
  ASSUME AloneInv, Record
  PROVE  AloneInv' /\ held' = held /\ \A z \in Symbols : Live(z, "buy")' = Live(z, "buy")
<1> PICK s, side, left : s = inHand.symbol /\ side = inHand.side /\ left = inHand.left
  OBVIOUS
<1>1. /\ s \in Symbols /\ side \in Sides /\ left \in Nat /\ inHand' = NoOrder
      /\ resting' = [resting EXCEPT ![s] = Plus(@, side, left)]
      /\ UNCHANGED <<held, stray, mislaid, phase, account, plan>>
  BY HandFields DEF Record, AloneInv
<1>2. /\ resting[s] \in Units /\ Plus(resting[s], side, left) \in Units
      /\ Plus(resting[s], side, left).buy = resting[s].buy + (IF side = "buy" THEN left ELSE 0)
      /\ Plus(resting[s], side, left).sell = resting[s].sell + (IF side = "sell" THEN left ELSE 0)
  <2>1. resting[s] \in Units /\ left \in Int
    BY <1>1 DEF AloneInv, UnitTypes
  <2>2. resting[s][side] + left >= 0
    BY <1>1, <2>1, UnitsNone DEF Sides
  <2> QED
    BY <1>1, <2>1, <2>2, UnitsPlus
<1>3. UnitTypes'
  BY <1>1, <1>2 DEF AloneInv, UnitTypes
<1>4. /\ resting'[s] = Plus(resting[s], side, left)
      /\ \A z \in Symbols \ {s} : resting'[z] = resting[z]
  BY <1>1 DEF AloneInv, UnitTypes
<1>5. ASSUME NEW z \in Symbols
      PROVE Live(z, "buy")' = Live(z, "buy") /\ Live(z, "sell")' = Live(z, "sell")
  <2>1. /\ resting[z] \in Units /\ stray[z] \in Units /\ stray'[z] = stray[z]
        /\ resting'[z] \in Units
    BY <1>1, <1>3 DEF AloneInv, UnitTypes
  <2>2. inHand'.left = 0 /\ inHand'.side \notin {"buy", "sell"}
    BY <1>1 DEF NoOrder
  <2> QED
    BY <1>1, <1>2, <1>4, <2>1, <2>2, UnitsNone DEF Live, Sides
<1>6. RestingIsOpen'
  <2>1. CASE openRows' = openRows \cup {s}
    BY <1>4, <2>1 DEF AloneInv, RestingIsOpen
  <2>2. CASE left = 0 /\ UNCHANGED openRows
    <3>1. resting'[s] = resting[s]
      BY <1>2, <1>4, <2>2, UnitsNone DEF Plus, Units
    <3> QED
      BY <1>4, <2>2, <3>1 DEF AloneInv, RestingIsOpen
  <2> QED
    BY <2>1, <2>2 DEF Record
<1>7. HandIsSubmitting' /\ AccountIsCurrent'
  <2>1. phase = "submitting"
    BY DEF Record, AloneInv, HandIsSubmitting
  <2> QED
    BY <1>1, <2>1 DEF HandIsSubmitting, AccountIsCurrent
<1>8. StrayIsMislaid' /\ SalesAreHeld' /\ BuysAreRoomed'
  BY <1>1, <1>5 DEF AloneInv, StrayIsMislaid, SalesAreHeld, BuysAreRoomed
<1> QED
  BY <1>1, <1>3, <1>5, <1>6, <1>7, <1>8 DEF AloneInv

(* The tick ends: what is left in hand goes astray.                        *)
LEMMA EndTickKeeps ==
  ASSUME AloneInv, EndTick
  PROVE  AloneInv' /\ held' = held /\ \A z \in Symbols : Live(z, "buy")' = Live(z, "buy")
<1>1. /\ inHand' = NoOrder /\ phase' = "idle" /\ plan' = Nothing
      /\ UNCHANGED <<held, resting, account, openRows>>
  BY DEF EndTick
<1>2. Nothing \in [Symbols -> Int] /\ \A z \in Symbols : plan'[z] = 0
  BY <1>1 DEF Nothing
<1>3. \A z \in Symbols :
        /\ held[z] \in Int /\ plan[z] \in Int
        /\ resting[z] \in Units /\ stray[z] \in Units /\ mislaid[z] \in Units
        /\ Live(z, "buy") \in Nat /\ Live(z, "sell") \in Nat
  BY LiveNat DEF AloneInv, UnitTypes, LiveIsNat
<1>4. inHand'.left = 0 /\ inHand'.side \notin {"buy", "sell"} /\ inHand.left \in Nat
  BY <1>1, HandFields DEF NoOrder, AloneInv
<1>5. CASE inHand.left > 0
  <2> PICK s, side, left : s = inHand.symbol /\ side = inHand.side /\ left = inHand.left
    OBVIOUS
  <2>1. s \in Symbols /\ side \in Sides /\ left \in Nat /\ left > 0 /\ Mislay(s, side, left)
    BY <1>5, HandFields DEF EndTick, AloneInv
  <2>2. /\ Plus(stray[s], side, left) \in Units /\ Plus(mislaid[s], side, left) \in Units
        /\ Plus(stray[s], side, left).buy = stray[s].buy + (IF side = "buy" THEN left ELSE 0)
        /\ Plus(stray[s], side, left).sell = stray[s].sell + (IF side = "sell" THEN left ELSE 0)
        /\ Plus(mislaid[s], side, left).buy = mislaid[s].buy + (IF side = "buy" THEN left ELSE 0)
        /\ Plus(mislaid[s], side, left).sell = mislaid[s].sell + (IF side = "sell" THEN left ELSE 0)
    <3>1. stray[s] \in Units /\ mislaid[s] \in Units /\ left \in Int
      BY <1>3, <2>1
    <3>2. stray[s][side] + left >= 0 /\ mislaid[s][side] + left >= 0
      BY <2>1, <3>1, UnitsNone DEF Sides
    <3> QED
      BY <2>1, <3>1, <3>2, UnitsPlus
  <2>3. UnitTypes'
    BY <1>1, <1>2, <2>1, <2>2 DEF AloneInv, UnitTypes, Mislay
  <2>4. /\ stray'[s] = Plus(stray[s], side, left) /\ mislaid'[s] = Plus(mislaid[s], side, left)
        /\ \A z \in Symbols \ {s} : stray'[z] = stray[z] /\ mislaid'[z] = mislaid[z]
    BY <2>1 DEF AloneInv, UnitTypes, Mislay
  <2>5. ASSUME NEW z \in Symbols
        PROVE Live(z, "buy")' = Live(z, "buy") /\ Live(z, "sell")' = Live(z, "sell")
    <3>1. resting'[z] = resting[z] /\ (side = "buy" \/ side = "sell")
      BY <1>1, <2>1 DEF Sides
    <3> QED
      BY <1>3, <1>4, <2>1, <2>2, <2>4, <3>1, UnitsNone DEF Live
  <2>6. StrayIsMislaid'
    BY <1>3, <2>1, <2>2, <2>4, UnitsNone DEF AloneInv, StrayIsMislaid
  <2>7. \A z \in Symbols : mislaid'[z].sell >= mislaid[z].sell /\ mislaid'[z].sell \in Nat /\ mislaid[z].sell \in Nat
    BY <1>3, <2>1, <2>2, <2>4, UnitsNone
  <2>8. SalesAreHeld' /\ BuysAreRoomed'
    BY <1>1, <1>2, <1>3, <2>5, <2>7 DEF AloneInv, SalesAreHeld, BuysAreRoomed, AtLeastZero
  <2>9. RestingIsOpen' /\ HandIsSubmitting' /\ AccountIsCurrent'
    BY <1>1 DEF AloneInv, RestingIsOpen, HandIsSubmitting, AccountIsCurrent
  <2> QED
    BY <1>1, <2>3, <2>5, <2>6, <2>8, <2>9 DEF AloneInv
<1>6. CASE inHand.left = 0
  <2>1. UNCHANGED <<stray, mislaid>>
    BY <1>6 DEF EndTick
  <2>2. UnitTypes'
    BY <1>1, <1>2, <2>1 DEF AloneInv, UnitTypes
  <2>3. \A z \in Symbols : Live(z, "buy")' = Live(z, "buy") /\ Live(z, "sell")' = Live(z, "sell")
    BY <1>1, <1>3, <1>4, <1>6, <2>1, UnitsNone DEF Live
  <2>4. \A z \in Symbols : mislaid[z].sell \in Nat /\ mislaid[z].buy \in Nat
    BY <1>3, UnitsNone
  <2>5. SalesAreHeld' /\ BuysAreRoomed'
    BY <1>1, <1>2, <1>3, <2>1, <2>3, <2>4 DEF AloneInv, SalesAreHeld, BuysAreRoomed, AtLeastZero
  <2>6. RestingIsOpen' /\ HandIsSubmitting' /\ AccountIsCurrent' /\ StrayIsMislaid'
    BY <1>1, <2>1 DEF AloneInv, RestingIsOpen, HandIsSubmitting, AccountIsCurrent, StrayIsMislaid
  <2> QED
    BY <1>1, <2>2, <2>3, <2>5, <2>6 DEF AloneInv
<1> QED
  BY <1>4, <1>5, <1>6

(* What a step may do to a symbol's holding and its live buys.             *)
Growth ==
  \A s \in Symbols :
    ~overlap /\ held'[s] + Live(s, "buy")' > held[s] + Live(s, "buy")
      => held'[s] + Live(s, "buy")' =< MaxSymbol + mislaid'[s].buy

(* RiskInv is inductive, and under it a symbol grows within its cap.      *)
LEMMA RiskStep == ASSUME RiskInv, [Next]_vars PROVE RiskInv' /\ [Growth]_vars
<1>1. UNCHANGED overlap
  BY DEF Next, Broker, Fill, FillStray, FillInHand, OrdersEnd, Tick, BuildTick, Reconcile,
     FetchPositions, Evaluate, Record, EndTick, Submit, OtherReconciles, vars
<1>2. CASE overlap
  BY <1>1, <1>2 DEF RiskInv, Growth
<1>3. CASE ~overlap
  <2>1. AloneInv
    BY <1>3 DEF RiskInv
  <2>2. \A s \in Symbols : held[s] + Live(s, "buy") \in Int
    BY <2>1, LiveNat DEF AloneInv, UnitTypes, LiveIsNat
  <2>3. AloneInv' => \A s \in Symbols : held'[s] + Live(s, "buy")' \in Int
    <3>1. (UnitTypes => LiveIsNat)'
      BY LiveNat, PTL
    <3> QED
      BY <3>1 DEF AloneInv, UnitTypes, LiveIsNat
  <2>4. CASE Broker
    <3>1. AloneInv' /\ \A z \in Symbols : held'[z] + Live(z, "buy")' =< held[z] + Live(z, "buy")
      BY <2>1, <2>4, BrokerKeeps
    <3>2. Growth
      BY <2>2, <2>3, <3>1 DEF Growth
    <3> QED
      BY <3>1, <3>2 DEF RiskInv
  <2>5. CASE UNCHANGED vars
    <3>1. UNCHANGED <<orders, plan, account, openRows, phase>>
      BY <2>5 DEF vars, orders
    <3>2. UNCHANGED <<held, resting, inHand, stray, mislaid>>
      BY <3>1 DEF orders
    <3>3. RestingIsOpen' /\ HandIsSubmitting' /\ AccountIsCurrent' /\ account' \in [Symbols -> Int]
      BY <2>1, <3>1, <3>2 DEF AloneInv, UnitTypes, RestingIsOpen, HandIsSubmitting, AccountIsCurrent
    <3>4. AloneInv'
      BY <2>1, <3>1, <3>3, QuietKeeps
    <3> QED
      BY <2>5, <3>4 DEF RiskInv
  <2>6. CASE BuildTick \/ Reconcile \/ FetchPositions \/ Evaluate \/ Record \/ EndTick
    <3>1. AloneInv' /\ held' = held /\ \A z \in Symbols : Live(z, "buy")' = Live(z, "buy")
      <4>1. CASE BuildTick \/ Reconcile \/ FetchPositions \/ Evaluate
        <5>1. AloneInv' /\ UNCHANGED orders
          BY <2>1, <4>1, PrepareKeeps, EvaluateKeeps
        <5> QED
          BY <5>1 DEF orders, Live
      <4>2. CASE Record \/ EndTick
        BY <2>1, <4>2, RecordKeeps, EndTickKeeps
      <4> QED
        BY <2>6, <4>1, <4>2
    <3>2. Growth
      BY <2>2, <3>1 DEF Growth
    <3> QED
      BY <3>1, <3>2 DEF RiskInv
  <2>7. CASE \E s \in Symbols, side \in Sides, k \in 1 .. MaxPlan : Submit(s, side, k)
    <3>1. AloneInv' /\ Growth
      BY <2>1, <2>7, SubmitKeeps DEF Growth
    <3> QED
      BY <3>1 DEF RiskInv
  <2> QED
    BY <1>3, <2>4, <2>5, <2>6, <2>7 DEF Next, Tick, OtherReconciles
<1> QED
  BY <1>2, <1>3

(* RiskInv holds in every reachable state.                                *)
LEMMA RiskInvIsInvariant == Spec => []RiskInv
<1>1. RiskInv /\ [Next]_vars => RiskInv'
  BY RiskStep
<1> QED
  BY RiskInit, <1>1, PTL DEF Spec

(* When nobody else reconciles, whatever fills when and however many ticks *)
(* sell, and wherever they fail, the sales that live exceed the holding by *)
(* no more than the sales left without a row: hold-back and sell clamp     *)
(* sell nothing else twice.                                                *)
THEOREM ShortIsOfStrays == Spec => []ShortOnlyByStrays
<1>1. RiskInv => ShortOnlyByStrays
  <2> SUFFICES ASSUME AloneInv, NEW s \in Symbols
               PROVE  Live(s, "sell") =< held[s] + mislaid[s].sell
    BY DEF RiskInv, ShortOnlyByStrays
  <2>1. /\ held[s] \in Int /\ plan[s] \in Int /\ mislaid[s].sell \in Nat
        /\ Live(s, "sell") \in Nat
    BY LiveNat, UnitsNone DEF AloneInv, UnitTypes, LiveIsNat
  <2> QED
    BY <2>1 DEF AloneInv, SalesAreHeld, AtLeastZero
<1> QED
  BY <1>1, RiskInvIsInvariant, PTL

(* Nor does a symbol's holding with its live buys grow past the symbol     *)
(* cap by more than the buys left without a row, however many ticks buy    *)
(* it: what one tick left resting, the next one holds back.                *)
THEOREM CapIsPassedByStraysOnly == Spec => GrowsPastCapByStraysOnly
<1>1. RiskInv /\ [Next]_vars => [Growth]_vars
  BY RiskStep
<1> QED
  BY <1>1, RiskInvIsInvariant, PTL DEF Spec, GrowsPastCapByStraysOnly, Growth

-----------------------------------------------------------------------------
(* The risk state the checks read, whoever else reconciles.                *)

(* The gross figure is the sum of the per-symbol ones.                     *)
GrossIsSum == gross = Sum(pending)

(* A noted sale takes off no more than the exposure that was there.        *)
ExposureIsReal == \A s \in Symbols : Abs(base[s]) + pending[s] >= 0

ReaderInv == TypeOK /\ GrossIsSum /\ ExposureIsReal /\ CapsHoldInTick

Opens == Sum([s \in Symbols |-> Abs(base[s])])

(* Nothing noted sums to zero.                                            *)
LEMMA NothingSums == Nothing \in [Symbols -> Int] /\ Sum(Nothing) = 0
<1>1. \A s \in Symbols : Nothing[s] = 0
  BY DEF Nothing
<1> QED
  BY <1>1, SumZero, SymbolsAssumption DEF Nothing, Sum

(* What the reader shows, from what it keeps.                              *)
LEMMA ReaderShows ==
  ASSUME TypeOK, GrossIsSum, ExposureIsReal
  PROVE  /\ Opens \in Nat /\ Opens + gross \in Nat
         /\ GrossExposure = Opens + gross
         /\ \A s \in Symbols : SymbolExposure(s) = Abs(base[s]) + pending[s]
         /\ GrossExposure = Sum([s \in Symbols |-> SymbolExposure(s)])
<1> DEFINE opening == [s \in Symbols |-> Abs(base[s])]
           shown == [s \in Symbols |-> SymbolExposure(s)]
<1>1. \A s \in Symbols : base[s] \in Int /\ pending[s] \in Int /\ Abs(base[s]) \in Nat
  BY DEF TypeOK, Abs
<1>2. \A s \in Symbols : SymbolExposure(s) = Abs(base[s]) + pending[s] /\ SymbolExposure(s) \in Nat
  BY <1>1 DEF ExposureIsReal, SymbolExposure, AtLeastZero
<1>3. \A s \in Symbols :
        opening[s] \in Nat /\ pending[s] \in Int /\ shown[s] \in Nat
        /\ shown[s] = opening[s] + pending[s]
  BY <1>1, <1>2
<1> HIDE DEF opening, shown
<1>4. SumOver(opening, Symbols) \in Nat
  BY <1>3, SumNat, SymbolsAssumption
<1>5. SumOver(shown, Symbols) \in Nat
  BY <1>3, SumNat, SymbolsAssumption
<1>6. SumOver(shown, Symbols) = SumOver(opening, Symbols) + SumOver(pending, Symbols)
  BY <1>3, SumPlus, SymbolsAssumption
<1>7. Opens = SumOver(opening, Symbols) /\ gross = SumOver(pending, Symbols)
  BY DEF Opens, opening, Sum, GrossIsSum
<1>8. GrossExposure = AtLeastZero(Opens + gross)
  BY DEF GrossExposure, Opens
<1>9. gross \in Int
  BY DEF TypeOK
<1>10. GrossExposure = Opens + gross /\ Opens + gross = SumOver(shown, Symbols)
  BY <1>4, <1>5, <1>6, <1>7, <1>8, <1>9 DEF AtLeastZero
<1>11. Sum([s \in Symbols |-> SymbolExposure(s)]) = SumOver(shown, Symbols)
  BY DEF shown, Sum
<1> QED
  BY <1>2, <1>4, <1>5, <1>7, <1>10, <1>11

(* The reader starts with nothing noted.                                  *)
LEMMA ReaderInit == Init => ReaderInv
<1> SUFFICES ASSUME Init PROVE ReaderInv
  OBVIOUS
<1>1. TypeOK
  <2>1. held \in [Symbols -> Int]
    <3>1. held \in [Symbols -> Opening] /\ Opening \subseteq Int
      BY OpeningAssumption DEF Init
    <3> QED
      BY <3>1
  <2>2. Nothing \in [Symbols -> Nat] /\ Nothing \in [Symbols -> -MaxPlan .. MaxPlan]
    BY BoundsAssumption DEF Nothing
  <2> QED
    BY <2>1, <2>2, UnitsNone, BoundsAssumption DEF Init, TypeOK, Phases
<1>2. GrossIsSum
  BY NothingSums DEF Init, GrossIsSum
<1>3. ExposureIsReal
  BY DEF Init, ExposureIsReal, Nothing, Abs
<1>4. CapsHoldInTick
  BY DEF Init, CapsHoldInTick, Nothing
<1> QED
  BY <1>1, <1>2, <1>3, <1>4 DEF ReaderInv

(* The reader changes only as a tick is built and as an order is noted.    *)
LEMMA ReaderUntouched ==
  ASSUME ReaderInv, TypeOK', UNCHANGED reader
  PROVE  ReaderInv'
<1>1. UNCHANGED <<base, pending, gross>>
  BY DEF reader
<1>2. GrossIsSum' /\ ExposureIsReal' /\ CapsHoldInTick'
  BY <1>1 DEF ReaderInv, GrossIsSum, ExposureIsReal, CapsHoldInTick, Sum
<1> QED
  BY <1>2 DEF ReaderInv

(* A step of the broker keeps the types.                                   *)
LEMMA BrokerTypes ==
  ASSUME TypeOK, Broker
  PROVE  TypeOK'
<1>1. UnitTypes
  BY BoundsAssumption DEF TypeOK, UnitTypes
<1>2. UnitTypes'
  BY <1>1, FillMoves, FillStrayMoves, FillInHandMoves, EndMoves DEF Broker
<1>3. UNCHANGED <<overlap, mislaid, booked, openRows, phase, base, pending, gross, account, plan, ticks>>
  BY DEF Broker, Fill, FillStray, FillInHand, OrdersEnd, reader
<1> QED
  BY <1>2, <1>3 DEF TypeOK, UnitTypes

(* A step of the tick's submission keeps the orders' types.                *)
LEMMA MislayTypes ==
  ASSUME TypeOK, NEW s \in Symbols, NEW side \in Sides, NEW k \in Nat, Mislay(s, side, k)
  PROVE  stray' \in [Symbols -> Units] /\ mislaid' \in [Symbols -> Units]
<1>1. stray[s] \in Units /\ mislaid[s] \in Units /\ k \in Int
  BY DEF TypeOK
<1>2. stray[s][side] + k >= 0 /\ mislaid[s][side] + k >= 0
  BY <1>1, UnitsNone DEF Sides
<1>3. Plus(stray[s], side, k) \in Units /\ Plus(mislaid[s], side, k) \in Units
  BY <1>1, <1>2, UnitsPlus
<1> QED
  BY <1>3 DEF TypeOK, Mislay

(* Every step keeps the types.                                             *)
LEMMA TypesKept ==
  ASSUME TypeOK, [Next]_vars
  PROVE  TypeOK'
<1>0. UnitTypes
  BY BoundsAssumption DEF TypeOK, UnitTypes
<1>1. CASE Broker
  BY <1>1, BrokerTypes
<1>2. CASE BuildTick
  BY <1>2, BoundsAssumption, NothingSums DEF BuildTick, TypeOK, orders, Phases
<1>3. CASE Reconcile \/ OtherReconciles
  BY <1>3 DEF Reconcile, OtherReconciles, BookFills, TypeOK, orders, reader, Phases
<1>4. CASE FetchPositions
  BY <1>4 DEF FetchPositions, TypeOK, orders, reader, Phases
<1>5. CASE Evaluate
  BY <1>5 DEF Evaluate, TypeOK, orders, reader, Phases
<1>6. CASE Record
  <2> PICK s, side, left : s = inHand.symbol /\ side = inHand.side /\ left = inHand.left
    OBVIOUS
  <2>1. /\ s \in Symbols /\ side \in Sides /\ left \in Nat
        /\ resting' = [resting EXCEPT ![s] = Plus(@, side, left)] /\ inHand' = NoOrder
        /\ UNCHANGED <<overlap, held, stray, mislaid, phase, base, pending, gross, account, plan, ticks>>
    BY <1>0, <1>6, HandFields DEF Record, reader
  <2>2. resting' \in [Symbols -> Units]
    <3>1. resting[s] \in Units /\ left \in Int
      BY <2>1 DEF TypeOK
    <3>2. resting[s][side] + left >= 0
      BY <2>1, <3>1, UnitsNone DEF Sides
    <3>3. Plus(resting[s], side, left) \in Units
      BY <2>1, <3>1, <3>2, UnitsPlus
    <3> QED
      BY <2>1, <3>3 DEF TypeOK
  <2>3. openRows' \subseteq Symbols /\ booked' \in [Symbols -> Int]
    BY <1>6, <2>1 DEF Record, TypeOK
  <2> QED
    BY <2>1, <2>2, <2>3 DEF TypeOK
<1>7. CASE EndTick
  <2>1. Nothing \in [Symbols -> -MaxPlan .. MaxPlan]
    BY BoundsAssumption DEF Nothing
  <2>2. stray' \in [Symbols -> Units] /\ mislaid' \in [Symbols -> Units]
    BY <1>0, <1>7, HandFields, MislayTypes DEF EndTick, TypeOK
  <2> QED
    BY <1>7, <2>1, <2>2 DEF EndTick, TypeOK, reader, Phases
<1>8. ASSUME NEW s \in Symbols, NEW side \in Sides, NEW k \in 1 .. MaxPlan, Submit(s, side, k)
      PROVE  TypeOK'
  <2>1. k \in Nat /\ k > 0 /\ plan[s] \in -MaxPlan .. MaxPlan /\ (side = "buy" \/ side = "sell")
    BY BoundsAssumption DEF TypeOK, Sides
  <2>2. plan' \in [Symbols -> -MaxPlan .. MaxPlan]
    <3>1. plan[s] - Signed(side, k) \in -MaxPlan .. MaxPlan
      BY <1>8, <2>1, BoundsAssumption DEF Submit, Signed
    <3> QED
      BY <1>8, <3>1 DEF Submit, TakeFromPlan, TypeOK
  <2>3. NotedDelta(s, side, k) \in Int
    BY <2>1 DEF TypeOK, NotedDelta, Reversal, SymbolExposure, Abs, AtLeastZero, Least
  <2>4. inHand' \in HandOrders \cup {NoOrder}
    BY <1>8, <2>1 DEF Submit, Accept, HandOrders, TypeOK
  <2>5. stray' \in [Symbols -> Units] /\ mislaid' \in [Symbols -> Units]
    BY <1>8, <2>1, MislayTypes DEF Submit, TypeOK
  <2>6. pending' \in [Symbols -> Int] /\ gross' \in Int
    BY <1>8, <2>3 DEF Submit, Accept, TypeOK
  <2>7. UNCHANGED <<overlap, held, resting, booked, openRows, phase, base, account, ticks>>
    BY <1>8 DEF Submit
  <2> QED
    BY <2>2, <2>4, <2>5, <2>6, <2>7 DEF TypeOK
<1>9. CASE UNCHANGED vars
  BY <1>9 DEF vars, orders, reader, TypeOK
<1> QED
  BY <1>1, <1>2, <1>3, <1>4, <1>5, <1>6, <1>7, <1>8, <1>9 DEF Next, Tick

(* A tick is built: nothing is noted yet.                                  *)
LEMMA BuildReads ==
  ASSUME ReaderInv, TypeOK', BuildTick
  PROVE  ReaderInv'
<1>1. pending' = Nothing /\ gross' = 0
  BY DEF BuildTick
<1>2. GrossIsSum'
  BY <1>1, NothingSums DEF GrossIsSum, Sum
<1>3. \A s \in Symbols : base'[s] \in Int /\ pending'[s] = 0
  BY <1>1 DEF TypeOK, Nothing
<1>4. ExposureIsReal'
  BY <1>3 DEF ExposureIsReal, Abs
<1>5. CapsHoldInTick'
  BY <1>1, <1>3 DEF CapsHoldInTick
<1> QED
  BY <1>2, <1>4, <1>5 DEF ReaderInv

(* An order that passed the checks is noted: its units count in both       *)
(* figures, and in neither does it pass a cap.                             *)
LEMMA NotingReads ==
  ASSUME ReaderInv, TypeOK', NEW s \in Symbols, NEW k \in 1 .. MaxPlan,
         NEW side \in Sides,
         RiskAllows(s, side, k), Accept(s, side, k), UNCHANGED base
  PROVE  ReaderInv'
<1> DEFINE delta == NotedDelta(s, side, k)
           shown == SymbolExposure(s)
<1>1. TypeOK /\ GrossIsSum /\ ExposureIsReal /\ CapsHoldInTick
  BY DEF ReaderInv
<1>2. k \in Nat /\ k > 0
  BY BoundsAssumption
<1>3. /\ base \in [Symbols -> Int] /\ pending \in [Symbols -> Int] /\ gross \in Int
      /\ pending' \in [Symbols -> Int] /\ gross' \in Int
  BY <1>1 DEF TypeOK
<1>4. shown = Abs(base[s]) + pending[s] /\ shown \in Nat
  BY <1>1, <1>3, ReaderShows DEF ExposureIsReal, Abs
<1>5. delta \in Int /\ shown + delta >= 0
  BY <1>2, <1>4 DEF NotedDelta, Reversal, AtLeastZero, Least
<1>6. /\ pending' = [pending EXCEPT ![s] = @ + delta] /\ gross' = gross + delta
      /\ pending'[s] = pending[s] + delta
      /\ \A z \in Symbols \ {s} : pending'[z] = pending[z]
  BY <1>3 DEF Accept
<1>7. GrossIsSum'
  <2>1. SumOver(pending', Symbols) = SumOver(pending, Symbols) + pending'[s] - pending[s]
    <3>1. \A z \in Symbols : pending[z] \in Int /\ pending'[z] \in Int
      BY <1>3
    <3>2. \A z \in Symbols \ {s} : pending'[z] = pending[z]
      BY <1>6
    <3> QED
      BY <3>1, <3>2, SumUpdate, SymbolsAssumption, Zenon
  <2>2. gross = SumOver(pending, Symbols)
    BY <1>1 DEF GrossIsSum, Sum
  <2>3. gross' = SumOver(pending', Symbols)
    <3>1. pending[s] \in Int
      BY <1>3
    <3> HIDE DEF delta
    <3> QED
      BY <1>3, <1>5, <1>6, <2>1, <2>2, <3>1
  <2> QED
    BY <2>3 DEF GrossIsSum, Sum
<1>8. ExposureIsReal'
  <2> SUFFICES ASSUME NEW z \in Symbols PROVE Abs(base[z]) + pending'[z] >= 0
    BY DEF ExposureIsReal
  <2>1. CASE z = s
    <3>1. Abs(base[s]) \in Int /\ pending[s] \in Int
      BY <1>3 DEF Abs
    <3> HIDE DEF delta, shown
    <3> QED
      BY <1>4, <1>5, <1>6, <2>1, <3>1
  <2>2. CASE z # s
    BY <1>1, <1>6, <2>2 DEF ExposureIsReal
  <2> QED
    BY <2>1, <2>2
<1>9. CapsHoldInTick'
  <2> SUFFICES ASSUME \A z \in Symbols : base[z] >= 0
               PROVE  /\ gross' > 0 => Opens + gross' =< MaxGross
                      /\ \A z \in Symbols : pending'[z] > 0 => base[z] + pending'[z] =< MaxSymbol
    BY DEF CapsHoldInTick, Opens, Sum
  <2>1. base[s] >= 0 /\ base[s] \in Int /\ pending[s] \in Int /\ Abs(base[s]) = base[s]
    BY <1>3 DEF Abs
  <2> DEFINE checked == ExposureDelta(s, side, k)
  <2>2. checked \in Int /\ delta =< checked /\ (checked =< 0 => delta = checked)
    BY <1>2, <1>4, <2>1 DEF ExposureDelta, NotedDelta, Reversal, AtLeastZero, Least
  <2>3. Opens + gross + checked =< MaxGross /\ Opens \in Nat
    BY <1>1, ReaderShows DEF RiskAllows, GrossAllows
  <2>4. checked > 0 => shown + checked =< MaxSymbol
    BY DEF RiskAllows, SymbolAllows
  <2>5. pending[s] > 0 => base[s] + pending[s] =< MaxSymbol
    BY <1>1 DEF CapsHoldInTick
  <2> HIDE DEF checked, delta, shown
  <2>6. Opens + gross' =< MaxGross
    BY <1>3, <1>5, <1>6, <2>2, <2>3, LimitsAssumption
  <2>7. pending'[s] > 0 => base[s] + pending'[s] =< MaxSymbol
    BY <1>4, <1>5, <1>6, <2>1, <2>2, <2>4, <2>5, LimitsAssumption
  <2>8. \A z \in Symbols \ {s} : pending'[z] > 0 => base[z] + pending'[z] =< MaxSymbol
    BY <1>1, <1>6 DEF CapsHoldInTick
  <2> QED
    BY <2>6, <2>7, <2>8
<1> QED
  BY <1>7, <1>8, <1>9 DEF ReaderInv

(* ReaderInv is inductive.                                                *)
LEMMA ReaderStep == ASSUME ReaderInv, [Next]_vars PROVE ReaderInv'
<1>1. TypeOK'
  BY TypesKept DEF ReaderInv
<1>2. CASE BuildTick
  BY <1>1, <1>2, BuildReads
<1>3. ASSUME NEW s \in Symbols, NEW side \in Sides, NEW k \in 1 .. MaxPlan, Submit(s, side, k)
      PROVE  ReaderInv'
  <2>1. UNCHANGED base
    BY <1>3 DEF Submit
  <2>2. CASE RiskAllows(s, side, k) /\ Accept(s, side, k)
    BY <1>1, <2>1, <2>2, NotingReads
  <2>3. CASE UNCHANGED reader
    BY <1>1, <2>3, ReaderUntouched
  <2> QED
    BY <1>3, <2>1, <2>2, <2>3 DEF Submit, reader
<1>4. CASE \/ Broker \/ Record
           \/ Reconcile \/ FetchPositions \/ Evaluate \/ EndTick \/ OtherReconciles
           \/ UNCHANGED vars
  <2>1. UNCHANGED reader
    BY <1>4 DEF Broker, Fill, FillStray, FillInHand, OrdersEnd, Record, Reconcile, FetchPositions,
       Evaluate, EndTick, OtherReconciles, vars, reader
  <2> QED
    BY <1>1, <2>1, ReaderUntouched
<1> QED
  BY <1>2, <1>3, <1>4 DEF Next, Tick

(* ReaderInv holds in every reachable state.                              *)
LEMMA ReaderInvIsInvariant == Spec => []ReaderInv
<1>1. ReaderInv /\ [Next]_vars => ReaderInv'
  BY ReaderStep
<1> QED
  BY ReaderInit, <1>1, PTL DEF Spec

(* Every variable keeps to its range, and the gross exposure the checks    *)
(* read is the sum of the symbols' exposures, whatever is noted.           *)
THEOREM ReaderIsSound == Spec => []ReaderSound
<1>1. ReaderInv => ReaderSound
  BY ReaderShows DEF ReaderInv, ReaderSound, ReaderAgrees
<1> QED
  BY <1>1, ReaderInvIsInvariant, PTL

(* However many intents of a tick pass the checks, together they take the  *)
(* exposure the tick reads no further than the caps.                       *)
THEOREM CapsHold == Spec => []CapsHoldInTick
<1>1. ReaderInv => CapsHoldInTick
  BY DEF ReaderInv
<1> QED
  BY <1>1, ReaderInvIsInvariant, PTL
=============================================================================
