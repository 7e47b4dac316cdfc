-------------------------- MODULE SleeveLedgerProofs --------------------------
(* For any number of strategies, any opening sleeves, any caps and any number   *)
(* of ticks, crashes and outside trades: the sleeves, the fills on their way    *)
(* and what was lost make the account; no share is sold twice; an orphan is     *)
(* never made out of a strategy's share.                                        *)
EXTENDS SleeveLedger, SumsProofs, TLAPS

-----------------------------------------------------------------------------
(* Handing out a total in name order.                                           *)

(* The sleeves are the numbers up to the last strategy.                      *)
LEMMA SleevesAreFinite == IsFiniteSet(Sleeves) /\ Sleeves = 0..NStrategies /\ Sleeves \subseteq Nat
<1>1. Sleeves = 0..NStrategies
  BY SizesAssumption DEF Sleeves, Strategies, Unattributed
<1> QED
  BY <1>1, FS_Interval, SizesAssumption

(* The fact the sums need.                                                   *)
LEMMA FiniteSleeves == IsFiniteSet(Sleeves)
BY SleevesAreFinite

Below(n) == {z \in Sleeves : z < n}

(* Nobody gets more than asked for, and nothing negative.                       *)
LEMMA ShareBounds ==
  ASSUME NEW total \in Nat, NEW f, \A s \in Sleeves : f[s] \in Nat, NEW s \in Sleeves
  PROVE  /\ Before(f, s) \in Nat
         /\ Share(total, f, s) \in Nat /\ Share(total, f, s) <= f[s]
         /\ total = 0 => Share(total, f, s) = 0
<1>1. Before(f, s) \in Nat
  <2>1. IsFiniteSet(Below(s)) /\ \A z \in Below(s) : f[z] \in Nat
    BY SleevesAreFinite, FS_Subset DEF Below
  <2>2. SumOver(f, Below(s)) \in Nat
    BY <2>1, SumNat
  <2> QED
    BY <2>2 DEF Before, Below
<1>2. f[s] \in Nat
  OBVIOUS
<1> QED
  BY <1>1, <1>2 DEF Share, Least, AtLeastZero

(* Together they get the total, or all they asked for if that is less.          *)
LEMMA SharesSum ==
  ASSUME NEW total \in Nat, NEW f, \A s \in Sleeves : f[s] \in Nat
  PROVE  Sum([s \in Sleeves |-> Share(total, f, s)]) = Least(total, Sum(f))
<1> DEFINE share == [s \in Sleeves |-> Share(total, f, s)]
           Bad == {n \in Nat : n <= NStrategies + 1
                     /\ SumOver(share, Below(n)) # Least(total, SumOver(f, Below(n)))}
<1>1. \A s \in Sleeves : share[s] \in Nat /\ share[s] = Share(total, f, s)
  BY ShareBounds
<1>2. \A n \in Nat : IsFiniteSet(Below(n))
  BY SleevesAreFinite, FS_Subset DEF Below
<1>3. NStrategies + 1 \notin Bad
  <2> SUFFICES ASSUME Bad # {} PROVE FALSE
    OBVIOUS
  <2>1. PICK n \in Bad : \A m \in Bad : n <= m
    <3> Bad \subseteq Nat
      OBVIOUS
    <3> HIDE DEF Bad
    <3> QED
      BY SmallestNumber
  <2> HIDE DEF share
  <2>2. CASE n = 0
    <3>1. Below(n) = {}
      BY <2>2, SleevesAreFinite DEF Below
    <3>2. SumOver(share, {}) = 0 /\ SumOver(f, {}) = 0
      BY SumEmpty
    <3> QED
      BY <2>1, <3>1, <3>2 DEF Least
  <2>3. CASE n # 0
    <3> DEFINE s == n - 1
    <3>1. s \in Sleeves /\ s \in Nat /\ n = s + 1
      BY <2>1, <2>3, SizesAssumption, SleevesAreFinite
    <3>2. Below(n) \ {s} = Below(s) /\ s \in Below(n) /\ Below(n) \subseteq Sleeves
      BY <3>1, SleevesAreFinite DEF Below
    <3>3. SumOver(share, Below(s)) = Least(total, SumOver(f, Below(s)))
      BY <2>1, <3>1, SizesAssumption
    <3>4. SumOver(share, Below(n)) = share[s] + SumOver(share, Below(s))
      <4>1. IsFiniteSet(Below(n)) /\ \A z \in Below(n) : share[z] \in Int
        BY <1>1, <1>2, <2>1, <3>2
      <4> HIDE DEF s
      <4> QED
        BY <3>2, <4>1, SumRemove
    <3>5. SumOver(f, Below(n)) = f[s] + SumOver(f, Below(s))
      <4>1. IsFiniteSet(Below(n)) /\ \A z \in Below(n) : f[z] \in Int
        BY <1>2, <2>1, <3>2
      <4> HIDE DEF s
      <4> QED
        BY <3>2, <4>1, SumRemove
    <3>6. share[s] = Least(f[s], AtLeastZero(total - SumOver(f, Below(s))))
      BY <1>1, <3>1 DEF Share, Before, Below
    <3>7. SumOver(f, Below(s)) \in Nat /\ f[s] \in Nat
      <4>1. \A z \in Below(s) : f[z] \in Nat
        BY DEF Below
      <4> HIDE DEF s
      <4> QED
        BY <1>2, <3>1, <4>1, SumNat
    <3>8. SumOver(share, Below(n)) = Least(total, SumOver(f, Below(n)))
      <4> HIDE DEF s
      <4> QED
        BY <3>3, <3>4, <3>5, <3>6, <3>7 DEF Least, AtLeastZero
    <3> QED
      BY <2>1, <3>8
  <2> QED
    BY <2>2, <2>3
<1>4. Below(NStrategies + 1) = Sleeves
  BY SleevesAreFinite, SizesAssumption DEF Below
<1> QED
  BY <1>3, <1>4, SizesAssumption DEF Sum

(* A cross takes from a seller no more than it sells, gives a buyer no more     *)
(* than it buys, and leaves the shares of all sleeves together as they were.    *)
LEMMA CrossesBalance ==
  ASSUME NEW w \in [Sleeves -> Int]
  PROVE  /\ Crossed(w) \in [Sleeves -> Int]
         /\ \A s \in Sleeves :
              /\ w[s] >= 0 => Crossed(w)[s] >= 0 /\ Crossed(w)[s] <= w[s]
              /\ w[s] <= 0 => Crossed(w)[s] <= 0 /\ Crossed(w)[s] >= w[s]
         /\ Sum(Crossed(w)) = 0
<1> DEFINE total == CrossedTotal(w)
           bought == [s \in Sleeves |-> Share(total, Bought(w), s)]
           sold == [s \in Sleeves |-> Share(total, Sold(w), s)]
<1>1. \A s \in Sleeves : /\ Bought(w)[s] = AtLeastZero(w[s]) /\ Bought(w)[s] \in Nat
                         /\ Sold(w)[s] = AtLeastZero(-w[s]) /\ Sold(w)[s] \in Nat
  BY DEF Bought, Sold, AtLeastZero
<1>2. Sum(Bought(w)) \in Nat /\ Sum(Sold(w)) \in Nat
  BY <1>1, SumNat, SleevesAreFinite DEF Sum
<1>3. total \in Nat /\ total = Least(Sum(Bought(w)), Sum(Sold(w)))
  BY <1>2 DEF CrossedTotal, Least
<1> HIDE DEF total
<1>4. Sum(bought) = Least(total, Sum(Bought(w))) /\ Sum(sold) = Least(total, Sum(Sold(w)))
  BY <1>1, <1>3, SharesSum
<1>5. Sum(bought) = total /\ Sum(sold) = total
  BY <1>2, <1>3, <1>4 DEF Least
<1>6. \A s \in Sleeves : /\ bought[s] \in Nat /\ bought[s] <= Bought(w)[s]
                         /\ sold[s] \in Nat /\ sold[s] <= Sold(w)[s]
  BY <1>1, <1>3, ShareBounds
<1>7. \A s \in Sleeves : Crossed(w)[s] = bought[s] - sold[s]
  BY DEF Crossed, total
<1> HIDE DEF bought, sold
<1>8. Crossed(w) \in [Sleeves -> Int]
  BY <1>6, <1>7 DEF Crossed
<1>9. Sum(bought) = Sum(Crossed(w)) + Sum(sold)
  <2> DEFINE crossed == Crossed(w)
  <2>1. \A s \in Sleeves : crossed[s] \in Int /\ sold[s] \in Int
                           /\ bought[s] = crossed[s] + sold[s]
    BY <1>6, <1>7
  <2>2. IsFiniteSet(Sleeves)
    BY SleevesAreFinite
  <2> HIDE DEF crossed
  <2>3. SumOver(bought, Sleeves) = SumOver(crossed, Sleeves) + SumOver(sold, Sleeves)
    BY <2>1, <2>2, SumPlus
  <2> QED
    BY <2>3 DEF Sum, crossed
<1>10. Sum(Crossed(w)) \in Int
  BY <1>8, SumInt, SleevesAreFinite DEF Sum
<1>11. Sum(Crossed(w)) = 0
  BY <1>3, <1>5, <1>9, <1>10
<1>12. ASSUME NEW s \in Sleeves
       PROVE  /\ w[s] >= 0 => Crossed(w)[s] >= 0 /\ Crossed(w)[s] <= w[s]
              /\ w[s] <= 0 => Crossed(w)[s] <= 0 /\ Crossed(w)[s] >= w[s]
  <2>1. w[s] \in Int
    OBVIOUS
  <2> QED
    BY <1>1, <1>6, <1>7, <2>1 DEF AtLeastZero
<1> QED
  BY <1>8, <1>11, <1>12

(* What the clamp sends of the sales.                                           *)
Sends(r) == [s \in Sleeves |-> AtLeastZero(-Clamped(r)[s])]

(* The clamp leaves buys alone, sends of each sale no more than the sale, and   *)
(* of all sales together no more than the holdings fetched.                     *)
LEMMA ClampCovers ==
  ASSUME NEW r \in [Sleeves -> Int], seen \in Int
  PROVE  /\ Clamped(r) \in [Sleeves -> Int]
         /\ \A s \in Sleeves : IF r[s] < 0 THEN Clamped(r)[s] <= 0 /\ Clamped(r)[s] >= r[s]
                                           ELSE Clamped(r)[s] = r[s]
         /\ Sum(Sends(r)) <= AtLeastZero(seen)
<1> DEFINE total == AtLeastZero(seen)
           share == [s \in Sleeves |-> Share(total, Sold(r), s)]
<1>1. total \in Nat
  BY DEF AtLeastZero
<1>2. \A s \in Sleeves : Sold(r)[s] = AtLeastZero(-r[s]) /\ Sold(r)[s] \in Nat
  BY DEF Sold, AtLeastZero
<1>3. \A s \in Sleeves : share[s] \in Nat /\ share[s] <= Sold(r)[s]
  BY <1>1, <1>2, ShareBounds
<1>4. \A s \in Sleeves : Clamped(r)[s] = IF r[s] < 0 THEN -share[s] ELSE r[s]
  BY DEF Clamped
<1>5. Sum(share) = Least(total, Sum(Sold(r)))
  BY <1>1, <1>2, SharesSum
<1> HIDE DEF share
<1>6. Clamped(r) \in [Sleeves -> Int]
  BY <1>3, <1>4 DEF Clamped
<1>7. ASSUME NEW s \in Sleeves
      PROVE  /\ IF r[s] < 0 THEN Clamped(r)[s] <= 0 /\ Clamped(r)[s] >= r[s]
                            ELSE Clamped(r)[s] = r[s]
             /\ Sends(r)[s] \in Int /\ Sends(r)[s] <= share[s]
  <2>1. r[s] \in Int
    OBVIOUS
  <2> QED
    BY <1>2, <1>3, <1>4, <2>1 DEF AtLeastZero, Sends
<1>8. Sum(Sends(r)) <= Sum(share)
  <2>1. \A s \in Sleeves : Sends(r)[s] \in Int /\ share[s] \in Int /\ Sends(r)[s] <= share[s]
    BY <1>3, <1>7
  <2> QED
    BY <2>1, SumAtMost, SleevesAreFinite DEF Sum
<1>9. Sum(share) <= total
  <2>1. Sum(Sold(r)) \in Nat
    BY <1>2, SumNat, SleevesAreFinite DEF Sum
  <2> QED
    BY <1>1, <1>5, <2>1 DEF Least
<1>10. Sum(Sends(r)) \in Int /\ Sum(share) \in Int
  <2>1. \A s \in Sleeves : Sends(r)[s] \in Int /\ share[s] \in Int
    BY <1>3, <1>7
  <2> QED
    BY <2>1, SumInt, SleevesAreFinite DEF Sum
<1>11. Sum(Sends(r)) <= total
  <2> HIDE DEF total
  <2> QED
    BY <1>1, <1>8, <1>9, <1>10
<1> QED
  BY <1>6, <1>7, <1>11

-----------------------------------------------------------------------------
(* The inductive invariant.                                                     *)

Rows == [side : {"none", "buy", "sell"}, left : Nat, unbooked : Nat]

ClosedIsEmpty == \A s \in Sleeves : order[s].side = "none" => order[s] = NoOrder

HandOnlyInVisit == phase \notin {"opening", "closing"} => hand = NoFill

(* Only a tick that sends has something to send, or an order without its row.   *)
SendsWhenSubmitting == phase # "submitting" => fresh = {} /\ plan = Nothing

FreshHasOrder == \A s \in fresh : order[s].side # "none"

(* An intent is sent once.                                                      *)
PlannedIsUnsent == \A s \in Sleeves : plan[s] # 0 => order[s] = NoOrder

(* With no order open only strays fill, and outside trades wait for the tick's  *)
(* end: what was fetched is what the account holds, but for the strays.         *)
SeenIsCurrent ==
  phase \in {"fetched", "loaded", "resync"} /\ OpenRows = {} =>
    /\ seen + stray.sell <= account + mislaid
    /\ faults = 0 => seen = account

StrayIsMislaid == stray.sell <= mislaid

NothingLost == faults = 0 => lost = 0 /\ stray = NoStray

OrphansOnlyExit ==
  /\ order[Unattributed].side # "buy" /\ plan[Unattributed] <= 0
  /\ hand.owner = Unattributed => hand.shares <= 0

Flow ==
  /\ ClosedIsEmpty /\ HandOnlyInVisit /\ SendsWhenSubmitting /\ FreshHasOrder
  /\ PlannedIsUnsent /\ SeenIsCurrent /\ StrayIsMislaid /\ NothingLost /\ OrphansOnlyExit

(* What is sold, and what is still to be, is the sleeve's own.                  *)
Owned == \A s \in Sleeves : Selling(s) + AtLeastZero(-plan[s]) <= sleeve[s]

(* What is alive, and what is still to be sent, is covered but for what was     *)
(* mislaid.                                                                     *)
Planned == Sum([s \in Sleeves |-> AtLeastZero(-plan[s])])
Covered == Resting + stray.sell + Planned <= account + mislaid

SleeveInv == TypeOK /\ Flow /\ Balance /\ Owned /\ Covered /\ NothingOrphaned

(* What rests of a sale, and what a row will still bring its sleeve.            *)
RestingOf(row) == IF row.side = "sell" THEN row.left ELSE 0
ComingOf(row) == Signed(row.side, row.unbooked)
Coming == Sum([s \in Sleeves |-> Unbooked(s)])

(* An order with nothing unbooked has no fill to come.                          *)
LEMMA NothingComing ==
  ASSUME NEW row, row.unbooked \in Nat, row.unbooked <= 0
  PROVE  ComingOf(row) = 0
BY DEF ComingOf, Signed

(* The parts of an order are typed.                                             *)
LEMMA RowParts ==
  ASSUME NEW row \in Rows
  PROVE  RestingOf(row) \in Nat /\ ComingOf(row) \in Int
BY DEF Rows, RestingOf, ComingOf, Signed

(* No order rests, and none has a fill.                                         *)
LEMMA NoOrderParts ==
  NoOrder \in Rows /\ RestingOf(NoOrder) = 0 /\ ComingOf(NoOrder) = 0
<1>1. NoOrder.unbooked \in Nat /\ NoOrder.unbooked <= 0
  BY DEF NoOrder
<1>2. ComingOf(NoOrder) = 0
  BY <1>1, NothingComing
<1> QED
  BY <1>2 DEF NoOrder, Rows, RestingOf

(* The sums over orders are numbers, and nothing when no order is open.         *)
LEMMA RowSums ==
  ASSUME order \in [Sleeves -> Rows]
  PROVE  /\ Resting \in Nat /\ \A s \in Sleeves : RestingOf(order[s]) <= Resting
         /\ Coming \in Int
         /\ ClosedIsEmpty /\ OpenRows = {} /\ fresh = {} => Resting = 0 /\ Coming = 0
<1> DEFINE rest == [s \in Sleeves |-> RestingOf(order[s])]
           come == [s \in Sleeves |-> ComingOf(order[s])]
<1>1. Resting = SumOver(rest, Sleeves) /\ Coming = SumOver(come, Sleeves)
  BY DEF Resting, Coming, Sum, RestingOf, ComingOf, Unbooked
<1>2. \A s \in Sleeves : /\ rest[s] = RestingOf(order[s]) /\ rest[s] \in Nat
                         /\ come[s] = ComingOf(order[s]) /\ come[s] \in Int
  BY RowParts
<1>3. ClosedIsEmpty /\ OpenRows = {} /\ fresh = {} => \A s \in Sleeves : rest[s] = 0 /\ come[s] = 0
  <2>1. ClosedIsEmpty /\ OpenRows = {} /\ fresh = {} => \A s \in Sleeves : order[s] = NoOrder
    BY DEF ClosedIsEmpty, OpenRows
  <2> QED
    BY <2>1, NoOrderParts
<1> HIDE DEF rest, come
<1>4. /\ SumOver(rest, Sleeves) \in Nat
      /\ \A s \in Sleeves : rest[s] <= SumOver(rest, Sleeves)
  BY <1>2, SumNat, SleevesAreFinite
<1>5. SumOver(come, Sleeves) \in Int
  BY <1>2, SumInt, SleevesAreFinite
<1>6. ClosedIsEmpty /\ OpenRows = {} /\ fresh = {}
        => SumOver(rest, Sleeves) = 0 /\ SumOver(come, Sleeves) = 0
  BY <1>3, SumZero, SleevesAreFinite
<1> QED
  BY <1>1, <1>2, <1>4, <1>5, <1>6

(* One order changes: the sums follow it.                                       *)
LEMMA OneOrderChanges ==
  ASSUME order \in [Sleeves -> Rows], order' \in [Sleeves -> Rows], NEW a \in Sleeves,
         \A z \in Sleeves \ {a} : order'[z] = order[z]
  PROVE  /\ Resting' = Resting + RestingOf(order'[a]) - RestingOf(order[a])
         /\ Coming' = Coming + ComingOf(order'[a]) - ComingOf(order[a])
<1> DEFINE rest == [s \in Sleeves |-> RestingOf(order[s])]
           rest2 == [s \in Sleeves |-> RestingOf(order'[s])]
           come == [s \in Sleeves |-> ComingOf(order[s])]
           come2 == [s \in Sleeves |-> ComingOf(order'[s])]
<1>1. /\ Resting = SumOver(rest, Sleeves) /\ Coming = SumOver(come, Sleeves)
      /\ Resting' = SumOver(rest2, Sleeves) /\ Coming' = SumOver(come2, Sleeves)
  BY DEF Resting, Coming, Sum, RestingOf, ComingOf, Unbooked
<1>2. /\ \A s \in Sleeves : rest[s] \in Int /\ rest2[s] \in Int
      /\ \A s \in Sleeves : come[s] \in Int /\ come2[s] \in Int
  BY RowParts
<1>3. /\ \A s \in Sleeves \ {a} : rest2[s] = rest[s]
      /\ \A s \in Sleeves \ {a} : come2[s] = come[s]
  OBVIOUS
<1>4. /\ rest[a] = RestingOf(order[a]) /\ rest2[a] = RestingOf(order'[a])
      /\ come[a] = ComingOf(order[a]) /\ come2[a] = ComingOf(order'[a])
  OBVIOUS
<1> HIDE DEF rest, rest2, come, come2
<1>5. SumOver(rest2, Sleeves) = SumOver(rest, Sleeves) + rest2[a] - rest[a]
  BY <1>2, <1>3, SumUpdate, FiniteSleeves
<1>6. SumOver(come2, Sleeves) = SumOver(come, Sleeves) + come2[a] - come[a]
  BY <1>2, <1>3, SumUpdate, FiniteSleeves
<1> QED
  BY <1>1, <1>4, <1>5, <1>6

(* A purchase, or nothing, sells nothing.                                       *)
LEMMA NoSale ==
  ASSUME NEW n \in Int, n >= 0
  PROVE  AtLeastZero(-n) = 0
BY DEF AtLeastZero

(* The planned sales are a number, and nothing when nothing is planned.         *)
LEMMA PlannedSum ==
  ASSUME plan \in [Sleeves -> Int]
  PROVE  Planned \in Nat /\ (plan = Nothing => Planned = 0)
<1> DEFINE sales == [s \in Sleeves |-> AtLeastZero(-plan[s])]
<1>1. /\ \A s \in Sleeves : sales[s] \in Nat
      /\ plan = Nothing => \A s \in Sleeves : sales[s] = 0
  BY DEF AtLeastZero, Nothing
<1>2. Planned = SumOver(sales, Sleeves)
  BY DEF Planned, Sum
<1> HIDE DEF sales
<1>3. SumOver(sales, Sleeves) \in Nat
  BY <1>1, SumNat, FiniteSleeves
<1>4. plan = Nothing => SumOver(sales, Sleeves) = 0
  BY <1>1, SumZero, FiniteSleeves
<1> QED
  BY <1>2, <1>3, <1>4

(* One intent leaves the plan.                                                  *)
LEMMA OnePlanChanges ==
  ASSUME plan \in [Sleeves -> Int], plan' \in [Sleeves -> Int], NEW a \in Sleeves,
         \A z \in Sleeves \ {a} : plan'[z] = plan[z]
  PROVE  Planned' = Planned + AtLeastZero(-plan'[a]) - AtLeastZero(-plan[a])
<1> DEFINE sales == [s \in Sleeves |-> AtLeastZero(-plan[s])]
           later == [s \in Sleeves |-> AtLeastZero(-plan'[s])]
<1>1. Planned = SumOver(sales, Sleeves) /\ Planned' = SumOver(later, Sleeves)
  BY DEF Planned, Sum
<1>2. /\ \A s \in Sleeves : sales[s] \in Int /\ later[s] \in Int
      /\ \A s \in Sleeves \ {a} : later[s] = sales[s]
      /\ sales[a] = AtLeastZero(-plan[a]) /\ later[a] = AtLeastZero(-plan'[a])
  BY DEF AtLeastZero
<1> HIDE DEF sales, later
<1>3. SumOver(later, Sleeves) = SumOver(sales, Sleeves) + later[a] - sales[a]
  BY <1>2, SumUpdate, FiniteSleeves
<1> QED
  BY <1>1, <1>2, <1>3

(* One sleeve changes.                                                          *)
LEMMA OneSleeveChanges ==
  ASSUME NEW f \in [Sleeves -> Int], NEW a \in Sleeves, NEW n \in Int
  PROVE  Sum([f EXCEPT ![a] = @ + n]) = Sum(f) + n /\ Sum(f) \in Int
<1> DEFINE g == [f EXCEPT ![a] = @ + n]
<1>1. /\ \A s \in Sleeves : f[s] \in Int /\ g[s] \in Int
      /\ \A s \in Sleeves \ {a} : g[s] = f[s]
      /\ g[a] = f[a] + n
  OBVIOUS
<1> HIDE DEF g
<1>2. SumOver(g, Sleeves) = SumOver(f, Sleeves) + g[a] - f[a]
  BY <1>1, SumUpdate, FiniteSleeves
<1>3. SumOver(f, Sleeves) \in Int
  BY <1>1, SumInt, SleevesAreFinite
<1>4. SumOver(g, Sleeves) = SumOver(f, Sleeves) + n
  BY <1>1, <1>2, <1>3
<1> QED
  BY <1>3, <1>4 DEF Sum, g

(* What the invariant says of the types.                                        *)
LEMMA Types ==
  ASSUME TypeOK
  PROVE  /\ account \in Int /\ seen \in Int /\ lost \in Int /\ mislaid \in Nat
         /\ stray \in [buy : Nat, sell : Nat] /\ stray.buy \in Nat /\ stray.sell \in Nat
         /\ sleeve \in [Sleeves -> Nat] /\ sleeve \in [Sleeves -> Int]
         /\ order \in [Sleeves -> Rows] /\ plan \in [Sleeves -> Int]
         /\ hand \in [owner : Sleeves, shares : Int]
         /\ Sum(sleeve) \in Nat /\ Resting \in Nat /\ Coming \in Int /\ Planned \in Nat
<1>1. /\ account \in Int /\ seen \in Int /\ lost \in Int /\ mislaid \in Nat
      /\ stray \in [buy : Nat, sell : Nat] /\ stray.buy \in Nat /\ stray.sell \in Nat
      /\ sleeve \in [Sleeves -> Nat] /\ sleeve \in [Sleeves -> Int]
      /\ order \in [Sleeves -> Rows] /\ plan \in [Sleeves -> Int]
      /\ hand \in [owner : Sleeves, shares : Int]
  BY DEF TypeOK, Rows
<1>2. \A s \in Sleeves : sleeve[s] \in Nat
  BY <1>1
<1>3. SumOver(sleeve, Sleeves) \in Nat
  BY <1>2, SumNat, FiniteSleeves
<1> QED
  BY <1>1, <1>3, RowSums, PlannedSum DEF Sum

(* The sleeves start with the account, and nothing is in hand.                  *)
LEMMA SleeveInit == Init => SleeveInv
<1> SUFFICES ASSUME Init PROVE SleeveInv
  OBVIOUS
<1>1. NoFill \in [owner : Sleeves, shares : Int] /\ Nothing \in [Sleeves -> Int]
  BY DEF NoFill, Sleeves, Nothing
<1>2. order = [s \in Sleeves |-> NoOrder] /\ order \in [Sleeves -> Rows]
  BY NoOrderParts DEF Init
<1>3. OpenRows = {} /\ ClosedIsEmpty /\ fresh = {}
  BY <1>2 DEF OpenRows, ClosedIsEmpty, NoOrder, Init
<1>4. Resting = 0 /\ Coming = 0 /\ Planned = 0
  BY <1>1, <1>2, <1>3, RowSums, PlannedSum DEF Init
<1>5. sleeve \in [Sleeves -> Nat] /\ Sum(StartHeld) \in Nat
  <2>1. \A s \in Sleeves : StartHeld[s] \in Nat
    BY SizesAssumption
  <2> QED
    BY <2>1, SizesAssumption, SumNat, SleevesAreFinite DEF Init, Sum
<1>6. TypeOK
  BY <1>1, <1>2, <1>3, <1>5, SizesAssumption DEF Init, TypeOK, Rows, NoStray
<1>7. Flow
  BY <1>2, <1>3, SizesAssumption DEF Init, Flow, HandOnlyInVisit, SendsWhenSubmitting,
     FreshHasOrder, PlannedIsUnsent, SeenIsCurrent, StrayIsMislaid, NothingLost,
     OrphansOnlyExit, NoOrder, NoFill, NoStray, Nothing, Unattributed, Sleeves
<1>8. Balance
  BY <1>4, <1>5 DEF Init, Balance, Coming, NoFill
<1>9. Owned
  BY <1>2, <1>5 DEF Init, Owned, Selling, NoOrder, NoFill, Nothing, AtLeastZero
<1>10. Covered /\ NothingOrphaned
  BY <1>4, <1>5, SizesAssumption DEF Init, Covered, NothingOrphaned, Sleeves, NoStray
<1> QED
  BY <1>6, <1>7, <1>8, <1>9, <1>10 DEF SleeveInv

(* A resting order has a side; it has an open row, or is still without one.     *)
LEMMA RestingHasSide ==
  ASSUME SleeveInv, NEW s \in Sleeves, order[s].left > 0
  PROVE  /\ order[s].side \in {"buy", "sell"} /\ plan[s] = 0
         /\ OpenRows # {} \/ phase = "submitting"
<1>1. order[s] \in Rows
  BY Types DEF SleeveInv
<1>2. order[s].side # "none" /\ order[s] # NoOrder
  BY DEF SleeveInv, Flow, ClosedIsEmpty, NoOrder
<1>3. plan[s] = 0
  BY <1>2 DEF SleeveInv, Flow, PlannedIsUnsent
<1>4. OpenRows # {} \/ phase = "submitting"
  BY <1>2 DEF SleeveInv, Flow, SendsWhenSubmitting, OpenRows
<1> QED
  BY <1>1, <1>2, <1>3, <1>4 DEF Rows

(* The broker fills one share.                                                  *)
LEMMA FillKeeps ==
  ASSUME SleeveInv, NEW s \in Sleeves, Fill(s)
  PROVE  SleeveInv'
<1>1. TypeOK /\ Flow /\ Balance /\ Owned /\ Covered /\ NothingOrphaned
  BY DEF SleeveInv
<1>2. /\ order[s].left > 0 /\ account' = account + Signed(order[s].side, 1)
      /\ UNCHANGED <<sleeve, fresh, stray, mislaid, phase, todo, hand, plan, seen, lost, trades, faults>>
  BY DEF Fill, astray
<1>3. /\ order[s] \in Rows /\ order[s].side \in {"buy", "sell"} /\ plan[s] = 0
      /\ OpenRows # {} \/ phase = "submitting"
  BY <1>1, <1>2, Types, RestingHasSide
<1>4. /\ order'[s] = [side |-> order[s].side, left |-> order[s].left - 1,
                      unbooked |-> order[s].unbooked + 1]
      /\ \A z \in Sleeves \ {s} : order'[z] = order[z]
      /\ order' \in [Sleeves -> Rows]
  <2>1. order' = [order EXCEPT ![s] = [side |-> order[s].side, left |-> order[s].left - 1,
                                       unbooked |-> order[s].unbooked + 1]]
    BY <1>1, <1>3, Types DEF Fill, Rows
  <2> QED
    BY <1>1, <1>2, <1>3, <2>1, Types DEF Rows
<1>5. OpenRows' = OpenRows
  BY <1>2, <1>3, <1>4 DEF OpenRows
<1>6. /\ RestingOf(order'[s]) = RestingOf(order[s]) - (IF order[s].side = "sell" THEN 1 ELSE 0)
      /\ ComingOf(order'[s]) = ComingOf(order[s]) + Signed(order[s].side, 1)
      /\ RestingOf(order[s]) \in Nat /\ ComingOf(order[s]) \in Int
  BY <1>3, <1>4, RowParts DEF RestingOf, ComingOf, Signed, Rows
<1>7. /\ Resting' = Resting - (IF order[s].side = "sell" THEN 1 ELSE 0)
      /\ Coming' = Coming + Signed(order[s].side, 1)
      /\ Planned' = Planned
  <2>1. /\ Resting' = Resting + RestingOf(order'[s]) - RestingOf(order[s])
        /\ Coming' = Coming + ComingOf(order'[s]) - ComingOf(order[s])
    BY <1>1, <1>4, Types, OneOrderChanges
  <2> QED
    BY <1>1, <1>2, <1>3, <1>6, <2>1, Types DEF Signed, Planned
<1>8. Covered' /\ account' \in Int
  BY <1>1, <1>2, <1>3, <1>7, Types DEF Covered, Signed
<1>9. TypeOK'
  BY <1>1, <1>2, <1>4, <1>5, <1>8 DEF TypeOK, Rows
<1>10. Balance'
  <2>1. Balance' <=> Sum(sleeve) + Coming' + hand.shares + lost = account'
    BY <1>2 DEF Balance, Coming
  <2>2. Sum(sleeve) + Coming + hand.shares + lost = account
    BY <1>1 DEF Balance, Coming
  <2> QED
    BY <1>1, <1>2, <1>3, <1>7, <2>1, <2>2, Types DEF Signed
<1>11. Owned'
  BY <1>1, <1>2, <1>3, <1>4 DEF Owned, Selling, Rows
<1>12. Flow'
  <2>1. ClosedIsEmpty'
    BY <1>1, <1>3, <1>4 DEF Flow, ClosedIsEmpty
  <2>5. FreshHasOrder'
    BY <1>1, <1>2, <1>3, <1>4 DEF Flow, FreshHasOrder, TypeOK
  <2>4. OrphansOnlyExit'
    BY <1>1, <1>2, <1>3, <1>4 DEF Flow, OrphansOnlyExit, Sleeves
  <2>2. PlannedIsUnsent'
    BY <1>1, <1>2, <1>3, <1>4 DEF Flow, PlannedIsUnsent
  <2>3. SeenIsCurrent'
    BY <1>2, <1>3, <1>5 DEF SeenIsCurrent
  <2> QED
    BY <1>1, <1>2, <2>1, <2>2, <2>3, <2>4, <2>5 DEF Flow, HandOnlyInVisit,
       SendsWhenSubmitting, StrayIsMislaid, NothingLost
<1> QED
  BY <1>1, <1>2, <1>8, <1>9, <1>10, <1>11, <1>12 DEF SleeveInv, NothingOrphaned

(* The broker ends an order.                                                    *)
LEMMA OrderEndsKeeps ==
  ASSUME SleeveInv, NEW s \in Sleeves, OrderEnds(s)
  PROVE  SleeveInv'
<1>1. TypeOK /\ Flow /\ Balance /\ Owned /\ Covered /\ NothingOrphaned
  BY DEF SleeveInv
<1>2. /\ order[s].left > 0
      /\ UNCHANGED <<account, sleeve, fresh, stray, mislaid, phase, todo, hand, plan, seen, lost,
                     trades, faults>>
  BY DEF OrderEnds, astray
<1>3. /\ order[s] \in Rows /\ order[s].side \in {"buy", "sell"} /\ plan[s] = 0
      /\ OpenRows # {} \/ phase = "submitting"
  BY <1>1, <1>2, Types, RestingHasSide
<1>4. /\ order'[s] = [side |-> order[s].side, left |-> 0, unbooked |-> order[s].unbooked]
      /\ \A z \in Sleeves \ {s} : order'[z] = order[z]
      /\ order' \in [Sleeves -> Rows]
  <2>1. order' = [order EXCEPT ![s] = [order[s] EXCEPT !.left = 0]]
    BY DEF OrderEnds
  <2>2. order \in [Sleeves -> Rows]
    BY <1>1, Types
  <2>3. [order[s] EXCEPT !.left = 0]
          = [side |-> order[s].side, left |-> 0, unbooked |-> order[s].unbooked]
    BY <1>3 DEF Rows
  <2>4. [order[s] EXCEPT !.left = 0] \in Rows
    BY <1>3 DEF Rows
  <2> QED
    BY <2>1, <2>2, <2>3, <2>4
<1>5. OpenRows' = OpenRows
  BY <1>2, <1>3, <1>4 DEF OpenRows
<1>6. /\ RestingOf(order'[s]) = 0 /\ ComingOf(order'[s]) = ComingOf(order[s])
      /\ RestingOf(order[s]) \in Nat /\ ComingOf(order[s]) \in Int
  BY <1>3, <1>4, RowParts DEF RestingOf, ComingOf
<1>7. Resting' = Resting - RestingOf(order[s]) /\ Coming' = Coming /\ Planned' = Planned
  <2>1. /\ Resting' = Resting + RestingOf(order'[s]) - RestingOf(order[s])
        /\ Coming' = Coming + ComingOf(order'[s]) - ComingOf(order[s])
    BY <1>1, <1>4, Types, OneOrderChanges
  <2> QED
    BY <1>1, <1>2, <1>6, <2>1, Types DEF Planned
<1>8. TypeOK'
  BY <1>1, <1>2, <1>4, <1>5 DEF TypeOK, Rows
<1>9. Balance' /\ Covered'
  BY <1>1, <1>2, <1>6, <1>7, Types DEF Balance, Covered, Coming
<1>10. Owned'
  <2> SUFFICES ASSUME NEW z \in Sleeves PROVE Selling(z)' + AtLeastZero(-plan[z]) <= sleeve[z]
    BY <1>2 DEF Owned
  <2>1. /\ Selling(z) + AtLeastZero(-plan[z]) <= sleeve[z] /\ sleeve[z] \in Nat
        /\ hand.shares \in Int /\ AtLeastZero(-plan[z]) \in Nat
    BY <1>1, Types DEF Owned, AtLeastZero
  <2>2. CASE z = s
    BY <1>2, <1>3, <1>4, <2>1, <2>2 DEF Selling, Rows, AtLeastZero
  <2>3. CASE z # s
    BY <1>2, <1>4, <2>1, <2>3 DEF Selling
  <2> QED
    BY <2>2, <2>3
<1>11. Flow'
  <2>1. ClosedIsEmpty'
    BY <1>1, <1>3, <1>4 DEF Flow, ClosedIsEmpty
  <2>5. FreshHasOrder'
    BY <1>1, <1>2, <1>3, <1>4 DEF Flow, FreshHasOrder, TypeOK
  <2>4. OrphansOnlyExit'
    BY <1>1, <1>2, <1>3, <1>4 DEF Flow, OrphansOnlyExit, Sleeves
  <2>2. PlannedIsUnsent'
    BY <1>1, <1>2, <1>3, <1>4 DEF Flow, PlannedIsUnsent
  <2>3. SeenIsCurrent'
    BY <1>2, <1>3, <1>5 DEF SeenIsCurrent
  <2> QED
    BY <1>1, <1>2, <2>1, <2>2, <2>3, <2>4, <2>5 DEF Flow, HandOnlyInVisit,
       SendsWhenSubmitting, StrayIsMislaid, NothingLost
<1> QED
  BY <1>1, <1>2, <1>8, <1>9, <1>10, <1>11 DEF SleeveInv, NothingOrphaned

(* Strays fill or end, and others trade: the account and what was lost move     *)
(* together, and the orders with a row stay as they are.                        *)
LEMMA OutsideKeeps ==
  ASSUME SleeveInv, faults # 0 \/ faults' # 0,
         UNCHANGED <<sleeve, order, fresh, mislaid, phase, todo, hand, plan, seen, trades>>,
         account' \in Int, lost' \in Int, faults' \in 0..MaxFaults, faults <= faults',
         stray' \in [buy : Nat, sell : Nat], stray'.sell <= stray.sell,
         lost' - lost = account' - account,
         Resting + stray'.sell + Planned <= account' + mislaid,
         phase = "idle" \/ account' - account >= stray'.sell - stray.sell
  PROVE  SleeveInv'
<1>1. TypeOK /\ Flow /\ Balance /\ Owned /\ Covered /\ NothingOrphaned
  BY DEF SleeveInv
<1>2. UNCHANGED <<OpenRows, Resting, Coming, Planned, Sum(sleeve)>> /\ faults' # 0
  BY <1>1, SizesAssumption DEF OpenRows, Resting, Coming, Unbooked, Planned, TypeOK
<1>3. TypeOK'
  BY <1>1, <1>2 DEF TypeOK
<1>4. Balance'
  <2>1. Sum(sleeve) + Coming + hand.shares + lost = account
    BY <1>1 DEF Balance, Coming
  <2>2. Balance' <=> Sum(sleeve) + Coming + hand.shares + lost' = account'
    BY <1>2 DEF Balance, Coming
  <2>3. /\ Sum(sleeve) \in Int /\ Coming \in Int /\ hand.shares \in Int
        /\ lost \in Int /\ account \in Int
    BY <1>1, Types
  <2>4. Sum(sleeve) + Coming + hand.shares + lost' = account'
    BY <2>1, <2>3
  <2> QED
    BY <2>2, <2>4
<1>5. Covered' /\ Owned' /\ NothingOrphaned'
  BY <1>1, <1>2 DEF Covered, Owned, Selling, NothingOrphaned
<1>6. StrayIsMislaid' /\ SeenIsCurrent'
  BY <1>1, <1>2, Types DEF Flow, StrayIsMislaid, SeenIsCurrent
<1>7. Flow'
  BY <1>1, <1>2, <1>6 DEF Flow, ClosedIsEmpty, HandOnlyInVisit, SendsWhenSubmitting, FreshHasOrder,
     PlannedIsUnsent, NothingLost, OrphansOnlyExit
<1> QED
  BY <1>3, <1>4, <1>5, <1>7 DEF SleeveInv

(* A share of a stray is filled.                                                *)
LEMMA StrayFillsKeeps ==
  ASSUME SleeveInv, NEW side \in {"buy", "sell"}, StrayFills(side)
  PROVE  SleeveInv'
<1>1. TypeOK /\ Flow /\ Covered
  BY DEF SleeveInv
<1>2. /\ stray[side] > 0 /\ stray' = [stray EXCEPT ![side] = @ - 1]
      /\ account' = account + Signed(side, 1) /\ lost' = lost + Signed(side, 1)
      /\ UNCHANGED <<sleeve, order, fresh, mislaid, phase, todo, hand, plan, seen, trades, faults>>
  BY DEF StrayFills
<1>3. /\ stray \in [buy : Nat, sell : Nat] /\ account \in Int /\ lost \in Int
      /\ Resting \in Nat /\ Planned \in Nat /\ mislaid \in Nat
      /\ faults \in 0..MaxFaults /\ faults \in Int
  BY <1>1, Types, SizesAssumption DEF TypeOK
<1>4. faults # 0
  BY <1>1, <1>2 DEF Flow, NothingLost, NoStray
<1>5. stray' \in [buy : Nat, sell : Nat] /\ stray'.sell = stray.sell - (IF side = "sell" THEN 1 ELSE 0)
  BY <1>2, <1>3
<1>6. /\ account' \in Int /\ lost' \in Int /\ lost' - lost = account' - account
      /\ account' - account >= stray'.sell - stray.sell /\ stray'.sell <= stray.sell
      /\ Resting + stray'.sell + Planned <= account' + mislaid
  BY <1>1, <1>2, <1>3, <1>5 DEF Covered, Signed
<1> QED
  BY <1>2, <1>3, <1>4, <1>5, <1>6, OutsideKeeps

(* The strays end.                                                              *)
LEMMA StraysEndKeeps ==
  ASSUME SleeveInv, StraysEnd
  PROVE  SleeveInv'
<1>1. TypeOK /\ Flow /\ Covered
  BY DEF SleeveInv
<1>2. /\ stray # NoStray /\ stray' = NoStray
      /\ UNCHANGED <<account, sleeve, order, fresh, mislaid, phase, todo, hand, plan, seen, lost,
                     trades, faults>>
  BY DEF StraysEnd
<1>3. /\ stray.sell \in Nat /\ account \in Int /\ lost \in Int
      /\ Resting \in Nat /\ Planned \in Nat /\ mislaid \in Nat
      /\ faults \in 0..MaxFaults /\ faults \in Int
  BY <1>1, Types, SizesAssumption DEF TypeOK
<1>4. faults # 0
  BY <1>1, <1>2 DEF Flow, NothingLost
<1>5. stray' \in [buy : Nat, sell : Nat] /\ stray'.sell = 0
  BY <1>2 DEF NoStray
<1>6. /\ account' \in Int /\ lost' \in Int /\ lost' - lost = account' - account
      /\ account' - account >= stray'.sell - stray.sell /\ stray'.sell <= stray.sell
      /\ Resting + stray'.sell + Planned <= account' + mislaid
  BY <1>1, <1>2, <1>3, <1>5 DEF Covered
<1> QED
  BY <1>2, <1>3, <1>4, <1>5, <1>6, OutsideKeeps

(* Somebody trades outside the platform.                                        *)
LEMMA TradeOutsideKeeps ==
  ASSUME SleeveInv, TradeOutside
  PROVE  SleeveInv'
<1>1. TypeOK /\ Flow /\ Covered
  BY DEF SleeveInv
<1>2. /\ phase = "idle" /\ faults < MaxFaults /\ faults' = faults + 1
      /\ \/ account > Resting + stray.sell /\ account' = account - 1 /\ lost' = lost - 1
         \/ account < MaxHeld /\ account' = account + 1 /\ lost' = lost + 1
      /\ UNCHANGED <<sleeve, order, fresh, stray, mislaid, phase, todo, hand, plan, seen, trades>>
  BY DEF TradeOutside, astray
<1>3. /\ stray \in [buy : Nat, sell : Nat] /\ stray.sell \in Nat /\ account \in Int /\ lost \in Int
      /\ Resting \in Nat /\ Planned \in Nat /\ mislaid \in Nat
      /\ faults \in Nat /\ faults' \in 0..MaxFaults /\ faults' # 0 /\ faults <= faults'
  BY <1>1, <1>2, Types, SizesAssumption DEF TypeOK
<1>4. Planned = 0
  BY <1>1, <1>2, PlannedSum, Types DEF Flow, SendsWhenSubmitting
<1>5. /\ account' \in Int /\ lost' \in Int /\ lost' - lost = account' - account
      /\ stray'.sell <= stray.sell
      /\ Resting + stray'.sell + Planned <= account' + mislaid
  BY <1>1, <1>2, <1>3, <1>4 DEF Covered
<1> QED
  BY <1>2, <1>3, <1>5, OutsideKeeps

(* The worker goes from one phase to the next.                                  *)
LEMMA WorkerKeeps ==
  ASSUME SleeveInv,
         StartTick \/ Reconciled \/ FetchPositions \/ ReconcileAgain \/ FetchForResync
  PROVE  SleeveInv'
<1>1. TypeOK /\ Flow /\ Balance /\ Owned /\ Covered /\ NothingOrphaned
  BY DEF SleeveInv
<1>2. UNCHANGED <<account, order, fresh, stray, mislaid, sleeve, hand, plan, lost, trades, faults>>
  BY DEF StartTick, Reconciled, FetchPositions, ReconcileAgain, FetchForResync, broker, astray
<1>3. UNCHANGED <<OpenRows, Resting, Coming, Planned, Sum(sleeve)>>
  BY <1>2 DEF OpenRows, Resting, Coming, Unbooked, Planned
<1>4. TypeOK'
  BY <1>1, <1>2, <1>3 DEF StartTick, Reconciled, FetchPositions, ReconcileAgain, FetchForResync,
     TypeOK
<1>5. Balance' /\ Covered' /\ Owned' /\ NothingOrphaned'
  BY <1>1, <1>2, <1>3 DEF Balance, Covered, Owned, Selling, NothingOrphaned, Coming
<1>6. ClosedIsEmpty' /\ FreshHasOrder' /\ PlannedIsUnsent' /\ StrayIsMislaid' /\ NothingLost'
      /\ OrphansOnlyExit'
  BY <1>1, <1>2 DEF Flow, ClosedIsEmpty, FreshHasOrder, PlannedIsUnsent, StrayIsMislaid, NothingLost,
     OrphansOnlyExit
<1>7. HandOnlyInVisit' /\ SendsWhenSubmitting'
  BY <1>1, <1>2 DEF Flow, HandOnlyInVisit, SendsWhenSubmitting, StartTick, Reconciled,
     FetchPositions, ReconcileAgain, FetchForResync
<1>8. SeenIsCurrent'
  <2>1. CASE FetchPositions \/ FetchForResync
    <3>1. seen' = account
      BY <2>1 DEF FetchPositions, FetchForResync
    <3> QED
      BY <1>1, <1>2, <3>1, Types DEF Flow, StrayIsMislaid, SeenIsCurrent
  <2>2. CASE StartTick \/ Reconciled \/ ReconcileAgain
    <3>1. phase' \notin {"fetched", "loaded", "resync"}
      BY <2>2 DEF StartTick, Reconciled, ReconcileAgain
    <3> QED
      BY <3>1 DEF SeenIsCurrent
  <2> QED
    BY <2>1, <2>2
<1> QED
  BY <1>4, <1>5, <1>6, <1>7, <1>8 DEF SleeveInv, Flow

(* First transaction of a visit: the fill leaves the row and is in hand.        *)
LEMMA VisitKeeps ==
  ASSUME SleeveInv, NEW s \in Sleeves, Visit(s)
  PROVE  SleeveInv'
<1>1. TypeOK /\ Flow /\ Balance /\ Owned /\ Covered /\ NothingOrphaned
  BY DEF SleeveInv
<1>2. /\ phase \in {"opening", "closing"} /\ s \in todo /\ hand = NoFill
      /\ todo' = todo \ {s}
      /\ hand' = [owner |-> s, shares |-> ComingOf(order[s])]
      /\ UNCHANGED <<account, sleeve, fresh, stray, mislaid, phase, plan, seen, lost, trades, faults>>
  BY DEF Visit, Unbooked, ComingOf, astray
<1>3. /\ order[s] \in Rows /\ order[s].side # "none" /\ order \in [Sleeves -> Rows]
      /\ fresh = {} /\ plan = Nothing
  BY <1>1, <1>2, Types DEF TypeOK, OpenRows, Flow, SendsWhenSubmitting
<1>4. /\ order'[s] = IF order[s].left = 0 THEN NoOrder
                     ELSE [side |-> order[s].side, left |-> order[s].left, unbooked |-> 0]
      /\ \A z \in Sleeves \ {s} : order'[z] = order[z]
      /\ order' \in [Sleeves -> Rows]
  <2> DEFINE row == IF order[s].left = 0 THEN NoOrder ELSE [order[s] EXCEPT !.unbooked = 0]
  <2>1. order' = [order EXCEPT ![s] = row]
    BY DEF Visit
  <2>2. row = IF order[s].left = 0 THEN NoOrder
              ELSE [side |-> order[s].side, left |-> order[s].left, unbooked |-> 0]
    BY <1>3 DEF Rows
  <2>3. row \in Rows
    BY <1>3, <2>2 DEF Rows, NoOrder
  <2> HIDE DEF row
  <2> QED
    BY <1>3, <2>1, <2>2, <2>3
<1>5. todo' \subseteq OpenRows' /\ todo' \subseteq Sleeves
  BY <1>1, <1>2, <1>3, <1>4 DEF TypeOK, OpenRows
<1>6. /\ RestingOf(order'[s]) = RestingOf(order[s]) /\ ComingOf(order'[s]) = 0
      /\ RestingOf(order[s]) \in Nat /\ ComingOf(order[s]) \in Int
  <2>1. RestingOf(order[s]) \in Nat /\ ComingOf(order[s]) \in Int
    BY <1>3, RowParts
  <2>2. RestingOf(order'[s]) = RestingOf(order[s])
    BY <1>3, <1>4 DEF RestingOf, NoOrder, Rows
  <2>3. ComingOf(order'[s]) = 0
    <3>1. order'[s].unbooked \in Nat /\ order'[s].unbooked <= 0
      BY <1>4 DEF NoOrder
    <3> QED
      BY <3>1, NothingComing
  <2> QED
    BY <2>1, <2>2, <2>3
<1>7. Resting' = Resting /\ Coming' = Coming - ComingOf(order[s]) /\ Planned' = Planned
  <2>1. /\ Resting' = Resting + RestingOf(order'[s]) - RestingOf(order[s])
        /\ Coming' = Coming + ComingOf(order'[s]) - ComingOf(order[s])
    BY <1>3, <1>4, OneOrderChanges
  <2> QED
    BY <1>1, <1>2, <1>6, <2>1, Types DEF Planned
<1>8. TypeOK'
  BY <1>1, <1>2, <1>4, <1>5, <1>6 DEF TypeOK, Rows
<1>9. Balance' /\ Covered' /\ NothingOrphaned'
  <2>1. Balance' <=> Sum(sleeve) + Coming' + ComingOf(order[s]) + lost = account
    BY <1>2 DEF Balance, Coming
  <2>2. Sum(sleeve) + Coming + 0 + lost = account
    BY <1>1, <1>2 DEF Balance, Coming, NoFill
  <2>3. Balance'
    BY <1>1, <1>6, <1>7, <2>1, <2>2, Types
  <2> QED
    BY <1>1, <1>2, <1>7, <2>3 DEF Covered, NothingOrphaned
<1>10. Owned'
  <2> SUFFICES ASSUME NEW z \in Sleeves PROVE Selling(z)' + 0 <= sleeve[z]
    BY <1>2, <1>3 DEF Owned, Nothing, AtLeastZero
  <2>1. Selling(z) + 0 <= sleeve[z] /\ sleeve[z] \in Nat /\ order[z] \in Rows
    BY <1>1, <1>3, Types DEF Owned, Nothing, AtLeastZero
  <2>2. Selling(z) = IF order[z].side = "sell" THEN order[z].left + order[z].unbooked ELSE 0
    BY <1>2, <2>1 DEF Selling, NoFill, AtLeastZero, Rows
  <2>3. CASE z = s
    <3>1. Selling(z)' = (IF order'[s].side = "sell" THEN order'[s].left + order'[s].unbooked ELSE 0)
                        + AtLeastZero(-ComingOf(order[s]))
      BY <1>2, <2>3 DEF Selling
    <3> QED
      BY <1>3, <1>4, <2>1, <2>2, <2>3, <3>1 DEF Rows, AtLeastZero, ComingOf, Signed, NoOrder
  <2>4. CASE z # s
    BY <1>2, <1>4, <2>1, <2>2, <2>4 DEF Selling, Rows
  <2> QED
    BY <2>3, <2>4
<1>11. Flow'
  <2>1. OrphansOnlyExit'
    BY <1>1, <1>2, <1>3, <1>4 DEF Flow, OrphansOnlyExit, ComingOf, Signed, NoOrder, Rows, Sleeves
  <2>2. ClosedIsEmpty' /\ FreshHasOrder' /\ PlannedIsUnsent'
    BY <1>1, <1>2, <1>3, <1>4 DEF Flow, ClosedIsEmpty, FreshHasOrder, PlannedIsUnsent, Nothing
  <2> QED
    BY <1>1, <1>2, <2>1, <2>2 DEF Flow, HandOnlyInVisit, SendsWhenSubmitting, SeenIsCurrent,
       StrayIsMislaid, NothingLost
<1> QED
  BY <1>8, <1>9, <1>10, <1>11 DEF SleeveInv

(* Last transaction of a visit: the fill in hand goes to its sleeve.            *)
LEMMA ApplyKeeps ==
  ASSUME SleeveInv, ApplyToSleeve
  PROVE  SleeveInv'
<1>1. TypeOK /\ Flow /\ Balance /\ Owned /\ Covered /\ NothingOrphaned
  BY DEF SleeveInv
<1>2. /\ hand # NoFill /\ sleeve[hand.owner] + hand.shares >= 0
      /\ sleeve' = [sleeve EXCEPT ![hand.owner] = @ + hand.shares]
      /\ hand' = NoFill
      /\ UNCHANGED <<account, order, fresh, stray, mislaid, phase, todo, plan, seen, lost, trades, faults>>
  BY DEF ApplyToSleeve, Owner, broker, astray
<1>3. hand.owner \in Sleeves /\ hand.shares \in Int /\ sleeve \in [Sleeves -> Nat]
  BY <1>1, Types
<1>4. /\ sleeve' \in [Sleeves -> Nat]
      /\ sleeve'[hand.owner] = sleeve[hand.owner] + hand.shares
      /\ \A z \in Sleeves \ {hand.owner} : sleeve'[z] = sleeve[z]
  BY <1>2, <1>3
<1>5. Sum(sleeve') = Sum(sleeve) + hand.shares
  <2>1. sleeve \in [Sleeves -> Int]
    BY <1>1, Types
  <2> QED
    BY <1>2, <1>3, <2>1, OneSleeveChanges
<1>6. UNCHANGED <<OpenRows, Resting, Coming, Planned>> /\ plan = Nothing
  BY <1>1, <1>2 DEF OpenRows, Resting, Coming, Unbooked, Planned, Flow, SendsWhenSubmitting, HandOnlyInVisit
<1>7. TypeOK'
  BY <1>1, <1>2, <1>4, <1>6 DEF TypeOK, NoFill, Sleeves
<1>8. Balance'
  <2>1. Sum(sleeve) + Coming + hand.shares + lost = account
    BY <1>1 DEF Balance, Coming
  <2>2. Balance' <=> Sum(sleeve') + Coming + 0 + lost = account
    BY <1>2, <1>6 DEF Balance, Coming, NoFill
  <2> QED
    BY <1>1, <1>3, <1>5, <2>1, <2>2, Types
<1>9. Covered'
  BY <1>1, <1>2, <1>6 DEF Covered
<1>10. Owned'
  <2> SUFFICES ASSUME NEW z \in Sleeves PROVE Selling(z)' + 0 <= sleeve'[z]
    BY <1>2, <1>6 DEF Owned, Nothing, AtLeastZero
  <2>1. Selling(z) + 0 <= sleeve[z] /\ sleeve[z] \in Nat /\ order[z] \in Rows
    BY <1>1, <1>6, Types DEF Owned, Nothing, AtLeastZero
  <2>2. Selling(z)' = IF order[z].side = "sell" THEN order[z].left + order[z].unbooked ELSE 0
    BY <1>2, <2>1 DEF Selling, NoFill, AtLeastZero, Rows
  <2>3. CASE z = hand.owner
    BY <1>2, <1>3, <1>4, <2>1, <2>2, <2>3 DEF Selling, AtLeastZero, Rows
  <2>4. CASE z # hand.owner
    BY <1>2, <1>3, <1>4, <2>1, <2>2, <2>4 DEF Selling, Rows
  <2> QED
    BY <2>3, <2>4
<1>11. NothingOrphaned'
  <2>1. Unattributed \in Sleeves /\ StartHeld[Unattributed] \in Nat
    BY SizesAssumption DEF Sleeves
  <2>2. sleeve'[Unattributed] <= sleeve[Unattributed]
    <3>1. sleeve[Unattributed] \in Nat
      BY <1>3, <2>1
    <3> QED
      BY <1>1, <1>3, <1>4, <2>1, <3>1 DEF Flow, OrphansOnlyExit
  <2>3. sleeve[Unattributed] \in Nat /\ sleeve'[Unattributed] \in Nat
    BY <1>3, <1>4, <2>1
  <2> QED
    BY <1>1, <1>2, <2>1, <2>2, <2>3 DEF NothingOrphaned
<1>12. Flow'
  BY <1>1, <1>2, <1>6 DEF Flow, ClosedIsEmpty, HandOnlyInVisit, SendsWhenSubmitting, FreshHasOrder,
     PlannedIsUnsent, SeenIsCurrent, StrayIsMislaid, NothingLost, OrphansOnlyExit, NoFill
<1> QED
  BY <1>7, <1>8, <1>9, <1>10, <1>11, <1>12 DEF SleeveInv

(* Nothing open and nothing in hand: the sleeves and what was lost make the     *)
(* account, and nobody is selling.                                              *)
LEMMA Quiet ==
  ASSUME SleeveInv, OpenRows = {}, hand = NoFill, phase # "submitting"
  PROVE  /\ Resting = 0 /\ Coming = 0 /\ plan = Nothing /\ fresh = {} /\ Planned = 0
         /\ Sum(sleeve) + lost = account
         /\ \A s \in Sleeves : order[s] = NoOrder /\ Selling(s) = 0
<1>1. fresh = {} /\ plan = Nothing
  BY DEF SleeveInv, Flow, SendsWhenSubmitting
<1>2. Resting = 0 /\ Coming = 0 /\ Planned = 0
  BY <1>1, Types, RowSums, PlannedSum DEF SleeveInv, Flow
<1>3. Sum(sleeve) + Coming + hand.shares + lost = account
  BY DEF SleeveInv, Balance, Coming
<1>4. Sum(sleeve) + lost = account
  BY <1>2, <1>3, Types DEF SleeveInv, NoFill
<1>5. ASSUME NEW s \in Sleeves PROVE order[s] = NoOrder /\ Selling(s) = 0
  <2>1. order[s] = NoOrder
    BY <1>1 DEF OpenRows, SleeveInv, Flow, ClosedIsEmpty
  <2> QED
    BY <2>1 DEF Selling, NoFill, AtLeastZero, NoOrder
<1> QED
  BY <1>1, <1>2, <1>4, <1>5

(* The sleeves are made to sum to the account as it was fetched.                *)
LEMMA SettleKeeps ==
  ASSUME SleeveInv, OpenRows = {}, hand = NoFill,
         phase \in {"fetched", "resync"}, phase' \in {"idle", "loaded"},
         UNCHANGED <<account, order, fresh, stray, mislaid, todo, hand, plan, seen, trades, faults>>,
         sleeve' \in [Sleeves -> Nat], lost' = account - Sum(sleeve'),
         faults = 0 => lost' = 0 /\ sleeve'[Unattributed] <= sleeve[Unattributed]
  PROVE  SleeveInv'
<1>1. TypeOK /\ Flow /\ Balance /\ Owned /\ Covered /\ NothingOrphaned
  BY DEF SleeveInv
<1>2. /\ Resting = 0 /\ Coming = 0 /\ plan = Nothing /\ fresh = {}
      /\ \A s \in Sleeves : Selling(s) = 0
  BY Quiet
<1>3. /\ UNCHANGED <<OpenRows, Resting, Coming, Planned>>
      /\ \A s \in Sleeves : Selling(s)' = Selling(s)
  BY DEF OpenRows, Resting, Coming, Unbooked, Planned, Selling
<1>4. Sum(sleeve') \in Int
  <2> DEFINE later == sleeve'
  <2>1. \A s \in Sleeves : later[s] \in Int
    OBVIOUS
  <2> HIDE DEF later
  <2>2. SumOver(later, Sleeves) \in Int
    BY <2>1, SumInt, FiniteSleeves
  <2> QED
    BY <2>2 DEF Sum, later
<1>5. TypeOK'
  BY <1>1, <1>3, <1>4, Types DEF TypeOK
<1>6. Balance'
  <2>1. Balance' <=> Sum(sleeve') + Coming' + hand'.shares + lost' = account'
    BY DEF Balance, Coming
  <2> QED
    BY <1>1, <1>2, <1>3, <1>4, <2>1, Types DEF NoFill
<1>7. Covered'
  BY <1>1, <1>3 DEF Covered
<1>8. Owned'
  BY <1>2, <1>3 DEF Owned, Nothing, AtLeastZero
<1>9. NothingOrphaned'
  <2>1. Unattributed \in Sleeves /\ StartHeld[Unattributed] \in Nat
    BY SizesAssumption DEF Sleeves
  <2>2. sleeve[Unattributed] \in Nat /\ sleeve'[Unattributed] \in Nat
    BY <1>1, <2>1, Types
  <2> QED
    BY <1>1, <2>1, <2>2 DEF NothingOrphaned
<1>10. Flow'
  BY <1>1, <1>2, <1>3 DEF Flow, ClosedIsEmpty, HandOnlyInVisit, SendsWhenSubmitting, FreshHasOrder,
     PlannedIsUnsent, SeenIsCurrent, StrayIsMislaid, NothingLost, OrphansOnlyExit
<1> QED
  BY <1>5, <1>6, <1>7, <1>8, <1>9, <1>10 DEF SleeveInv

(* Shares no sleeve owns become orphans.                                        *)
LEMMA OrphansAdded ==
  ASSUME TypeOK, seen > Sum(sleeve),
         sleeve' = [sleeve EXCEPT ![Unattributed] = @ + seen - Sum(sleeve)]
  PROVE  sleeve' \in [Sleeves -> Nat] /\ Sum(sleeve') = seen
<1> DEFINE n == seen - Sum(sleeve)
<1>1. n \in Nat /\ Unattributed \in Sleeves /\ sleeve \in [Sleeves -> Nat] /\ seen = Sum(sleeve) + n
  BY Types DEF Sleeves
<1>2. sleeve' = [sleeve EXCEPT ![Unattributed] = @ + n]
  <2>1. sleeve[Unattributed] \in Int /\ seen \in Int /\ Sum(sleeve) \in Int
    BY <1>1, Types
  <2>2. sleeve[Unattributed] + seen - Sum(sleeve) = sleeve[Unattributed] + n
    BY <2>1
  <2> QED
    BY <1>1, <2>2
<1> HIDE DEF n
<1>3. sleeve' \in [Sleeves -> Nat]
  BY <1>1, <1>2
<1>4. sleeve \in [Sleeves -> Int] /\ n \in Int
  BY <1>1
<1>5. Sum(sleeve') = Sum(sleeve) + n
  <2>1. Sum([sleeve EXCEPT ![Unattributed] = @ + n]) = Sum(sleeve) + n
    BY <1>1, <1>4, OneSleeveChanges
  <2> QED
    BY <1>2, <2>1
<1> QED
  BY <1>1, <1>3, <1>5

(* Over-claims are written down to what the account holds, in name order; a     *)
(* short account leaves nothing.                                                *)
LEMMA WriteDownLands ==
  ASSUME TypeOK, AtLeastZero(seen) <= Sum(sleeve)
  PROVE  /\ WrittenDown \in [Sleeves -> Nat] /\ Sum(WrittenDown) = AtLeastZero(seen)
         /\ seen = Sum(sleeve) => \A s \in Sleeves : WrittenDown[s] = sleeve[s]
<1> DEFINE share == [s \in Sleeves |-> Share(Surplus, sleeve, s)]
           down == WrittenDown
<1>1. sleeve \in [Sleeves -> Nat] /\ seen \in Int /\ AtLeastZero(seen) \in Nat /\ Sum(sleeve) \in Nat
  BY Types DEF AtLeastZero
<1>2. Surplus = Sum(sleeve) - AtLeastZero(seen) /\ Surplus \in Nat
  BY <1>1 DEF Surplus, AtLeastZero
<1>3. \A s \in Sleeves : sleeve[s] \in Nat
  BY <1>1
<1>4. \A s \in Sleeves : /\ share[s] \in Nat /\ share[s] <= sleeve[s]
                         /\ Surplus = 0 => share[s] = 0
  BY <1>2, <1>3, ShareBounds
<1>5. Sum(share) = Least(Surplus, Sum(sleeve))
  BY <1>2, <1>3, SharesSum
<1>6. \A s \in Sleeves : down[s] = sleeve[s] - share[s]
  BY DEF WrittenDown
<1> HIDE DEF share
<1>7. down \in [Sleeves -> Nat]
  BY <1>3, <1>4, <1>6 DEF WrittenDown
<1> HIDE DEF down
<1>8. Sum(sleeve) = Sum(down) + Sum(share)
  <2>1. \A s \in Sleeves : down[s] \in Int /\ share[s] \in Int /\ sleeve[s] = down[s] + share[s]
    BY <1>3, <1>4, <1>6
  <2>2. SumOver(sleeve, Sleeves) = SumOver(down, Sleeves) + SumOver(share, Sleeves)
    BY <2>1, SumPlus, FiniteSleeves
  <2> QED
    BY <2>2 DEF Sum
<1>9. Sum(down) \in Int
  <2>1. \A s \in Sleeves : down[s] \in Int
    BY <1>7
  <2> QED
    BY <2>1, SumInt, FiniteSleeves DEF Sum
<1>10. Sum(down) = AtLeastZero(seen)
  BY <1>1, <1>2, <1>5, <1>8, <1>9 DEF Least
<1>11. seen = Sum(sleeve) => \A s \in Sleeves : down[s] = sleeve[s]
  BY <1>1, <1>2, <1>3, <1>4, <1>6 DEF AtLeastZero
<1> QED
  BY <1>7, <1>10, <1>11 DEF down

(* A step of the worker that leaves everything but the phase.                   *)
LEMMA PhaseKeeps ==
  ASSUME SleeveInv, phase \in {"fetched", "resync"}, phase' \in {"loaded", "idle"},
         UNCHANGED <<account, order, fresh, stray, mislaid, sleeve, todo, hand, plan, seen, lost,
                     trades, faults>>
  PROVE  SleeveInv'
<1>1. TypeOK /\ Flow /\ Balance /\ Owned /\ Covered /\ NothingOrphaned
  BY DEF SleeveInv
<1>2. UNCHANGED <<OpenRows, Resting, Coming, Planned, Sum(sleeve)>>
  BY DEF OpenRows, Resting, Coming, Unbooked, Planned
<1>3. TypeOK' /\ Balance' /\ Covered' /\ Owned' /\ NothingOrphaned'
  BY <1>1, <1>2 DEF TypeOK, Balance, Coming, Covered, Owned, Selling, NothingOrphaned
<1>4. Flow'
  BY <1>1, <1>2 DEF Flow, ClosedIsEmpty, HandOnlyInVisit, SendsWhenSubmitting, FreshHasOrder,
     PlannedIsUnsent, SeenIsCurrent, StrayIsMislaid, NothingLost, OrphansOnlyExit
<1> QED
  BY <1>3, <1>4 DEF SleeveInv

(* Adoption takes only shares that nothing under way accounts for.              *)
LEMMA AdoptKeeps ==
  ASSUME SleeveInv, Adopt
  PROVE  SleeveInv'
<1>1. TypeOK /\ Flow
  BY DEF SleeveInv
<1>2. /\ phase = "fetched" /\ phase' = "loaded"
      /\ UNCHANGED <<account, order, fresh, stray, mislaid, todo, hand, plan, seen, trades, faults>>
  BY DEF Adopt, broker, astray
<1>3. hand = NoFill
  BY <1>1, <1>2 DEF Flow, HandOnlyInVisit
<1>4. CASE Adopts
  <2>1. OpenRows = {} /\ seen > Sum(sleeve) /\ (faults = 0 => seen = account)
    BY <1>1, <1>2, <1>4 DEF Adopts, Flow, SeenIsCurrent
  <2>2. sleeve' = [sleeve EXCEPT ![Unattributed] = @ + seen - Sum(sleeve)] /\ lost' = account - seen
    BY <1>4 DEF Adopt
  <2>3. sleeve' \in [Sleeves -> Nat] /\ Sum(sleeve') = seen
    BY <1>1, <2>1, <2>2, OrphansAdded
  <2>4. faults # 0
    BY <1>1, <1>2, <1>3, <2>1, Quiet, Types DEF Flow, NothingLost
  <2> QED
    BY <1>2, <1>3, <2>1, <2>2, <2>3, <2>4, SettleKeeps
<1>5. CASE ~Adopts
  <2>1. UNCHANGED <<sleeve, lost>>
    BY <1>5 DEF Adopt
  <2> QED
    BY <1>2, <2>1, PhaseKeeps
<1> QED
  BY <1>4, <1>5

(* The resync writes down an excess and adopts a surplus, no more.              *)
LEMMA ResyncKeeps ==
  ASSUME SleeveInv, Resync
  PROVE  SleeveInv'
<1>1. TypeOK /\ Flow
  BY DEF SleeveInv
<1>2. /\ phase = "resync" /\ phase' = "idle"
      /\ UNCHANGED <<account, order, fresh, stray, mislaid, todo, hand, plan, seen, trades, faults>>
  BY DEF Resync, broker, astray
<1>3. hand = NoFill
  BY <1>1, <1>2 DEF Flow, HandOnlyInVisit
<1>4. CASE OpenRows = {}
  <2>1. /\ Sum(sleeve) + lost = account /\ (faults = 0 => seen = account /\ Sum(sleeve) = seen)
    BY <1>1, <1>2, <1>3, <1>4, Quiet, Types DEF Flow, SeenIsCurrent, NothingLost
  <2>2. sleeve' = Resynced /\ lost' = account - AtLeastZero(seen)
    BY <1>4 DEF Resync
  <2>3. Sum(sleeve) \in Nat /\ seen \in Int /\ account \in Int
    BY <1>1, Types
  <2>4. CASE seen > Sum(sleeve)
    <3>1. sleeve' = [sleeve EXCEPT ![Unattributed] = @ + seen - Sum(sleeve)]
      BY <2>2, <2>4 DEF Resynced
    <3>2. sleeve' \in [Sleeves -> Nat] /\ Sum(sleeve') = seen
      BY <1>1, <2>4, <3>1, OrphansAdded
    <3>3. faults # 0 /\ AtLeastZero(seen) = seen
      BY <2>1, <2>3, <2>4 DEF AtLeastZero
    <3> QED
      BY <1>2, <1>3, <1>4, <2>2, <3>2, <3>3, SettleKeeps
  <2>5. CASE ~(seen > Sum(sleeve))
    <3>1. AtLeastZero(seen) <= Sum(sleeve) /\ sleeve' = WrittenDown
      BY <2>2, <2>3, <2>5 DEF Resynced, AtLeastZero
    <3>2. sleeve' \in [Sleeves -> Nat] /\ Sum(sleeve') = AtLeastZero(seen)
      BY <1>1, <3>1, WriteDownLands
    <3>3. faults = 0 => sleeve'[Unattributed] = sleeve[Unattributed]
      <4>1. Unattributed \in Sleeves
        BY DEF Sleeves
      <4> QED
        BY <1>1, <2>1, <3>1, <4>1, WriteDownLands
    <3>4. faults = 0 => sleeve'[Unattributed] <= sleeve[Unattributed]
      <4>1. sleeve[Unattributed] \in Nat
        BY <1>1, Types DEF Sleeves
      <4> QED
        BY <3>3, <4>1
    <3>5. faults = 0 => lost' = 0
      BY <2>1, <2>2, <2>3 DEF AtLeastZero
    <3> QED
      BY <1>2, <1>3, <1>4, <2>2, <3>2, <3>4, <3>5, SettleKeeps
  <2> QED
    BY <2>4, <2>5
<1>5. CASE OpenRows # {}
  <2>1. UNCHANGED <<sleeve, lost>>
    BY <1>5 DEF Resync
  <2> QED
    BY <1>2, <2>1, PhaseKeeps
<1> QED
  BY <1>4, <1>5


(* The evaluation's crosses and orders, when nothing is open.                   *)
Residual(w) == [s \in Sleeves |-> w[s] - Crossed(w)[s]]
Sent(w) == Clamped(Residual(w))

(* What is sent keeps the side wanted, and its sales are what the account shows.*)
LEMMA SentBounds ==
  ASSUME seen \in Int, NEW w \in [Sleeves -> Int]
  PROVE  /\ Residual(w) \in [Sleeves -> Int] /\ Sent(w) \in [Sleeves -> Int]
         /\ \A s \in Sleeves :
              /\ w[s] >= 0 => Sent(w)[s] >= 0
              /\ w[s] <= 0 => Sent(w)[s] <= 0 /\ Sent(w)[s] >= w[s] - Crossed(w)[s]
         /\ Sum(Sends(Residual(w))) <= AtLeastZero(seen)
<1>1. /\ Crossed(w) \in [Sleeves -> Int]
      /\ \A s \in Sleeves :
           /\ w[s] >= 0 => Crossed(w)[s] >= 0 /\ Crossed(w)[s] <= w[s]
           /\ w[s] <= 0 => Crossed(w)[s] <= 0 /\ Crossed(w)[s] >= w[s]
  BY CrossesBalance
<1>2. Residual(w) \in [Sleeves -> Int]
  BY <1>1 DEF Residual
<1>3. \A s \in Sleeves : Residual(w)[s] = w[s] - Crossed(w)[s]
  BY DEF Residual
<1>4. /\ Sent(w) \in [Sleeves -> Int]
      /\ \A s \in Sleeves :
           IF Residual(w)[s] < 0 THEN Sent(w)[s] <= 0 /\ Sent(w)[s] >= Residual(w)[s]
                                 ELSE Sent(w)[s] = Residual(w)[s]
      /\ Sum(Sends(Residual(w))) <= AtLeastZero(seen)
  BY <1>2, ClampCovers DEF Sent
<1>5. ASSUME NEW s \in Sleeves
      PROVE  /\ w[s] >= 0 => Sent(w)[s] >= 0
             /\ w[s] <= 0 => Sent(w)[s] <= 0 /\ Sent(w)[s] >= w[s] - Crossed(w)[s]
  <2>1. w[s] \in Int /\ Crossed(w)[s] \in Int /\ Sent(w)[s] \in Int
    BY <1>1, <1>4
  <2> QED
    BY <1>1, <1>3, <1>4, <2>1
<1> QED
  BY <1>2, <1>4, <1>5

(* With nothing open, what is to be sent is covered by the account and each     *)
(* sale by its sleeve, crosses included.                                        *)
LEMMA CrossKeeps ==
  ASSUME SleeveInv, phase = "loaded", phase' = "submitting", OpenRows = {}, NEW w \in Wants,
         sleeve' = [s \in Sleeves |-> sleeve[s] + Crossed(w)[s]], plan' = Sent(w),
         trades' \in 0..MaxTrades,
         UNCHANGED <<account, order, fresh, stray, mislaid, todo, hand, seen, lost, faults>>
  PROVE  SleeveInv'
<1> DEFINE sent == Sent(w)
<1>1. TypeOK /\ Flow /\ Balance /\ Owned /\ Covered /\ NothingOrphaned
  BY DEF SleeveInv
<1>2. /\ hand = NoFill /\ seen \in Int /\ account \in Int /\ mislaid \in Nat /\ stray.sell \in Nat
      /\ seen + stray.sell <= account + mislaid
  BY <1>1, Types DEF Flow, HandOnlyInVisit, SeenIsCurrent
<1>3. /\ Resting = 0 /\ Coming = 0 /\ Planned = 0 /\ fresh = {}
      /\ \A s \in Sleeves : order[s] = NoOrder /\ Selling(s) = 0
  BY <1>2, Quiet
<1>4. /\ w \in [Sleeves -> Int]
      /\ \A s \in Sleeves : -w[s] <= sleeve[s]
      /\ w[Unattributed] \in {0, -sleeve[Unattributed]}
  BY SizesAssumption DEF Wants
<1>5. /\ Crossed(w) \in [Sleeves -> Int] /\ Sum(Crossed(w)) = 0
      /\ \A s \in Sleeves :
           /\ w[s] >= 0 => Crossed(w)[s] >= 0 /\ Crossed(w)[s] <= w[s]
           /\ w[s] <= 0 => Crossed(w)[s] <= 0 /\ Crossed(w)[s] >= w[s]
  BY <1>4, CrossesBalance
<1>6. /\ sent \in [Sleeves -> Int]
      /\ \A s \in Sleeves :
              /\ w[s] >= 0 => sent[s] >= 0
              /\ w[s] <= 0 => sent[s] <= 0 /\ sent[s] >= w[s] - Crossed(w)[s]
      /\ Sum(Sends(Residual(w))) <= AtLeastZero(seen)
  BY <1>2, <1>4, SentBounds
<1>7. Planned' = Sum(Sends(Residual(w)))
  BY DEF Planned, Sends, Sent
<1> HIDE DEF sent
<1>8. plan' = sent
  BY DEF sent
<1>9. \A s \in Sleeves : sleeve[s] \in Nat
  BY <1>1, Types
<1>10. \A s \in Sleeves : sleeve'[s] = sleeve[s] + Crossed(w)[s] /\ sleeve'[s] \in Nat
  <2> SUFFICES ASSUME NEW s \in Sleeves
               PROVE  sleeve'[s] = sleeve[s] + Crossed(w)[s] /\ sleeve'[s] \in Nat
    OBVIOUS
  <2>1. w[s] \in Int /\ Crossed(w)[s] \in Int /\ sleeve[s] \in Nat /\ -w[s] <= sleeve[s]
    BY <1>4, <1>5, <1>9
  <2> QED
    BY <1>5, <2>1
<1>11. sleeve' \in [Sleeves -> Nat]
  BY <1>10
<1>12. UNCHANGED <<OpenRows, Resting, Coming>> /\ \A s \in Sleeves : Selling(s)' = Selling(s)
  BY DEF OpenRows, Resting, Coming, Unbooked, Selling
<1>13. Sum(sleeve') = Sum(sleeve)
  <2> DEFINE crossed == Crossed(w)
             later == sleeve'
  <2>1. \A s \in Sleeves : sleeve[s] \in Int /\ crossed[s] \in Int /\ later[s] = sleeve[s] + crossed[s]
    BY <1>5, <1>9, <1>10
  <2>2. SumOver(crossed, Sleeves) = 0
    BY <1>5 DEF Sum
  <2> HIDE DEF crossed, later
  <2>3. SumOver(later, Sleeves) = SumOver(sleeve, Sleeves) + SumOver(crossed, Sleeves)
    BY <2>1, SumPlus, FiniteSleeves
  <2>4. SumOver(sleeve, Sleeves) \in Nat
    BY <1>1, Types DEF Sum
  <2>5. SumOver(later, Sleeves) = SumOver(sleeve, Sleeves)
    BY <2>2, <2>3, <2>4
  <2> QED
    BY <2>5 DEF Sum, later
<1>14. Covered'
  <2>1. Planned' \in Int /\ Planned' <= AtLeastZero(seen)
    <3>1. sent \in [Sleeves -> Int] /\ plan' \in [Sleeves -> Int]
      BY <1>6, <1>8
    <3>2. \A s \in Sleeves : AtLeastZero(-plan'[s]) \in Int
      BY <3>1 DEF AtLeastZero
    <3> DEFINE sales == [s \in Sleeves |-> AtLeastZero(-plan'[s])]
    <3>3. Planned' = SumOver(sales, Sleeves) /\ \A s \in Sleeves : sales[s] \in Int
      BY <3>2 DEF Planned, Sum
    <3> HIDE DEF sales
    <3>4. Planned' \in Int
      BY <3>3, SumInt, FiniteSleeves
    <3> QED
      BY <1>6, <1>7, <3>4
  <2>2. 0 + stray.sell + 0 <= account + mislaid
    BY <1>1, <1>3 DEF Covered
  <2>3. 0 + stray.sell + Planned' <= account + mislaid
    BY <1>2, <2>1, <2>2 DEF AtLeastZero
  <2> QED
    BY <1>3, <1>12, <2>3 DEF Covered
<1>15. Owned'
  <2> SUFFICES ASSUME NEW s \in Sleeves PROVE 0 + AtLeastZero(-sent[s]) <= sleeve'[s]
    BY <1>3, <1>8, <1>12 DEF Owned
  <2>1. /\ w[s] \in Int /\ Crossed(w)[s] \in Int /\ sleeve[s] \in Nat /\ -w[s] <= sleeve[s]
        /\ sent[s] \in Int
    BY <1>4, <1>5, <1>6, <1>9
  <2> QED
    BY <1>5, <1>6, <1>10, <2>1 DEF AtLeastZero
<1>16. w[Unattributed] <= 0 /\ Unattributed \in Sleeves
  BY <1>4, <1>9 DEF Sleeves
<1>17. Flow'
  <2>1. OrphansOnlyExit'
    BY <1>1, <1>6, <1>8, <1>16 DEF Flow, OrphansOnlyExit
  <2>2. PlannedIsUnsent'
    BY <1>3 DEF PlannedIsUnsent
  <2> QED
    BY <1>1, <1>2, <2>1, <2>2 DEF Flow, ClosedIsEmpty, HandOnlyInVisit, SendsWhenSubmitting,
       FreshHasOrder, SeenIsCurrent, StrayIsMislaid, NothingLost
<1>18. NothingOrphaned'
  <2>1. /\ sleeve'[Unattributed] = sleeve[Unattributed] + Crossed(w)[Unattributed]
        /\ Crossed(w)[Unattributed] <= 0 /\ Crossed(w)[Unattributed] \in Int
        /\ sleeve[Unattributed] \in Nat /\ StartHeld[Unattributed] \in Nat
    BY <1>5, <1>9, <1>10, <1>16, SizesAssumption
  <2> QED
    BY <1>1, <2>1 DEF NothingOrphaned
<1>19. Balance'
  <2>1. Sum(sleeve) + Coming + hand.shares + lost = account
    BY <1>1 DEF Balance, Coming
  <2>2. Balance' <=> Sum(sleeve') + Coming' + hand.shares + lost = account
    BY DEF Balance, Coming
  <2> QED
    BY <1>12, <1>13, <2>1, <2>2
<1>20. TypeOK'
  BY <1>1, <1>6, <1>8, <1>11, <1>12 DEF TypeOK
<1> QED
  BY <1>14, <1>15, <1>17, <1>18, <1>19, <1>20 DEF SleeveInv

(* With an order open on the symbol every intent is held back.                  *)
LEMMA HeldBackChangesNothing ==
  ASSUME TypeOK, sleeve' = [s \in Sleeves |-> sleeve[s] + Crossed(Nothing)[s]],
         plan' = Sent(Nothing)
  PROVE  sleeve' = sleeve /\ plan' = Nothing
<1> DEFINE zero == Nothing
<1>1. seen \in Int /\ sleeve \in [Sleeves -> Nat]
  BY Types
<1>2. zero \in [Sleeves -> Int] /\ \A s \in Sleeves : zero[s] = 0
  BY DEF Nothing
<1>3. \A s \in Sleeves : Crossed(zero)[s] = 0
  <2>1. /\ Crossed(zero) \in [Sleeves -> Int]
        /\ \A s \in Sleeves :
           /\ zero[s] >= 0 => Crossed(zero)[s] >= 0 /\ Crossed(zero)[s] <= zero[s]
           /\ zero[s] <= 0 => Crossed(zero)[s] <= 0 /\ Crossed(zero)[s] >= zero[s]
    BY <1>2, CrossesBalance
  <2> QED
    BY <1>2, <2>1
<1>4. Sent(zero) \in [Sleeves -> Int] /\ \A s \in Sleeves : Sent(zero)[s] = 0
  <2>1. /\ Sent(zero) \in [Sleeves -> Int]
        /\ \A s \in Sleeves :
              /\ zero[s] >= 0 => Sent(zero)[s] >= 0
              /\ zero[s] <= 0 => Sent(zero)[s] <= 0
    BY <1>1, <1>2, SentBounds
  <2> QED
    BY <1>2, <2>1
<1>5. sleeve' = sleeve
  <2>1. \A s \in Sleeves : sleeve[s] + Crossed(zero)[s] = sleeve[s]
    BY <1>1, <1>3
  <2> QED
    BY <1>1, <2>1
<1>6. plan' = Nothing
  BY <1>4 DEF Nothing
<1> QED
  BY <1>5, <1>6

(* An evaluation crosses, clamps and plans without creating or losing a share.  *)
LEMMA EvaluateKeeps ==
  ASSUME SleeveInv, Evaluate
  PROVE  SleeveInv'
<1>1. TypeOK /\ Flow /\ Balance /\ Owned /\ Covered /\ NothingOrphaned
  BY DEF SleeveInv
<1>2. /\ phase = "loaded" /\ phase' = "submitting"
      /\ UNCHANGED <<account, order, fresh, stray, mislaid, todo, hand, seen, lost, faults>>
  BY DEF Evaluate, broker, astray
<1>3. plan = Nothing
  BY <1>1, <1>2 DEF Flow, SendsWhenSubmitting
<1>4. trades' \in 0..MaxTrades
  BY <1>1, SizesAssumption DEF Evaluate, TypeOK
<1>5. ASSUME sleeve' = sleeve, plan' = Nothing
      PROVE  SleeveInv'
  <2>1. UNCHANGED <<OpenRows, Resting, Coming, Planned, Sum(sleeve)>>
    BY <1>2, <1>3, <1>5 DEF OpenRows, Resting, Coming, Unbooked, Planned
  <2>2. TypeOK' /\ Balance' /\ Covered' /\ Owned' /\ NothingOrphaned'
    BY <1>1, <1>2, <1>3, <1>4, <1>5, <2>1 DEF TypeOK, Balance, Coming, Covered, Owned,
       Selling, NothingOrphaned
  <2>3. Flow'
    BY <1>1, <1>2, <1>3, <1>5 DEF Flow, ClosedIsEmpty, HandOnlyInVisit, SendsWhenSubmitting,
       FreshHasOrder, PlannedIsUnsent, SeenIsCurrent, StrayIsMislaid, NothingLost, OrphansOnlyExit
  <2> QED
    BY <2>2, <2>3 DEF SleeveInv
<1>6. ASSUME NEW w \in Wants,
             sleeve' = [s \in Sleeves |-> sleeve[s] + Crossed(HoldBack(w))[s]],
             plan' = Sent(HoldBack(w))
      PROVE  SleeveInv'
  <2>1. ASSUME OpenRows = {} PROVE SleeveInv'
    <3>1. HoldBack(w) = w
      BY <2>1 DEF HoldBack
    <3> QED
      BY <1>2, <1>4, <1>6, <2>1, <3>1, CrossKeeps
  <2>2. ASSUME OpenRows # {} PROVE SleeveInv'
    <3>1. HoldBack(w) = Nothing
      BY <2>2 DEF HoldBack
    <3>2. sleeve' = sleeve /\ plan' = Nothing
      BY <1>1, <1>6, <3>1, HeldBackChangesNothing
    <3> QED
      BY <1>5, <3>2
  <2> QED
    BY <2>1, <2>2
<1>7. \/ UNCHANGED <<sleeve, plan>>
      \/ \E w \in Wants : /\ sleeve' = [s \in Sleeves |-> sleeve[s] + Crossed(HoldBack(w))[s]]
                          /\ plan' = Sent(HoldBack(w))
  BY DEF Evaluate, Sent, Residual
<1> QED
  BY <1>3, <1>5, <1>6, <1>7

(* An order just sent rests by what it sells and has no fill.                   *)
LEMMA NewOrder ==
  ASSUME NEW n \in Int
  PROVE  /\ Order(n) \in Rows /\ ComingOf(Order(n)) = 0
         /\ RestingOf(Order(n)) = AtLeastZero(-n)
         /\ Order(n).side = "none" => Order(n) = NoOrder
         /\ n <= 0 => Order(n).side # "buy"
         /\ n > 0 \/ n < 0 => Order(n).side \in {"buy", "sell"}
         /\ Order(n).unbooked = 0
<1>1. Order(n) = IF n = 0 THEN NoOrder
                 ELSE IF n > 0 THEN [side |-> "buy", unbooked |-> 0, left |-> n]
                               ELSE [side |-> "sell", unbooked |-> 0, left |-> -n]
  BY DEF Order
<1>2. Order(n).unbooked \in Nat /\ Order(n).unbooked <= 0 /\ Order(n).unbooked = 0
  BY <1>1 DEF NoOrder
<1>3. ComingOf(Order(n)) = 0
  BY <1>2, NothingComing
<1>4. CASE n >= 0 /\ n <= 0
  <2>1. Order(n) = NoOrder
    BY <1>1, <1>4
  <2>2. AtLeastZero(-n) = 0
    BY <1>4 DEF AtLeastZero
  <2> QED
    BY <1>2, <1>3, <1>4, <2>1, <2>2 DEF NoOrder, Rows, RestingOf
<1>5. CASE n > 0
  BY <1>1, <1>3, <1>5 DEF Rows, RestingOf, AtLeastZero
<1>6. CASE n < 0
  BY <1>1, <1>3, <1>6 DEF Rows, RestingOf, AtLeastZero
<1> QED
  BY <1>4, <1>5, <1>6

(* One intent is sent: it leaves the plan for the broker, goes astray, or is    *)
(* refused.                                                                     *)
LEMMA SendKeeps ==
  ASSUME SleeveInv, NEW s \in Sleeves, Send(s)
  PROVE  SleeveInv'
<1> DEFINE n == plan[s]
           row == Order(n)
<1>1. TypeOK /\ Flow /\ Balance /\ Owned /\ Covered /\ NothingOrphaned
  BY DEF SleeveInv
<1>2. /\ phase = "submitting" /\ fresh = {} /\ n # 0
      /\ plan' = [plan EXCEPT ![s] = 0]
      /\ UNCHANGED <<account, sleeve, phase, todo, hand, seen, lost, trades>>
  BY DEF Send
<1>3. \/ order' = [order EXCEPT ![s] = row] /\ fresh' = {s} /\ UNCHANGED <<stray, mislaid, faults>>
      \/ /\ faults < MaxFaults /\ faults' = faults + 1
         /\ Mislay(row.side, row.left) /\ UNCHANGED <<order, fresh>>
      \/ UNCHANGED <<order, fresh, stray, mislaid, faults>>
  BY DEF Send, astray
<1>4. /\ plan \in [Sleeves -> Int] /\ n \in Int /\ order \in [Sleeves -> Rows]
      /\ order[s] = NoOrder /\ hand = NoFill
      /\ stray \in [buy : Nat, sell : Nat] /\ stray.sell \in Nat /\ mislaid \in Nat
      /\ account \in Int /\ Resting \in Nat /\ Planned \in Nat /\ Coming \in Int
  BY <1>1, <1>2, Types DEF Flow, PlannedIsUnsent, HandOnlyInVisit
<1>5. /\ row \in Rows /\ ComingOf(row) = 0 /\ RestingOf(row) = AtLeastZero(-n)
      /\ n <= 0 => row.side # "buy"
      /\ row.side \in {"buy", "sell"} /\ row.unbooked = 0
  BY <1>2, <1>4, NewOrder
<1>6. /\ plan' \in [Sleeves -> Int] /\ plan'[s] = 0 /\ \A z \in Sleeves \ {s} : plan'[z] = plan[z]
  BY <1>2, <1>4
<1>7. Planned' = Planned - AtLeastZero(-n)
  <2>1. Planned' = Planned + AtLeastZero(-plan'[s]) - AtLeastZero(-plan[s])
    BY <1>4, <1>6, OnePlanChanges
  <2>2. AtLeastZero(-plan'[s]) = 0
    BY <1>6, NoSale
  <2>3. AtLeastZero(-n) \in Int
    BY <1>4 DEF AtLeastZero
  <2> QED
    BY <1>4, <2>1, <2>2, <2>3
<1>8. AtLeastZero(-n) \in Nat
  BY <1>4 DEF AtLeastZero
<1>9. Selling(s) = 0 /\ AtLeastZero(-n) <= sleeve[s] /\ sleeve[s] \in Nat
  <2>1. Selling(s) = 0
    BY <1>4 DEF Selling, NoOrder, NoFill, AtLeastZero
  <2>2. Selling(s) + AtLeastZero(-n) <= sleeve[s] /\ sleeve[s] \in Nat
    BY <1>1, Types DEF Owned
  <2> QED
    BY <1>8, <2>1, <2>2
<1> HIDE DEF n, row
<1>10. ASSUME order' = [order EXCEPT ![s] = row], fresh' = {s}, UNCHANGED <<stray, mislaid, faults>>
       PROVE  SleeveInv'
  <2>1. /\ order' \in [Sleeves -> Rows] /\ order'[s] = row
        /\ \A z \in Sleeves \ {s} : order'[z] = order[z]
    BY <1>4, <1>5, <1>10
  <2>2. Resting' = Resting + AtLeastZero(-n) /\ Coming' = Coming
    <3>1. /\ Resting' = Resting + RestingOf(order'[s]) - RestingOf(order[s])
          /\ Coming' = Coming + ComingOf(order'[s]) - ComingOf(order[s])
      BY <1>4, <2>1, OneOrderChanges
    <3> QED
      BY <1>4, <1>5, <1>8, <2>1, <3>1, NoOrderParts
  <2>3. OpenRows' = OpenRows
    BY <1>2, <1>4, <1>10, <2>1 DEF OpenRows, NoOrder
  <2>4. TypeOK'
    BY <1>1, <1>2, <1>6, <1>10, <2>1, <2>3 DEF TypeOK, Rows
  <2>5. Balance'
    BY <1>1, <1>2, <2>2 DEF Balance, Coming
  <2>6. Covered'
    BY <1>1, <1>2, <1>4, <1>7, <1>8, <1>10, <2>2 DEF Covered
  <2>7. Owned'
    <3> SUFFICES ASSUME NEW z \in Sleeves PROVE Selling(z)' + AtLeastZero(-plan'[z]) <= sleeve[z]
      BY <1>2 DEF Owned
    <3>1. CASE z = s
      <4>1. Selling(s)' = RestingOf(row)
        <5>1. Selling(s)' = (IF row.side = "sell" THEN row.left + 0 ELSE 0) + 0
          BY <1>2, <1>4, <1>5, <2>1 DEF Selling, NoFill, AtLeastZero
        <5> QED
          BY <1>5, <5>1 DEF RestingOf, Rows
      <4>2. AtLeastZero(-plan'[s]) = 0
        BY <1>6, NoSale
      <4> QED
        BY <1>5, <1>8, <1>9, <3>1, <4>1, <4>2
    <3>2. CASE z # s
      BY <1>1, <1>2, <1>6, <2>1, <3>2 DEF Owned, Selling
    <3> QED
      BY <3>1, <3>2
  <2>8. ClosedIsEmpty'
    BY <1>1, <1>5, <2>1 DEF Flow, ClosedIsEmpty
  <2>9. FreshHasOrder'
    BY <1>5, <1>10, <2>1 DEF FreshHasOrder
  <2>10. PlannedIsUnsent'
    BY <1>1, <1>6, <2>1 DEF Flow, PlannedIsUnsent
  <2>11. OrphansOnlyExit'
    <3>1. CASE s = Unattributed
      BY <1>1, <1>2, <1>5, <1>6, <2>1, <3>1 DEF Flow, OrphansOnlyExit, n
    <3>2. CASE s # Unattributed
      BY <1>1, <1>2, <1>6, <2>1, <3>2 DEF Flow, OrphansOnlyExit, Sleeves
    <3> QED
      BY <3>1, <3>2
  <2>12. Flow'
    BY <1>1, <1>2, <1>10, <2>8, <2>9, <2>10, <2>11 DEF Flow, HandOnlyInVisit, SendsWhenSubmitting,
       SeenIsCurrent, StrayIsMislaid, NothingLost
  <2>13. NothingOrphaned'
    BY <1>1, <1>2, <1>10 DEF NothingOrphaned
  <2> QED
    BY <2>4, <2>5, <2>6, <2>7, <2>12, <2>13 DEF SleeveInv
<1>11. ASSUME UNCHANGED <<order, fresh>>, faults' \in 0..MaxFaults,
              faults' = 0 => faults = 0 /\ stray' = stray,
              stray' \in [buy : Nat, sell : Nat], mislaid' \in Nat,
              stray'.sell - stray.sell = mislaid' - mislaid, stray'.sell >= stray.sell
       PROVE  SleeveInv'
  <2>1. UNCHANGED <<OpenRows, Resting, Coming, Sum(sleeve)>> /\ stray'.sell \in Nat
    BY <1>2, <1>11 DEF OpenRows, Resting, Coming, Unbooked
  <2>2. TypeOK'
    BY <1>1, <1>2, <1>6, <1>11, <2>1 DEF TypeOK
  <2>3. Balance'
    BY <1>1, <1>2, <1>11, <2>1 DEF Balance, Coming
  <2>4. Covered'
    BY <1>1, <1>2, <1>4, <1>7, <1>8, <1>11, <2>1 DEF Covered
  <2>5. Owned'
    <3> SUFFICES ASSUME NEW z \in Sleeves PROVE Selling(z) + AtLeastZero(-plan'[z]) <= sleeve[z]
      BY <1>2, <1>11 DEF Owned, Selling
    <3>1. CASE z = s
      <4>1. AtLeastZero(-plan'[s]) = 0
        BY <1>6, NoSale
      <4> QED
        BY <1>9, <3>1, <4>1
    <3>2. CASE z # s
      BY <1>1, <1>6, <3>2 DEF Owned
    <3> QED
      BY <3>1, <3>2
  <2>6. PlannedIsUnsent' /\ OrphansOnlyExit'
    BY <1>1, <1>2, <1>6, <1>11 DEF Flow, PlannedIsUnsent, OrphansOnlyExit, Sleeves
  <2>7. StrayIsMislaid'
    BY <1>1, <1>4, <1>11, <2>1 DEF Flow, StrayIsMislaid
  <2>8. Flow'
    BY <1>1, <1>2, <1>11, <2>6, <2>7 DEF Flow, ClosedIsEmpty, HandOnlyInVisit, SendsWhenSubmitting,
       FreshHasOrder, SeenIsCurrent, NothingLost
  <2>9. NothingOrphaned'
    BY <1>1, <1>2, <1>11 DEF NothingOrphaned
  <2> QED
    BY <2>2, <2>3, <2>4, <2>5, <2>8, <2>9 DEF SleeveInv
<1>12. ASSUME faults < MaxFaults, faults' = faults + 1, Mislay(row.side, row.left),
              UNCHANGED <<order, fresh>>
       PROVE  SleeveInv'
  <2>1. faults' \in 0..MaxFaults /\ faults' # 0
    BY <1>1, <1>12, SizesAssumption DEF TypeOK
  <2>2. row.left \in Nat /\ row.side \in {"buy", "sell"}
    BY <1>5 DEF Rows
  <2>3. /\ stray' = [stray EXCEPT ![row.side] = @ + row.left]
        /\ mislaid' = mislaid + (IF row.side = "sell" THEN row.left ELSE 0)
    BY <1>12 DEF Mislay
  <2>4. CASE row.side = "sell"
    <3>1. /\ stray' = [stray EXCEPT !.sell = stray.sell + row.left] /\ mislaid' = mislaid + row.left
      BY <1>4, <2>3, <2>4
    <3>2. stray' \in [buy : Nat, sell : Nat] /\ stray'.sell = stray.sell + row.left
      BY <1>4, <2>2, <3>1
    <3> QED
      BY <1>4, <1>11, <1>12, <2>1, <2>2, <3>1, <3>2
  <2>5. CASE row.side = "buy"
    <3>1. stray' = [stray EXCEPT !.buy = stray.buy + row.left] /\ mislaid' = mislaid + 0
      BY <1>4, <2>3, <2>5
    <3>2. stray' \in [buy : Nat, sell : Nat] /\ stray'.sell = stray.sell
      BY <1>4, <2>2, <3>1
    <3> QED
      BY <1>4, <1>11, <1>12, <2>1, <2>2, <3>1, <3>2
  <2> QED
    BY <2>2, <2>4, <2>5
<1>13. ASSUME UNCHANGED <<order, fresh, stray, mislaid, faults>>
       PROVE  SleeveInv'
  <2>1. faults' \in 0..MaxFaults
    BY <1>1, <1>13 DEF TypeOK
  <2> QED
    BY <1>4, <1>11, <1>13, <2>1
<1> QED
  BY <1>3, <1>10, <1>12, <1>13

(* The row commits: open, or closed with its fill in the sleeve.                *)
LEMMA RecordKeeps ==
  ASSUME SleeveInv, NEW s \in Sleeves, Record(s)
  PROVE  SleeveInv'
<1>1. TypeOK /\ Flow /\ Balance /\ Owned /\ Covered /\ NothingOrphaned
  BY DEF SleeveInv
<1>2. /\ s \in fresh /\ fresh' = {}
      /\ UNCHANGED <<account, stray, mislaid, phase, todo, hand, plan, seen, lost, trades, faults>>
      /\ \/ UNCHANGED <<order, sleeve>>
         \/ /\ order[s].left = 0
            /\ sleeve' = [sleeve EXCEPT ![s] = @ + ComingOf(order[s])]
            /\ order' = [order EXCEPT ![s] = NoOrder]
  BY DEF Record, Unbooked, ComingOf, astray
<1>3. /\ phase = "submitting" /\ hand = NoFill /\ order[s].side # "none" /\ plan[s] = 0
      /\ order \in [Sleeves -> Rows] /\ order[s] \in Rows /\ sleeve \in [Sleeves -> Nat]
      /\ plan \in [Sleeves -> Int] /\ Sum(sleeve) \in Nat /\ Coming \in Int /\ Resting \in Nat
  BY <1>1, <1>2, Types DEF Flow, SendsWhenSubmitting, HandOnlyInVisit, FreshHasOrder,
     PlannedIsUnsent, NoOrder
<1>4. ASSUME UNCHANGED <<order, sleeve>> PROVE SleeveInv'
  <2>1. OpenRows \subseteq OpenRows'
    BY <1>2, <1>4 DEF OpenRows
  <2>2. UNCHANGED <<Resting, Coming, Planned, Sum(sleeve)>>
    BY <1>2, <1>4 DEF Resting, Coming, Unbooked, Planned
  <2>3. TypeOK' /\ Balance' /\ Covered' /\ Owned' /\ NothingOrphaned'
    BY <1>1, <1>2, <1>4, <2>1, <2>2 DEF TypeOK, Balance, Coming, Covered, Owned, Selling,
       NothingOrphaned
  <2>4. Flow'
    BY <1>1, <1>2, <1>3, <1>4 DEF Flow, ClosedIsEmpty, HandOnlyInVisit, SendsWhenSubmitting,
       FreshHasOrder, PlannedIsUnsent, SeenIsCurrent, StrayIsMislaid, NothingLost, OrphansOnlyExit
  <2> QED
    BY <2>3, <2>4 DEF SleeveInv
<1>5. ASSUME order[s].left = 0, sleeve' = [sleeve EXCEPT ![s] = @ + ComingOf(order[s])],
             order' = [order EXCEPT ![s] = NoOrder]
      PROVE  SleeveInv'
  <2> DEFINE n == ComingOf(order[s])
  <2>1. n \in Int /\ RestingOf(order[s]) = 0
    BY <1>3, <1>5, RowParts DEF RestingOf
  <2>2. sleeve[s] + n \in Nat
    <3>1. /\ Selling(s) + AtLeastZero(-plan[s]) <= sleeve[s] /\ sleeve[s] \in Nat
          /\ AtLeastZero(-plan[s]) = 0
      BY <1>1, <1>3, NoSale DEF Owned
    <3>2. Selling(s) = (IF order[s].side = "sell" THEN 0 + order[s].unbooked ELSE 0) + 0
      BY <1>3, <1>5 DEF Selling, NoFill, AtLeastZero
    <3> QED
      BY <1>3, <3>1, <3>2 DEF ComingOf, Signed, Rows
  <2>3. n <= 0 \/ s # Unattributed
    BY <1>1, <1>3 DEF Flow, OrphansOnlyExit, ComingOf, Signed, Rows
  <2> HIDE DEF n
  <2>4. /\ order' \in [Sleeves -> Rows] /\ order'[s] = NoOrder
        /\ \A z \in Sleeves \ {s} : order'[z] = order[z]
    BY <1>3, <1>5, NoOrderParts
  <2>5. sleeve' = [sleeve EXCEPT ![s] = @ + n]
    BY <1>5 DEF n
  <2>6. /\ sleeve' \in [Sleeves -> Nat] /\ sleeve'[s] = sleeve[s] + n
        /\ \A z \in Sleeves \ {s} : sleeve'[z] = sleeve[z]
    BY <1>3, <2>2, <2>5
  <2>7. Sum(sleeve') = Sum(sleeve) + n
    <3>1. sleeve \in [Sleeves -> Int]
      BY <1>3
    <3> QED
      BY <2>1, <2>5, <3>1, OneSleeveChanges
  <2>8. Resting' = Resting /\ Coming' = Coming - n /\ Planned' = Planned
    <3>1. /\ Resting' = Resting + RestingOf(order'[s]) - RestingOf(order[s])
          /\ Coming' = Coming + ComingOf(order'[s]) - ComingOf(order[s])
      BY <1>3, <2>4, OneOrderChanges
    <3>2. Planned' = Planned
      BY <1>2 DEF Planned
    <3>3. ComingOf(order[s]) = n
      BY DEF n
    <3> QED
      BY <1>3, <2>1, <2>4, <3>1, <3>2, <3>3, NoOrderParts
  <2>9. OpenRows \subseteq OpenRows'
    BY <1>2, <2>4 DEF OpenRows
  <2>10. TypeOK'
    BY <1>1, <1>2, <2>4, <2>6, <2>9 DEF TypeOK, Rows
  <2>11. Balance'
    <3>1. Sum(sleeve) + Coming + hand.shares + lost = account
      BY <1>1 DEF Balance, Coming
    <3>2. Balance' <=> Sum(sleeve') + Coming' + hand.shares + lost = account
      BY <1>2 DEF Balance, Coming
    <3> QED
      BY <1>1, <1>3, <2>1, <2>7, <2>8, <3>1, <3>2, Types
  <2>12. Covered'
    BY <1>1, <1>2, <2>8 DEF Covered
  <2>13. Owned'
    <3> SUFFICES ASSUME NEW z \in Sleeves PROVE Selling(z)' + AtLeastZero(-plan[z]) <= sleeve'[z]
      BY <1>2 DEF Owned
    <3>1. CASE z = s
      <4>1. Selling(s)' = 0
        BY <1>2, <1>3, <2>4 DEF Selling, NoOrder, NoFill, AtLeastZero
      <4>2. AtLeastZero(-plan[s]) = 0
        BY <1>3, NoSale
      <4> QED
        BY <2>6, <3>1, <4>1, <4>2
    <3>2. CASE z # s
      BY <1>1, <1>2, <2>4, <2>6, <3>2 DEF Owned, Selling
    <3> QED
      BY <3>1, <3>2
  <2>14. ClosedIsEmpty' /\ PlannedIsUnsent'
    BY <1>1, <1>2, <2>4 DEF Flow, ClosedIsEmpty, PlannedIsUnsent
  <2>15. OrphansOnlyExit'
    BY <1>1, <1>2, <2>4 DEF Flow, OrphansOnlyExit, NoOrder, Sleeves
  <2>16. Flow'
    BY <1>1, <1>2, <1>3, <2>14, <2>15 DEF Flow, HandOnlyInVisit, SendsWhenSubmitting, FreshHasOrder,
       SeenIsCurrent, StrayIsMislaid, NothingLost
  <2>17. NothingOrphaned'
    <3>1. Unattributed \in Sleeves /\ StartHeld[Unattributed] \in Nat
      BY SizesAssumption DEF Sleeves
    <3>2. sleeve[Unattributed] \in Nat /\ sleeve'[Unattributed] <= sleeve[Unattributed]
      BY <1>3, <2>1, <2>3, <2>6, <3>1
    <3>3. sleeve'[Unattributed] \in Nat
      BY <2>6, <3>1
    <3> QED
      BY <1>1, <1>2, <3>1, <3>2, <3>3 DEF NothingOrphaned
  <2> QED
    BY <2>10, <2>11, <2>12, <2>13, <2>16, <2>17 DEF SleeveInv
<1> QED
  BY <1>2, <1>4, <1>5

(* A crash loses the fill in hand, and leaves an order without its row astray.  *)
LEMMA CrashKeeps ==
  ASSUME SleeveInv, Crash
  PROVE  SleeveInv'
<1>1. TypeOK /\ Flow /\ Balance /\ Owned /\ Covered /\ NothingOrphaned
  BY DEF SleeveInv
<1>2. /\ faults < MaxFaults /\ faults' = faults + 1
      /\ fresh' = {} /\ hand' = NoFill /\ plan' = Nothing /\ phase' = "idle" /\ todo' = {}
      /\ UNCHANGED <<account, sleeve, seen, trades>>
  BY DEF Crash
<1>3. \/ fresh = {} /\ lost' = lost + hand.shares /\ UNCHANGED <<order, stray, mislaid>>
      \/ \E s \in fresh : /\ lost' = lost + hand.shares + ComingOf(order[s])
                          /\ order' = [order EXCEPT ![s] = NoOrder]
                          /\ Mislay(order[s].side, order[s].left)
  BY DEF Crash, Unbooked, ComingOf, astray
<1>4. /\ hand.owner \in Sleeves /\ hand.shares \in Int /\ lost \in Int /\ account \in Int
      /\ stray \in [buy : Nat, sell : Nat] /\ stray.sell \in Nat /\ mislaid \in Nat
      /\ order \in [Sleeves -> Rows] /\ sleeve \in [Sleeves -> Nat] /\ Sum(sleeve) \in Nat
      /\ Resting \in Nat /\ Coming \in Int /\ Planned \in Nat
  BY <1>1, Types
<1>5. faults' \in 0..MaxFaults /\ faults' # 0
  BY <1>1, <1>2, SizesAssumption DEF TypeOK
<1>6. Nothing \in [Sleeves -> Int] /\ NoFill \in [owner : Sleeves, shares : Int]
  BY DEF Nothing, NoFill, Sleeves
<1>7. Planned' = 0
  <2> DEFINE sales == [s \in Sleeves |-> AtLeastZero(-plan'[s])]
  <2>1. Planned' = SumOver(sales, Sleeves) /\ \A s \in Sleeves : sales[s] = 0
    BY <1>2, NoSale DEF Planned, Sum, Nothing
  <2> HIDE DEF sales
  <2> QED
    BY <2>1, SumZero, FiniteSleeves
<1>8. ASSUME NEW gone \in Int, order' \in [Sleeves -> Rows], ClosedIsEmpty',
             \A z \in Sleeves : order'[z] = order[z] \/ order'[z] = NoOrder,
             lost' = lost + hand.shares + gone, Coming' = Coming - gone,
             stray' \in [buy : Nat, sell : Nat], mislaid' \in Nat,
             stray'.sell - stray.sell = mislaid' - mislaid,
             Resting' + stray'.sell <= Resting + stray.sell + (mislaid' - mislaid)
      PROVE  SleeveInv'
  <2>1. Resting' \in Int /\ stray'.sell \in Nat
    <3> DEFINE rest == [s \in Sleeves |-> RestingOf(order'[s])]
    <3>1. Resting' = SumOver(rest, Sleeves)
      BY DEF Resting, Sum, RestingOf
    <3>2. \A s \in Sleeves : rest[s] \in Int
      BY <1>8, RowParts
    <3> HIDE DEF rest
    <3>3. SumOver(rest, Sleeves) \in Int
      BY <3>2, SumInt, FiniteSleeves
    <3> QED
      BY <1>8, <3>1, <3>3
  <2>2. TypeOK'
    BY <1>1, <1>2, <1>4, <1>5, <1>6, <1>8 DEF TypeOK, Rows
  <2>3. Balance'
    <3>1. Sum(sleeve) + Coming + hand.shares + lost = account
      BY <1>1 DEF Balance, Coming
    <3>2. Balance' <=> Sum(sleeve) + Coming' + 0 + lost' = account
      BY <1>2 DEF Balance, Coming, NoFill
    <3> QED
      BY <1>4, <1>8, <3>1, <3>2
  <2>4. Covered'
    BY <1>1, <1>2, <1>4, <1>7, <1>8, <2>1 DEF Covered
  <2>5. Owned'
    <3> SUFFICES ASSUME NEW z \in Sleeves PROVE Selling(z)' + 0 <= sleeve[z]
      BY <1>2 DEF Owned, Nothing, AtLeastZero
    <3>1. /\ Selling(z) + AtLeastZero(-plan[z]) <= sleeve[z] /\ sleeve[z] \in Nat
          /\ AtLeastZero(-plan[z]) \in Nat /\ order[z] \in Rows
      BY <1>1, Types DEF Owned, AtLeastZero
    <3>2. CASE order'[z] = order[z]
      BY <1>2, <1>4, <3>1, <3>2 DEF Selling, NoFill, AtLeastZero, Rows
    <3>3. CASE order'[z] = NoOrder
      <4>1. Selling(z)' = 0
        BY <1>2, <3>3 DEF Selling, NoFill, NoOrder, AtLeastZero
      <4> QED
        BY <3>1, <4>1
    <3> QED
      BY <1>8, <3>2, <3>3
  <2>6. OrphansOnlyExit'
    BY <1>1, <1>2, <1>8 DEF Flow, OrphansOnlyExit, NoOrder, NoFill, Nothing, Sleeves
  <2>7. StrayIsMislaid'
    BY <1>1, <1>4, <1>8, <2>1 DEF Flow, StrayIsMislaid
  <2>8. Flow'
    BY <1>2, <1>5, <1>8, <2>6, <2>7 DEF Flow, HandOnlyInVisit, SendsWhenSubmitting, FreshHasOrder,
       PlannedIsUnsent, SeenIsCurrent, NothingLost, Nothing
  <2>9. NothingOrphaned'
    BY <1>5 DEF NothingOrphaned
  <2> QED
    BY <2>2, <2>3, <2>4, <2>5, <2>8, <2>9 DEF SleeveInv
<1>9. ASSUME fresh = {}, lost' = lost + hand.shares, UNCHANGED <<order, stray, mislaid>>
      PROVE  SleeveInv'
  <2>1. UNCHANGED <<Resting, Coming>> /\ ClosedIsEmpty'
    BY <1>1, <1>9 DEF Resting, Coming, Unbooked, Flow, ClosedIsEmpty
  <2>2. lost' = lost + hand.shares + 0 /\ Coming' = Coming - 0
    BY <1>4, <1>9, <2>1
  <2> QED
    BY <1>4, <1>8, <1>9, <2>1, <2>2
<1>10. ASSUME NEW s \in fresh, lost' = lost + hand.shares + ComingOf(order[s]),
              order' = [order EXCEPT ![s] = NoOrder], Mislay(order[s].side, order[s].left)
       PROVE  SleeveInv'
  <2>1. s \in Sleeves /\ order[s] \in Rows /\ order[s].side \in {"buy", "sell"}
    BY <1>1, <1>4 DEF TypeOK, Flow, FreshHasOrder, Rows
  <2>2. ComingOf(order[s]) \in Int /\ RestingOf(order[s]) \in Nat
    BY <2>1, RowParts
  <2>3. /\ order' \in [Sleeves -> Rows] /\ order'[s] = NoOrder
        /\ \A z \in Sleeves \ {s} : order'[z] = order[z]
    BY <1>4, <1>10, <2>1, NoOrderParts
  <2>4. /\ Resting' = Resting - RestingOf(order[s]) /\ Coming' = Coming - ComingOf(order[s])
    <3>1. /\ Resting' = Resting + RestingOf(order'[s]) - RestingOf(order[s])
          /\ Coming' = Coming + ComingOf(order'[s]) - ComingOf(order[s])
      BY <1>4, <2>1, <2>3, OneOrderChanges
    <3> QED
      BY <1>4, <2>2, <2>3, <3>1, NoOrderParts
  <2>5. ClosedIsEmpty'
    BY <1>1, <2>3 DEF Flow, ClosedIsEmpty
  <2>6. \A z \in Sleeves : order'[z] = order[z] \/ order'[z] = NoOrder
    BY <2>3
  <2>7. order[s].left \in Nat
    BY <2>1 DEF Rows
  <2>8. /\ stray' = [stray EXCEPT ![order[s].side] = @ + order[s].left]
        /\ mislaid' = mislaid + (IF order[s].side = "sell" THEN order[s].left ELSE 0)
    BY <1>10 DEF Mislay
  <2>9. CASE order[s].side = "sell"
    <3>1. stray' = [stray EXCEPT !.sell = stray.sell + order[s].left]
          /\ mislaid' = mislaid + order[s].left /\ RestingOf(order[s]) = order[s].left
      BY <1>4, <2>8, <2>9 DEF RestingOf
    <3>2. stray' \in [buy : Nat, sell : Nat] /\ stray'.sell = stray.sell + order[s].left
      BY <1>4, <2>7, <3>1
    <3>3. /\ mislaid' \in Nat /\ stray'.sell - stray.sell = mislaid' - mislaid
          /\ Resting' + stray'.sell <= Resting + stray.sell + (mislaid' - mislaid)
      BY <1>4, <2>4, <2>7, <3>1, <3>2
    <3> QED
      BY <1>8, <1>10, <2>2, <2>3, <2>4, <2>5, <2>6, <3>2, <3>3
  <2>10. CASE order[s].side = "buy"
    <3>1. stray' = [stray EXCEPT !.buy = stray.buy + order[s].left]
          /\ mislaid' = mislaid + 0 /\ RestingOf(order[s]) = 0
      BY <1>4, <2>8, <2>10 DEF RestingOf
    <3>2. stray' \in [buy : Nat, sell : Nat] /\ stray'.sell = stray.sell
      BY <1>4, <2>7, <3>1
    <3>3. /\ mislaid' \in Nat /\ stray'.sell - stray.sell = mislaid' - mislaid
          /\ Resting' + stray'.sell <= Resting + stray.sell + (mislaid' - mislaid)
      BY <1>4, <2>4, <2>7, <3>1, <3>2
    <3> QED
      BY <1>8, <1>10, <2>2, <2>3, <2>4, <2>5, <2>6, <3>2, <3>3
  <2> QED
    BY <2>1, <2>9, <2>10
<1> QED
  BY <1>3, <1>9, <1>10

(* SleeveInv is inductive.                                                      *)
LEMMA SleeveStep == ASSUME SleeveInv, [Next]_vars PROVE SleeveInv'
<1>1. CASE UNCHANGED vars
  <2>1. UNCHANGED <<OpenRows, Resting, Coming, Planned, Sum(sleeve)>>
    BY <1>1 DEF vars, OpenRows, Resting, Coming, Unbooked, Planned
  <2> QED
    BY <1>1, <2>1 DEF vars, SleeveInv, TypeOK, Balance, Coming, Covered, Owned, Selling,
       NothingOrphaned, Flow, ClosedIsEmpty, HandOnlyInVisit, SendsWhenSubmitting, FreshHasOrder,
       PlannedIsUnsent, SeenIsCurrent, StrayIsMislaid, NothingLost, OrphansOnlyExit
<1>2. CASE Next
  BY <1>2, WorkerKeeps, AdoptKeeps, EvaluateKeeps, ResyncKeeps, ApplyKeeps, VisitKeeps, SendKeeps,
     RecordKeeps, CrashKeeps, TradeOutsideKeeps, FillKeeps, OrderEndsKeeps, StrayFillsKeeps,
     StraysEndKeeps DEF Next, Working, BrokerMoves
<1> QED
  BY <1>1, <1>2

(* SleeveInv holds in every reachable state.                                    *)
LEMMA SleeveInvIsInvariant == Spec => []SleeveInv
<1>1. SleeveInv /\ [Next]_vars => SleeveInv'
  BY SleeveStep
<1> QED
  BY SleeveInit, <1>1, PTL DEF Spec

(* The sleeves, the fills on their way to them and what was lost make the       *)
(* account's holdings, and no sleeve is ever negative.                          *)
THEOREM SleevesAlwaysBalance == Spec => []SleevesBalance
<1>1. SleeveInv => SleevesBalance
  BY DEF SleeveInv, SleevesBalance
<1> QED
  BY <1>1, SleeveInvIsInvariant, PTL

(* Every sale that has, or will have, a row is of shares the strategy's own     *)
(* sleeve holds, so no fill is ever refused by its sleeve.                      *)
THEOREM SalesAreOwn == Spec => []SellsOwnShares
<1>1. SleeveInv => SellsOwnShares
  <2> SUFFICES ASSUME SleeveInv, NEW s \in Sleeves PROVE Selling(s) <= sleeve[s]
    BY DEF SellsOwnShares
  <2>1. /\ Selling(s) + AtLeastZero(-plan[s]) <= sleeve[s] /\ sleeve[s] \in Nat
        /\ AtLeastZero(-plan[s]) \in Nat /\ order[s] \in Rows /\ hand.shares \in Int
    BY Types DEF SleeveInv, Owned, AtLeastZero
  <2>2. Selling(s) \in Int
    BY <2>1 DEF Selling, Rows, AtLeastZero
  <2> QED
    BY <2>1, <2>2
<1> QED
  BY <1>1, SleeveInvIsInvariant, PTL

(* The sales alive at the broker, with a row or without, exceed the account's   *)
(* holdings by no more than the sales that were left without a row.             *)
THEOREM UncoveredSalesAreStrays == Spec => []UncoveredOnlyByStrays
<1>1. SleeveInv => UncoveredOnlyByStrays
  <2> SUFFICES ASSUME SleeveInv PROVE UncoveredOnlyByStrays
    OBVIOUS
  <2>1. /\ Resting \in Nat /\ Planned \in Nat /\ stray.sell \in Nat
        /\ account \in Int /\ mislaid \in Nat
        /\ Resting + stray.sell + Planned <= account + mislaid
    BY Types DEF SleeveInv, Covered
  <2> QED
    BY <2>1 DEF UncoveredOnlyByStrays
<1> QED
  BY <1>1, SleeveInvIsInvariant, PTL

(* Without a crash, a stray or an outside trade no strategy's share becomes an  *)
(* orphan.                                                                      *)
THEOREM NothingIsOrphaned == Spec => []NothingOrphaned
<1>1. SleeveInv => NothingOrphaned
  BY DEF SleeveInv
<1> QED
  BY <1>1, SleeveInvIsInvariant, PTL
=============================================================================
