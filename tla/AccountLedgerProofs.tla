------------------------- MODULE AccountLedgerProofs -------------------------
(***************************************************************************)
(* The books of AccountLedger balance against the broker's account, and    *)
(* what follows from it, for any orders, sizes, prices, crashes and        *)
(* resyncs.  The three hypotheses are where the code is known to stop      *)
(* keeping the books:                                                      *)
(*   ~MarketOpen    no execution during a resync;                          *)
(*   OneRunInTick   no tick posts the fills of two runs;                   *)
(*   SteadyPrices   an order of several shares trades at one price.        *)
(* MCAccountLedger shows the books fail without the last two.              *)
(***************************************************************************)
EXTENDS AccountLedger, SumsProofs, TLAPS

(* All orders were submitted by one cycle, so all fills post under one run id. *)
SingleRun == \A o, p \in Orders : RunOf[o] = RunOf[p]

(* The tick's rows, once it has any, are of the run about to post. *)
OneRunInTick ==
  (posted /\ toPost # NoFill) => \A r \in cashRows \cup positionRows : r.run = toPost.run

(* The executions of an order of several shares are all at one price. *)
SteadyPrices == \A o \in Orders : Size[o] > 1 => \A p, q \in PricesOf[o] : p = q

-----------------------------------------------------------------------------
(* The run ids fills post under. *)
Runs == {RunOf[o] : o \in Orders}

(* The newest timestamp of a book has one row. *)
OneRow(rows) == \E r : rows = {r} /\ r.rec \in Int /\ r.value \in Int

(* Types, beyond TypeOK. *)
Shapes ==
  /\ executed \in [Orders -> [qty : Nat, paid : Int]]
  /\ booked \in [Orders -> Nat]
  /\ account \in [shares : Nat, cash : Int]
  /\ toPost \in [shares : Int, cash : Int, run : Runs \cup {"none"}]
  /\ OneRow(cashRows) /\ OneRow(positionRows)
  /\ posted \in BOOLEAN
  /\ tick \in [pass : 0..2, todo : SUBSET Orders]
  /\ sync \in [pc : {"idle", "cash", "positions", "shares", "validate"}, seen : Int]

(* A tick and a resync never run together, and no fill is in hand between ticks. *)
TakesTurns ==
  /\ tick.pass = 0 => tick.todo = {} /\ toPost = NoFill
  /\ sync.pc # "idle" => tick.pass = 0

(* What a resync has read still holds when it writes. *)
SeenIsCurrent ==
  /\ sync.pc = "cash" => sync.seen = account.cash
  /\ sync.pc = "shares" => sync.seen = PendingShares

(* All executions of an order were at one price. *)
PaidAtOnePrice ==
  \A o \in Orders :
    \/ executed[o].qty = 0 /\ executed[o].paid = 0
    \/ \E p \in PricesOf[o] : executed[o].paid = executed[o].qty * (Unit * p)

(* The stored account, and the validator's answer. *)
ChecksTyped ==
  /\ snapshot \in Int /\ fresh \subseteq {"hand", "snapshot", "row"}
  /\ verdict \in {"none", "ok", "drifted"}

(* A stored account called fresh holds the account's cash. *)
FreshIsCurrent == "snapshot" \in fresh => snapshot = account.cash

(* What the proof about the position book rests on. *)
SharesInv == TypeOK /\ Shapes /\ TakesTurns /\ SeenIsCurrent /\ SharesBalance

(* What the proof about the cash book adds. *)
CashInv == PaidAtOnePrice /\ CashBalance
BooksInv == SharesInv /\ CashInv

(* ... and the proof about the validator. *)
VerdictInv == BooksInv /\ FreshIsCurrent

(* With a single run, the rows a tick has posted are of that run. *)
RowsAreOfRun ==
  /\ (posted /\ tick.pass # 0) => \A r \in cashRows \cup positionRows : r.run \in Runs
  /\ toPost # NoFill => toPost.run \in Runs

-----------------------------------------------------------------------------
(* The newest of one row. *)
LEMMA NewestOfOne ==
  ASSUME NEW r, r.rec \in Int
  PROVE  Newest({r}) = r
BY DEF Newest

(* The row recorded after one row. *)
LEMMA NextAfterOne ==
  ASSUME NEW r, r.rec \in Int
  PROVE  NextRec({r}) = 1 + r.rec
<1>1. {x.rec : x \in {r}} = {r.rec}
  OBVIOUS
<1>2. Max({r.rec}) = r.rec
  BY DEF Max
<1> QED
  BY <1>1, <1>2 DEF NextRec

(* A book of one row holds a number. *)
LEMMA OneRowIsInt ==
  ASSUME NEW rows, OneRow(rows)
  PROVE  Newest(rows).value \in Int
BY NewestOfOne DEF OneRow

(* A tick of one run leaves one cash row, and it holds what was written. *)
LEMMA WriteCashOne ==
  ASSUME NEW rows, OneRow(rows), NEW run, NEW v \in Int,
         posted => \A r \in rows : r.run = run
  PROVE  OneRow(WriteCash(rows, run, v)) /\ Newest(WriteCash(rows, run, v)).value = v
<1>1. PICK r : rows = {r} /\ r.rec \in Int /\ r.value \in Int
  BY DEF OneRow
<1> DEFINE rec == IF RowOf(rows, run) # {} THEN 0 ELSE NextRec(rows)
           w == [run |-> run, value |-> v, rec |-> rec]
<1>2. rec \in Int
  BY <1>1, NextAfterOne
<1>3. OtherRows(rows, run) = {}
  BY DEF OtherRows
<1>4. WriteCash(rows, run, v) = {w}
  BY <1>3 DEF WriteCash
<1>5. w.rec \in Int /\ w.value = v
  BY <1>2
<1> HIDE DEF w
<1>6. OneRow({w})
  BY <1>5 DEF OneRow
<1>7. Newest({w}) = w
  BY <1>5, NewestOfOne
<1> QED
  BY <1>4, <1>5, <1>6, <1>7

(* A tick of one run leaves one position row, and it holds what was written. *)
LEMMA WritePositionsOne ==
  ASSUME NEW rows, OneRow(rows), NEW run, NEW v \in Int,
         posted => \A r \in rows : r.run = run
  PROVE  OneRow(WritePositions(rows, run, v)) /\ Newest(WritePositions(rows, run, v)).value = v
<1>1. PICK r : rows = {r} /\ r.rec \in Int /\ r.value \in Int
  BY DEF OneRow
<1> DEFINE rec == IF RowOf(rows, run) # {} THEN Newest(RowOf(rows, run)).rec
                                           ELSE NextRec(rows)
           w == [run |-> run, value |-> v, rec |-> rec]
<1>2. rec \in Int
  <2>1. CASE RowOf(rows, run) = {}
    <3>1. rec = NextRec(rows)
      BY <2>1
    <3> HIDE DEF rec
    <3> QED
      BY <1>1, <3>1, NextAfterOne
  <2>2. CASE RowOf(rows, run) # {}
    <3>1. RowOf(rows, run) = {r}
      BY <1>1, <2>2 DEF RowOf
    <3> QED
      BY <1>1, <3>1, NewestOfOne
  <2> QED
    BY <2>1, <2>2
<1>3. OtherRows(rows, run) = {}
  BY DEF OtherRows
<1>4. WritePositions(rows, run, v) = {w}
  BY <1>3 DEF WritePositions
<1>5. w.rec \in Int /\ w.value = v
  BY <1>2
<1> HIDE DEF w
<1>6. OneRow({w})
  BY <1>5 DEF OneRow
<1>7. Newest({w}) = w
  BY <1>5, NewestOfOne
<1> QED
  BY <1>4, <1>5, <1>6, <1>7

-----------------------------------------------------------------------------
(* The fill of an order is the executed quantity its row lacks. *)
LEMMA FillOfOrder ==
  ASSUME Shapes, TypeOK, NEW o \in Orders
  PROVE  /\ FillOf(o).run = RunOf[o]
         /\ FillOf(o).shares = Sign(o) * (executed[o].qty - booked[o])
         /\ FillOf(o).shares \in Int /\ FillOf(o).cash \in Int
         /\ executed[o].qty = booked[o] => FillOf(o).shares = 0 /\ FillOf(o).cash = 0
         /\ executed[o].qty > booked[o] =>
              Average(o) \in Int
              /\ FillOf(o).cash = -Sign(o) * (executed[o].qty - booked[o]) * Average(o)
<1>1. executed[o].qty \in Nat /\ executed[o].paid \in Int /\ booked[o] \in Nat
      /\ booked[o] =< executed[o].qty
  BY SizesAssumption DEF Shapes, TypeOK
<1>2. Sign(o) \in {1, -1}
  BY DEF Sign
<1>3. executed[o].qty > booked[o] => Average(o) \in Int
  BY <1>1 DEF Average
<1> HIDE DEF Average
<1> QED
  BY <1>1, <1>2, <1>3 DEF FillOf

(* Fills are numbers, and an order that is not open has nothing to book. *)
FillsSound ==
  /\ \A o \in Orders : ShareFills[o] \in Int /\ CashFills[o] \in Int
  /\ \A o \in Orders \ Open : ShareFills[o] = 0 /\ CashFills[o] = 0
  /\ Open \in SUBSET Orders

(* ... which the types give. *)
LEMMA FillsAreInts == Shapes /\ TypeOK => FillsSound
<1> SUFFICES ASSUME Shapes, TypeOK PROVE FillsSound
  OBVIOUS
<1>1. ASSUME NEW o \in Orders PROVE ShareFills[o] \in Int /\ CashFills[o] \in Int
  BY FillOfOrder DEF ShareFills, CashFills
<1>2. ASSUME NEW o \in Orders \ Open PROVE ShareFills[o] = 0 /\ CashFills[o] = 0
  <2>1. ~(booked[o] < Size[o])
    BY DEF Open
  <2>2. executed[o].qty \in 0..Size[o] /\ booked[o] \in 0..executed[o].qty /\ Size[o] \in Nat
    BY SizesAssumption DEF TypeOK
  <2>3. executed[o].qty = booked[o]
    BY <2>1, <2>2
  <2> QED
    BY <2>3, FillOfOrder DEF ShareFills, CashFills
<1> QED
  BY <1>1, <1>2 DEF Open, FillsSound

(* The pending sums over the open orders are sums over all orders. *)
LEMMA PendingOverOrders ==
  Shapes /\ TypeOK =>
    /\ PendingShares = SumOver(ShareFills, Orders)
    /\ PendingCash = SumOver(CashFills, Orders)
    /\ PendingShares \in Int /\ PendingCash \in Int
<1> SUFFICES ASSUME Shapes, TypeOK
             PROVE  /\ PendingShares = SumOver(ShareFills, Orders)
                    /\ PendingCash = SumOver(CashFills, Orders)
                    /\ PendingShares \in Int /\ PendingCash \in Int
  OBVIOUS
<1>1. IsFiniteSet(Orders)
  BY OrdersAssumption
<1>2. /\ \A o \in Open : ShareFills[o] \in Int
      /\ \A o \in Open : CashFills[o] \in Int
      /\ \A o \in Orders \ Open : ShareFills[o] = 0
      /\ \A o \in Orders \ Open : CashFills[o] = 0
      /\ \A o \in Orders : ShareFills[o] \in Int
      /\ \A o \in Orders : CashFills[o] \in Int
      /\ Open \in SUBSET Orders
  BY FillsAreInts DEF FillsSound
<1>3. SumOver(ShareFills, Orders) = SumOver(ShareFills, Open)
  BY <1>1, <1>2, SumWithoutZeros
<1>4. SumOver(CashFills, Orders) = SumOver(CashFills, Open)
  BY <1>1, <1>2, SumWithoutZeros
<1>5. SumOver(ShareFills, Orders) \in Int /\ SumOver(CashFills, Orders) \in Int
  BY <1>1, <1>2, SumInt
<1> QED
  BY <1>3, <1>4, <1>5 DEF PendingShares, PendingCash

(* What is pending depends on the executed and the booked quantities alone. *)
LEMMA NothingPendingSame ==
  ASSUME UNCHANGED <<executed, booked>>
  PROVE  UNCHANGED <<ShareFills, CashFills, Open, PendingShares, PendingCash>>
<1>1. Open' = Open
  BY DEF Open
<1>2. ShareFills' = ShareFills
  BY DEF ShareFills, FillOf, Average
<1>3. CashFills' = CashFills
  BY DEF CashFills, FillOf, Average
<1> QED
  BY <1>1, <1>2, <1>3 DEF PendingShares, PendingCash

(* When one order changes, the pending sums change by its fill. *)
LEMMA PendingOfOneOrder ==
  ASSUME Shapes, TypeOK, Shapes', TypeOK', NEW o \in Orders,
         \A p \in Orders \ {o} : executed'[p] = executed[p] /\ booked'[p] = booked[p]
  PROVE  /\ PendingShares' = PendingShares + FillOf(o)'.shares - FillOf(o).shares
         /\ PendingCash' = PendingCash + FillOf(o)'.cash - FillOf(o).cash
<1>1. /\ PendingShares = SumOver(ShareFills, Orders)
      /\ PendingCash = SumOver(CashFills, Orders)
  BY PendingOverOrders
<1>2. /\ PendingShares' = SumOver(ShareFills', Orders)
      /\ PendingCash' = SumOver(CashFills', Orders)
  <2>1. (Shapes /\ TypeOK =>
           /\ PendingShares = SumOver(ShareFills, Orders)
           /\ PendingCash = SumOver(CashFills, Orders)
           /\ PendingShares \in Int /\ PendingCash \in Int)'
    BY PendingOverOrders, PTL
  <2> QED
    BY <2>1
<1>3. \A p \in Orders : ShareFills[p] \in Int /\ CashFills[p] \in Int
  BY FillsAreInts DEF FillsSound
<1>4. \A p \in Orders : ShareFills'[p] \in Int /\ CashFills'[p] \in Int
  <2>1. (Shapes /\ TypeOK => FillsSound)'
    BY FillsAreInts, PTL
  <2> QED
    BY <2>1 DEF FillsSound
<1>5. \A p \in Orders \ {o} : ShareFills'[p] = ShareFills[p] /\ CashFills'[p] = CashFills[p]
  BY DEF ShareFills, CashFills, FillOf, Average
<1>6. /\ ShareFills[o] = FillOf(o).shares /\ CashFills[o] = FillOf(o).cash
      /\ ShareFills'[o] = FillOf(o)'.shares /\ CashFills'[o] = FillOf(o)'.cash
  BY DEF ShareFills, CashFills
<1>7. IsFiniteSet(Orders)
  BY OrdersAssumption
<1>8. SumOver(ShareFills', Orders)
        = SumOver(ShareFills, Orders) + ShareFills'[o] - ShareFills[o]
  <2> DEFINE f == ShareFills  g == ShareFills'
  <2>1. /\ \A p \in Orders : f[p] \in Int /\ g[p] \in Int
        /\ \A p \in Orders \ {o} : g[p] = f[p]
    BY <1>3, <1>4, <1>5
  <2> HIDE DEF f, g
  <2>2. SumOver(g, Orders) = SumOver(f, Orders) + g[o] - f[o]
    BY <1>7, <2>1, SumUpdate
  <2> QED
    BY <2>2 DEF f, g
<1>9. SumOver(CashFills', Orders)
        = SumOver(CashFills, Orders) + CashFills'[o] - CashFills[o]
  <2> DEFINE f == CashFills  g == CashFills'
  <2>1. /\ \A p \in Orders : f[p] \in Int /\ g[p] \in Int
        /\ \A p \in Orders \ {o} : g[p] = f[p]
    BY <1>3, <1>4, <1>5
  <2> HIDE DEF f, g
  <2>2. SumOver(g, Orders) = SumOver(f, Orders) + g[o] - f[o]
    BY <1>7, <2>1, SumUpdate
  <2> QED
    BY <2>2 DEF f, g
<1> QED
  BY <1>1, <1>2, <1>6, <1>8, <1>9

-----------------------------------------------------------------------------
(* Both books hold numbers. *)
LEMMA LedgerIsInt ==
  Shapes => LedgerShares \in Int /\ LedgerCash \in Int
BY OneRowIsInt DEF Shapes, LedgerShares, LedgerCash

(* One row a run, as TypeOK has it. *)
LEMMA RowsAreUnique ==
  ASSUME NEW rows, OneRow(rows)
  PROVE  rows # {} /\ \A r, s \in rows : r.run = s.run => r = s
BY DEF OneRow

(* Both books start with the account. *)
LEMMA SharesInit == Init => SharesInv
<1> SUFFICES ASSUME Init PROVE SharesInv
  OBVIOUS
<1>1. OneRow(cashRows) /\ OneRow(positionRows)
      /\ LedgerCash = StartCash * Unit /\ LedgerShares = StartShares
  <2> DEFINE c == [run |-> "seed", rec |-> 1, value |-> StartCash * Unit]
             p == [run |-> "seed", rec |-> 1, value |-> StartShares]
  <2>1. c.rec \in Int /\ c.value \in Int /\ p.rec \in Int /\ p.value \in Int
        /\ c.value = StartCash * Unit /\ p.value = StartShares
    BY StartAssumption, PricesAssumption
  <2>2. cashRows = {c} /\ positionRows = {p}
    BY DEF Init
  <2> HIDE DEF c, p
  <2>3. Newest({c}) = c /\ Newest({p}) = p
    BY <2>1, NewestOfOne
  <2> QED
    BY <2>1, <2>2, <2>3 DEF OneRow, LedgerCash, LedgerShares
<1>2. Shapes
  <2>1. executed \in [Orders -> [qty : Nat, paid : Int]] /\ booked \in [Orders -> Nat]
    BY DEF Init
  <2>2. account \in [shares : Nat, cash : Int]
    BY StartAssumption, PricesAssumption DEF Init
  <2>3. toPost \in [shares : Int, cash : Int, run : Runs \cup {"none"}]
    BY DEF Init, NoFill
  <2>4. posted \in BOOLEAN
    BY DEF Init
  <2>5. tick \in [pass : 0..2, todo : SUBSET Orders]
    BY DEF Init
  <2>6. sync \in [pc : {"idle", "cash", "positions", "shares", "validate"}, seen : Int]
    BY DEF Init
  <2> QED
    BY <1>1, <2>1, <2>2, <2>3, <2>4, <2>5, <2>6 DEF Shapes
<1>3. TypeOK
  <2>1. \A rows \in {cashRows, positionRows} :
          rows # {} /\ \A r, s \in rows : r.run = s.run => r = s
    BY <1>1, RowsAreUnique
  <2>2. \A o \in Orders : executed[o].qty \in 0..Size[o] /\ booked[o] \in 0..executed[o].qty
    BY SizesAssumption DEF Init
  <2>3. missed \in [shares : Int, cash : Int]
    BY DEF Init, Zero
  <2>4. ChecksTyped
    BY StartAssumption, PricesAssumption DEF ChecksTyped, Init
  <2> QED
    BY <1>2, <2>1, <2>2, <2>3, <2>4 DEF TypeOK, ChecksTyped, Shapes, Init
<1>4. TakesTurns /\ SeenIsCurrent
  BY DEF TakesTurns, SeenIsCurrent, Init
<1>5. PendingShares = 0
  <2>1. ASSUME NEW o \in Open PROVE ShareFills[o] = 0
    <3>1. o \in Orders /\ executed[o].qty = 0 /\ booked[o] = 0
      BY DEF Open, Init
    <3> QED
      BY <1>2, <1>3, <3>1, FillOfOrder DEF ShareFills
  <2>2. IsFiniteSet(Open)
    BY OrdersAssumption, FS_Subset DEF Open
  <2> QED
    BY <2>1, <2>2, SumZero DEF PendingShares
<1>6. SharesBalance
  BY <1>1, <1>5, StartAssumption DEF SharesBalance, Init, NoFill, Zero
<1> QED
  BY <1>2, <1>3, <1>4, <1>6 DEF SharesInv

-----------------------------------------------------------------------------
(* No step puts anything but a number into the stored account. *)
LEMMA ChecksStep ==
  ASSUME SharesInv, [Next]_vars
  PROVE  ChecksTyped'
<1>1. ChecksTyped /\ sync.seen \in Int
  BY DEF SharesInv, TypeOK, Shapes, ChecksTyped
<1>2. CASE \E o \in Orders : Execute(o) \/ Book(o)
  BY <1>1, <1>2 DEF Execute, Book, checks, ChecksTyped
<1>3. CASE StartTick \/ EndPass \/ PostRaises \/ Crash \/ SyncPending
           \/ WriteSyncedPositions \/ Abandon
  BY <1>1, <1>3 DEF StartTick, EndPass, PostRaises, Crash, SyncPending,
                    WriteSyncedPositions, Abandon, checks, ChecksTyped
<1>4. CASE Post \/ FiguresMove \/ SyncAccount
  BY <1>1, <1>4 DEF Post, FiguresMove, SyncAccount, ChecksTyped
<1>5. CASE WriteSyncedCash \/ WriteSnapshotOnly
  BY <1>1, <1>5 DEF WriteSyncedCash, WriteSnapshotOnly, Store, ChecksTyped
<1>6. CASE Validate
  BY <1>1, <1>6 DEF Validate, ChecksTyped
<1>7. CASE UNCHANGED vars
  BY <1>1, <1>7 DEF vars, checks, ChecksTyped
<1> QED
  BY <1>2, <1>3, <1>4, <1>5, <1>6, <1>7 DEF Next

-----------------------------------------------------------------------------
(* What an execution changes at the broker. *)
LEMMA ExecuteChanges ==
  ASSUME SharesInv, NEW o \in Orders, Execute(o)
  PROVE  \E price \in PricesOf[o] :
           /\ price \in Nat /\ Unit * price \in Nat
           /\ executed'[o] = [qty |-> executed[o].qty + 1,
                              paid |-> executed[o].paid + Unit * price]
           /\ \A p \in Orders \ {o} : executed'[p] = executed[p]
           /\ executed' \in [Orders -> [qty : Nat, paid : Int]]
           /\ account' = [shares |-> account.shares + Sign(o),
                          cash |-> account.cash - Sign(o) * Unit * price]
<1>1. PICK price \in PricesOf[o] :
        /\ executed' = [executed EXCEPT
                          ![o] = [qty |-> @.qty + 1, paid |-> @.paid + Unit * price]]
        /\ account' = [shares |-> account.shares + Sign(o),
                       cash |-> account.cash - Sign(o) * Unit * price]
  BY DEF Execute
<1>2. price \in Nat /\ Unit * price \in Nat
  BY PricesAssumption
<1>3. executed \in [Orders -> [qty : Nat, paid : Int]]
  BY DEF SharesInv, Shapes
<1> DEFINE row == [qty |-> executed[o].qty + 1, paid |-> executed[o].paid + Unit * price]
<1>4. executed' = [executed EXCEPT ![o] = row]
  BY <1>1
<1>5. row \in [qty : Nat, paid : Int]
  BY <1>2, <1>3
<1> HIDE DEF row
<1>6. executed' \in [Orders -> [qty : Nat, paid : Int]]
      /\ executed'[o] = row /\ \A p \in Orders \ {o} : executed'[p] = executed[p]
  BY <1>3, <1>4, <1>5
<1> QED
  BY <1>1, <1>2, <1>6 DEF row

(* An execution adds one share to the account and to what is pending. *)
LEMMA ExecuteShares ==
  ASSUME SharesInv, ~MarketOpen, NEW o \in Orders, Execute(o)
  PROVE  SharesInv'
<1>1. PICK price \in PricesOf[o] :
        /\ price \in Nat /\ Unit * price \in Nat
        /\ executed'[o] = [qty |-> executed[o].qty + 1,
                           paid |-> executed[o].paid + Unit * price]
        /\ \A p \in Orders \ {o} : executed'[p] = executed[p]
        /\ executed' \in [Orders -> [qty : Nat, paid : Int]]
        /\ account' = [shares |-> account.shares + Sign(o),
                       cash |-> account.cash - Sign(o) * Unit * price]
  BY ExecuteChanges
<1>2. /\ executed[o].qty < Size[o] /\ sync.pc = "idle"
      /\ o \in Buys \/ account.shares > 0
      /\ UNCHANGED <<booked, toPost, cashRows, positionRows, posted, tick, sync, missed>>
  BY DEF Execute, books
<1>3. Shapes /\ TypeOK /\ TakesTurns /\ SharesBalance
  BY DEF SharesInv
<1>4. account'.shares = account.shares + Sign(o)
      /\ account'.shares \in Nat /\ account'.cash \in Int
  <2>1. account.shares \in Nat /\ account.cash \in Int
    BY <1>3 DEF Shapes
  <2>2. CASE o \in Buys
    BY <1>1, <2>1, <2>2, PricesAssumption DEF Sign
  <2>3. CASE o \notin Buys
    BY <1>1, <1>2, <2>1, <2>3, PricesAssumption DEF Sign
  <2> QED
    BY <2>2, <2>3
<1>5. Shapes'
  <2>1. account' \in [shares : Nat, cash : Int]
    BY <1>1, <1>4
  <2> QED
    BY <1>1, <1>2, <1>3, <2>1 DEF Shapes, OneRow, Runs
<1>6. TypeOK'
  <2>1. ASSUME NEW p \in Orders
        PROVE  executed'[p].qty \in 0..Size[p] /\ booked'[p] \in 0..executed'[p].qty
    <3>1. executed[p].qty \in 0..Size[p] /\ booked[p] \in 0..executed[p].qty
          /\ Size[p] \in Nat /\ booked'[p] = booked[p]
      BY <1>2, <1>3, SizesAssumption DEF TypeOK
    <3>2. CASE p # o
      BY <1>1, <3>1, <3>2
    <3>3. CASE p = o
      <4>1. executed'[p].qty = executed[p].qty + 1
        BY <1>1, <3>3
      <4> QED
        BY <1>2, <3>1, <3>3, <4>1
    <3> QED
      BY <3>2, <3>3
  <2>2. ChecksTyped'
    BY ChecksStep DEF Next
  <2> QED
    BY <1>2, <1>3, <1>4, <2>1, <2>2 DEF TypeOK, ChecksTyped
<1>7. TakesTurns' /\ SeenIsCurrent'
  BY <1>2, <1>3 DEF TakesTurns, SeenIsCurrent
<1>8. SharesBalance'
  <2>1. PendingShares' = PendingShares + FillOf(o)'.shares - FillOf(o).shares
    BY <1>1, <1>2, <1>3, <1>5, <1>6, PendingOfOneOrder
  <2>2. FillOf(o).shares = Sign(o) * (executed[o].qty - booked[o])
    BY <1>3, FillOfOrder
  <2>3. FillOf(o)'.shares = Sign(o) * (executed'[o].qty - booked'[o])
    BY DEF FillOf, Sign
  <2>4. executed'[o].qty = executed[o].qty + 1 /\ booked'[o] = booked[o]
        /\ executed[o].qty \in Nat /\ booked[o] \in Nat
    BY <1>1, <1>2, <1>3 DEF Shapes
  <2>5. PendingShares \in Int /\ LedgerShares \in Int /\ LedgerShares' = LedgerShares
    BY <1>2, <1>3, PendingOverOrders, LedgerIsInt DEF LedgerShares
  <2>6. toPost.shares \in Int /\ missed.shares \in Int /\ account.shares \in Int
        /\ toPost' = toPost /\ missed' = missed
    BY <1>2, <1>3 DEF TypeOK
  <2>7. PendingShares' = PendingShares + Sign(o)
    <3>1. CASE o \in Buys
      BY <2>1, <2>2, <2>3, <2>4, <2>5, <3>1 DEF Sign
    <3>2. CASE o \notin Buys
      BY <2>1, <2>2, <2>3, <2>4, <2>5, <3>2 DEF Sign
    <3> QED
      BY <3>1, <3>2
  <2>8. Sign(o) \in Int
    BY DEF Sign
  <2> QED
    BY <1>3, <1>4, <2>5, <2>6, <2>7, <2>8 DEF SharesBalance
<1> QED
  BY <1>5, <1>6, <1>7, <1>8 DEF SharesInv

(* A visit moves the pending fill of its order into the hand. *)
LEMMA BookShares ==
  ASSUME SharesInv, NEW o \in Orders, Book(o)
  PROVE  SharesInv'
<1>1. /\ o \in tick.todo /\ toPost = NoFill
      /\ tick' = [tick EXCEPT !.todo = @ \ {o}]
      /\ booked' = [booked EXCEPT ![o] = executed[o].qty]
      /\ toPost' = IF executed[o].qty > booked[o] THEN FillOf(o) ELSE NoFill
      /\ UNCHANGED <<executed, account, cashRows, positionRows, posted, sync, missed>>
  BY DEF Book, books, brokerSide
<1>2. Shapes /\ TypeOK /\ TakesTurns /\ SharesBalance
  BY DEF SharesInv
<1>3. tick' \in [pass : 0..2, todo : SUBSET Orders] /\ tick'.pass = tick.pass
      /\ tick.pass # 0
  <2>1. tick \in [pass : 0..2, todo : SUBSET Orders]
    BY <1>2 DEF Shapes
  <2>2. tick.pass # 0
    BY <1>1, <1>2 DEF TakesTurns
  <2> QED
    BY <1>1, <2>1, <2>2
<1>4. executed[o].qty \in Nat /\ booked[o] \in Nat /\ booked[o] =< executed[o].qty
      /\ booked' \in [Orders -> Nat] /\ booked'[o] = executed[o].qty
      /\ \A p \in Orders \ {o} : booked'[p] = booked[p]
  BY <1>1, <1>2, SizesAssumption DEF Shapes, TypeOK
<1>5. toPost' \in [shares : Int, cash : Int, run : Runs \cup {"none"}]
      /\ toPost'.shares = FillOf(o).shares
      /\ toPost'.cash = FillOf(o).cash
  <2>1. FillOf(o).shares \in Int /\ FillOf(o).cash \in Int /\ FillOf(o).run = RunOf[o]
    BY <1>2, FillOfOrder
  <2>2. CASE executed[o].qty > booked[o]
    <3>1. FillOf(o) \in [shares : Int, cash : Int, run : Runs \cup {"none"}]
      <4>1. FillOf(o) = [run |-> FillOf(o).run, shares |-> FillOf(o).shares,
                         cash |-> FillOf(o).cash]
        BY DEF FillOf
      <4>2. FillOf(o).run \in Runs \cup {"none"}
        BY <2>1 DEF Runs
      <4> QED
        BY <2>1, <4>1, <4>2
    <3> QED
      BY <1>1, <2>2, <3>1
  <2>3. CASE ~(executed[o].qty > booked[o])
    <3>1. executed[o].qty = booked[o]
      BY <1>4, <2>3
    <3>2. FillOf(o).shares = 0 /\ FillOf(o).cash = 0
      BY <1>2, <3>1, FillOfOrder
    <3> QED
      BY <1>1, <2>3, <3>2 DEF NoFill
  <2> QED
    BY <2>2, <2>3
<1>6. Shapes'
  BY <1>1, <1>2, <1>3, <1>4, <1>5 DEF Shapes, OneRow, Runs
<1>7. TypeOK'
  <2>1. ASSUME NEW p \in Orders
        PROVE  executed'[p].qty \in 0..Size[p] /\ booked'[p] \in 0..executed'[p].qty
    <3>1. executed[p].qty \in 0..Size[p] /\ booked[p] \in 0..executed[p].qty
          /\ executed'[p] = executed[p]
      BY <1>1, <1>2 DEF TypeOK
    <3> QED
      BY <1>4, <3>1, SizesAssumption
  <2>2. tick'.pass \in 0..2 /\ tick'.todo \subseteq Orders
    BY <1>3
  <2>3. toPost'.shares \in Int /\ toPost'.cash \in Int
    BY <1>5
  <2>4. ChecksTyped'
    BY ChecksStep DEF Next
  <2> QED
    BY <1>1, <1>2, <2>1, <2>2, <2>3, <2>4 DEF TypeOK, ChecksTyped
<1>8. TakesTurns' /\ SeenIsCurrent'
  BY <1>1, <1>2, <1>3 DEF TakesTurns, SeenIsCurrent
<1>9. SharesBalance'
  <2>1. PendingShares' = PendingShares + FillOf(o)'.shares - FillOf(o).shares
    BY <1>1, <1>2, <1>4, <1>6, <1>7, PendingOfOneOrder
  <2>2. FillOf(o).shares \in Int
    BY <1>2, FillOfOrder
  <2>3. FillOf(o)'.shares = 0
    <3>1. FillOf(o)'.shares = Sign(o) * (executed'[o].qty - booked'[o])
      BY DEF FillOf, Sign
    <3> QED
      BY <1>1, <1>4, <3>1 DEF Sign
  <2>4. PendingShares \in Int /\ LedgerShares \in Int /\ LedgerShares' = LedgerShares
    BY <1>1, <1>2, PendingOverOrders, LedgerIsInt DEF LedgerShares
  <2>5. toPost.shares = 0 /\ missed.shares \in Int /\ account.shares \in Int
        /\ account' = account /\ missed' = missed
    BY <1>1, <1>2 DEF TypeOK, NoFill
  <2> QED
    BY <1>2, <1>5, <2>1, <2>2, <2>3, <2>4, <2>5 DEF SharesBalance
<1> QED
  BY <1>6, <1>7, <1>8, <1>9 DEF SharesInv

-----------------------------------------------------------------------------
(* Where a resync can be. *)
PCs == {"idle", "cash", "positions", "shares", "validate"}

(* A step that leaves the broker, the rows and the fills alone. *)
LEMMA QuietStep ==
  ASSUME SharesInv,
         UNCHANGED <<executed, account, booked, toPost, cashRows, positionRows, missed>>,
         posted' \in BOOLEAN, ChecksTyped',
         tick' \in [pass : 0..2, todo : SUBSET Orders], sync' \in [pc : PCs, seen : Int]
  PROVE  Shapes' /\ TypeOK' /\ SharesBalance' /\ PendingShares' = PendingShares
<1>1. PendingShares' = PendingShares
  BY NothingPendingSame
<1>2. Shapes'
  BY DEF SharesInv, Shapes, OneRow, Runs, PCs
<1>3. TypeOK'
  <2>1. tick'.pass \in 0..2 /\ tick'.todo \subseteq Orders /\ sync'.pc \in PCs
    OBVIOUS
  <2> QED
    BY <2>1 DEF SharesInv, TypeOK, ChecksTyped, PCs
<1>4. SharesBalance'
  BY <1>1 DEF SharesInv, SharesBalance, LedgerShares
<1> QED
  BY <1>1, <1>2, <1>3, <1>4

(* Ticks and passes begin and end. *)
LEMMA TickSteps ==
  ASSUME SharesInv, StartTick \/ EndPass
  PROVE  SharesInv'
<1>1. /\ UNCHANGED <<executed, account, booked, toPost, cashRows, positionRows, missed>>
      /\ sync' = sync
  BY DEF StartTick, EndPass, books, brokerSide
<1>2. posted' \in BOOLEAN
  BY DEF StartTick, EndPass, SharesInv, Shapes
<1>3. tick' \in [pass : 0..2, todo : SUBSET Orders]
  BY DEF StartTick, EndPass, Open
<1>4. ChecksTyped' /\ sync' \in [pc : PCs, seen : Int]
  BY <1>1, ChecksStep DEF Next, SharesInv, Shapes, PCs
<1>5. TakesTurns'
  BY <1>1 DEF StartTick, EndPass, SharesInv, TakesTurns
<1>6. Shapes' /\ TypeOK' /\ SharesBalance' /\ PendingShares' = PendingShares
  BY <1>1, <1>2, <1>3, <1>4, QuietStep
<1>7. SeenIsCurrent'
  BY <1>1, <1>6 DEF SharesInv, SeenIsCurrent
<1> QED
  BY <1>5, <1>6, <1>7 DEF SharesInv

(* What a validation leaves alone. *)
LEMMA ValidateChanges ==
  ASSUME Validate
  PROVE  /\ tick.pass = 0 /\ sync' = [pc |-> "idle", seen |-> 0]
         /\ UNCHANGED <<brokerSide, booked, toPost, books, posted, tick, missed, snapshot, fresh>>
<1>1. /\ tick.pass = 0 /\ sync' = [pc |-> "idle", seen |-> 0]
      /\ UNCHANGED <<brokerSide, booked, toPost, books, posted, tick, missed, snapshot, fresh,
                     faults, syncs>>
  BY Zenon DEF Validate
<1> QED
  BY <1>1

(* A resync reads, stores the account, stops or validates. *)
LEMMA SyncSteps ==
  ASSUME SharesInv,
         \/ SyncAccount \/ WriteSnapshotOnly \/ SyncPending \/ Abandon \/ Validate
         \/ FiguresMove
  PROVE  SharesInv'
<1>1. /\ UNCHANGED <<executed, account, booked, toPost, cashRows, positionRows, missed>>
      /\ tick' = tick /\ posted' = posted
  BY DEF SyncAccount, WriteSnapshotOnly, SyncPending, Abandon, Validate, FiguresMove,
         books, brokerSide
<1>2. posted' \in BOOLEAN /\ tick' \in [pass : 0..2, todo : SUBSET Orders]
  BY <1>1 DEF SharesInv, Shapes
<1>3. ChecksTyped'
  BY ChecksStep DEF Next
<1>4. sync' \in [pc : PCs, seen : Int]
  <2>1. account.cash \in Int /\ PendingShares \in Int /\ sync \in [pc : PCs, seen : Int]
    BY PendingOverOrders DEF SharesInv, TypeOK, Shapes, PCs
  <2>2. CASE FiguresMove
    BY <2>1, <2>2 DEF FiguresMove
  <2>3. CASE SyncAccount \/ WriteSnapshotOnly \/ SyncPending \/ Abandon
    BY <2>1, <2>3 DEF SyncAccount, WriteSnapshotOnly, SyncPending, Abandon, PCs
  <2>4. CASE Validate
    BY <2>4, ValidateChanges DEF PCs
  <2> QED
    BY <2>2, <2>3, <2>4
<1>5. Shapes' /\ TypeOK' /\ SharesBalance' /\ PendingShares' = PendingShares
  BY <1>1, <1>2, <1>3, <1>4, QuietStep
<1>6. TakesTurns'
  <2>1. CASE FiguresMove
    BY <1>1, <2>1 DEF FiguresMove, SharesInv, TakesTurns
  <2>2. CASE SyncAccount \/ WriteSnapshotOnly \/ SyncPending \/ Abandon \/ Validate
    BY <1>1, <2>2 DEF SyncAccount, WriteSnapshotOnly, SyncPending, Abandon, Validate,
                      SharesInv, TakesTurns
  <2> QED
    BY <2>1, <2>2
<1>7. SeenIsCurrent'
  <2>1. CASE FiguresMove
    BY <1>1, <1>5, <2>1 DEF FiguresMove, SharesInv, SeenIsCurrent
  <2>2. CASE SyncAccount \/ WriteSnapshotOnly \/ SyncPending \/ Abandon
    BY <1>1, <1>5, <2>2 DEF SyncAccount, WriteSnapshotOnly, SyncPending, Abandon,
                            SharesInv, SeenIsCurrent
  <2>3. CASE Validate
    BY <2>3, ValidateChanges DEF SeenIsCurrent
  <2> QED
    BY <2>1, <2>2, <2>3
<1> QED
  BY <1>5, <1>6, <1>7 DEF SharesInv

(* A lost fill is added to what is missed. *)
LEMMA MissIsTyped ==
  ASSUME SharesInv, Miss
  PROVE  /\ missed' \in [shares : Int, cash : Int]
         /\ missed'.shares = missed.shares + toPost.shares
         /\ missed'.cash = missed.cash + toPost.cash
<1>1. /\ missed.shares \in Int /\ missed.cash \in Int
      /\ toPost.shares \in Int /\ toPost.cash \in Int
  BY DEF SharesInv, TypeOK
<1> QED
  BY <1>1 DEF Miss

(* The empty hand is typed. *)
LEMMA NoFillIsTyped ==
  NoFill \in [shares : Int, cash : Int, run : Runs \cup {"none"}]
BY DEF NoFill

(* A crash or a refusal moves the fill in hand to what is missed. *)
LEMMA LossSteps ==
  ASSUME SharesInv, PostRaises \/ Crash
  PROVE  SharesInv'
<1>1. /\ Miss /\ toPost' = NoFill
      /\ UNCHANGED <<executed, account, booked, cashRows, positionRows, posted, sync>>
      /\ tick' = tick \/ tick' = [pass |-> 0, todo |-> {}]
  BY DEF PostRaises, Crash, books, brokerSide
<1>2. PendingShares' = PendingShares
  BY <1>1, NothingPendingSame
<1>3. tick' \in [pass : 0..2, todo : SUBSET Orders]
  BY <1>1 DEF SharesInv, Shapes
<1>4. Shapes'
  BY <1>1, <1>3, NoFillIsTyped DEF SharesInv, Shapes, OneRow, Runs
<1>5. TypeOK'
  <2>1. tick'.pass \in 0..2 /\ tick'.todo \subseteq Orders
    BY <1>3
  <2>2. missed' \in [shares : Int, cash : Int]
    BY <1>1, MissIsTyped
  <2>3. toPost'.shares \in Int /\ toPost'.cash \in Int
    BY <1>1 DEF NoFill
  <2>4. ChecksTyped'
    BY ChecksStep DEF Next
  <2> QED
    BY <1>1, <2>1, <2>2, <2>3, <2>4 DEF SharesInv, TypeOK, ChecksTyped
<1>6. TakesTurns' /\ SeenIsCurrent'
  BY <1>1, <1>2 DEF SharesInv, TakesTurns, SeenIsCurrent
<1>7. SharesBalance'
  <2>1. /\ missed.shares \in Int /\ toPost.shares \in Int
        /\ missed'.shares = missed.shares + toPost.shares
        /\ toPost'.shares = 0
    BY <1>1, MissIsTyped DEF SharesInv, TypeOK, NoFill
  <2>2. PendingShares \in Int /\ LedgerShares \in Int /\ LedgerShares' = LedgerShares
    BY <1>1, PendingOverOrders, LedgerIsInt DEF LedgerShares, SharesInv
  <2> QED
    BY <1>1, <1>2, <2>1, <2>2 DEF SharesBalance, SharesInv
<1> QED
  BY <1>4, <1>5, <1>6, <1>7 DEF SharesInv

(* A post adds the fill in hand to both books. *)
LEMMA PostWrites ==
  ASSUME SharesInv, OneRunInTick, Post
  PROVE  /\ OneRow(cashRows)' /\ OneRow(positionRows)'
         /\ LedgerCash' = LedgerCash + toPost.cash
         /\ LedgerShares' = LedgerShares + toPost.shares
<1>1. /\ LedgerCash \in Int /\ LedgerShares \in Int
      /\ toPost.cash \in Int /\ toPost.shares \in Int
  BY LedgerIsInt DEF SharesInv, TypeOK
<1> DEFINE cash == LedgerCash + toPost.cash
           shares == LedgerShares + toPost.shares
<1>2. cash \in Int /\ shares \in Int
  BY <1>1
<1>3. /\ cashRows' = WriteCash(cashRows, toPost.run, cash)
      /\ positionRows' = WritePositions(positionRows, toPost.run, shares)
  BY DEF Post
<1> HIDE DEF cash, shares
<1>4. /\ OneRow(cashRows) /\ OneRow(positionRows)
      /\ posted => \A r \in cashRows : r.run = toPost.run
      /\ posted => \A r \in positionRows : r.run = toPost.run
  BY DEF SharesInv, Shapes, OneRunInTick, Post
<1>5. /\ OneRow(WriteCash(cashRows, toPost.run, cash))
      /\ Newest(WriteCash(cashRows, toPost.run, cash)).value = cash
  BY <1>2, <1>4, WriteCashOne
<1>6. /\ OneRow(WritePositions(positionRows, toPost.run, shares))
      /\ Newest(WritePositions(positionRows, toPost.run, shares)).value = shares
  BY <1>2, <1>4, WritePositionsOne
<1>7. OneRow(cashRows)' /\ OneRow(positionRows)'
  BY <1>3, <1>5, <1>6 DEF OneRow
<1>8. LedgerCash' = cash /\ LedgerShares' = shares
  BY <1>3, <1>5, <1>6 DEF LedgerCash, LedgerShares, Newest
<1> QED
  BY <1>7, <1>8 DEF cash, shares

(* So it keeps the balance. *)
LEMMA PostShares ==
  ASSUME SharesInv, OneRunInTick, Post
  PROVE  SharesInv'
<1>1. /\ toPost' = NoFill /\ posted' = TRUE
      /\ UNCHANGED <<executed, account, booked, tick, sync, missed>>
  BY DEF Post, brokerSide
<1>2. PendingShares' = PendingShares
  BY <1>1, NothingPendingSame
<1>3. OneRow(cashRows)' /\ OneRow(positionRows)'
  BY PostWrites
<1>4. Shapes'
  BY <1>1, <1>3, NoFillIsTyped DEF SharesInv, Shapes, Runs
<1>5. TypeOK'
  <2>1. \A rows \in {cashRows', positionRows'} :
          rows # {} /\ \A r, s \in rows : r.run = s.run => r = s
    BY <1>3 DEF OneRow
  <2>2. toPost'.shares \in Int /\ toPost'.cash \in Int
    BY <1>1 DEF NoFill
  <2>3. ChecksTyped'
    BY ChecksStep DEF Next
  <2> QED
    BY <1>1, <2>1, <2>2, <2>3 DEF SharesInv, TypeOK, ChecksTyped
<1>6. TakesTurns' /\ SeenIsCurrent'
  BY <1>1, <1>2 DEF SharesInv, TakesTurns, SeenIsCurrent
<1>7. SharesBalance'
  <2>1. /\ missed.shares \in Int /\ toPost.shares \in Int
        /\ toPost'.shares = 0
    BY <1>1 DEF SharesInv, TypeOK, NoFill
  <2>2. PendingShares \in Int /\ LedgerShares \in Int
        /\ LedgerShares' = LedgerShares + toPost.shares
    BY PendingOverOrders, LedgerIsInt, PostWrites DEF SharesInv
  <2> QED
    BY <1>1, <1>2, <2>1, <2>2 DEF SharesBalance, SharesInv
<1> QED
  BY <1>4, <1>5, <1>6, <1>7 DEF SharesInv

(* The row a resync writes. *)
LEMMA OneRowWritten ==
  ASSUME NEW run, NEW v \in Int
  PROVE  /\ OneRow({[run |-> run, rec |-> 1, value |-> v]})
         /\ Newest({[run |-> run, rec |-> 1, value |-> v]}).value = v
<1> DEFINE w == [run |-> run, rec |-> 1, value |-> v]
<1>1. w.rec \in Int /\ w.value = v
  OBVIOUS
<1> HIDE DEF w
<1>2. OneRow({w}) /\ Newest({w}) = w
  BY <1>1, NewestOfOne DEF OneRow
<1> QED
  BY <1>1, <1>2 DEF w

(* A resync of cash writes the account net of the pending fills. *)
LEMMA WriteSyncedCashShares ==
  ASSUME SharesInv, WriteSyncedCash
  PROVE  /\ SharesInv'
         /\ LedgerCash' = account.cash - PendingCash
<1>1. /\ sync.pc = "cash"
      /\ cashRows' = {[run |-> "sync", rec |-> 1, value |-> sync.seen - PendingCash]}
      /\ missed' = [missed EXCEPT !.cash = 0]
      /\ sync' = [pc |-> "positions", seen |-> 0]
      /\ UNCHANGED <<executed, account, booked, toPost, positionRows, posted, tick>>
  BY DEF WriteSyncedCash, brokerSide
<1>2. sync.seen = account.cash /\ account.cash \in Int /\ PendingCash \in Int
  BY <1>1, PendingOverOrders DEF SharesInv, SeenIsCurrent, TypeOK
<1>3. OneRow(cashRows') /\ Newest(cashRows').value = account.cash - PendingCash
  <2> DEFINE v == sync.seen - PendingCash
  <2>1. v \in Int /\ v = account.cash - PendingCash
    BY <1>2
  <2>2. cashRows' = {[run |-> "sync", rec |-> 1, value |-> v]}
    BY <1>1
  <2> HIDE DEF v
  <2> QED
    BY <2>1, <2>2, OneRowWritten
<1>4. PendingShares' = PendingShares
  BY <1>1, NothingPendingSame
<1>5. sync' \in [pc : PCs, seen : Int]
  BY <1>1 DEF PCs
<1>6. missed.shares \in Int /\ missed' = [shares |-> missed.shares, cash |-> 0]
  BY <1>1 DEF SharesInv, TypeOK
<1>7. Shapes'
  BY <1>1, <1>3, <1>5 DEF SharesInv, Shapes, OneRow, Runs, PCs
<1>8. TypeOK'
  <2>1. \A rows \in {cashRows', positionRows'} :
          rows # {} /\ \A r, s \in rows : r.run = s.run => r = s
    BY <1>1, <1>3, RowsAreUnique DEF SharesInv, TypeOK
  <2>2. ChecksTyped'
    BY ChecksStep DEF Next
  <2> QED
    BY <1>1, <1>6, <2>1, <2>2 DEF SharesInv, TypeOK, ChecksTyped
<1>9. TakesTurns' /\ SeenIsCurrent'
  BY <1>1 DEF SharesInv, TakesTurns, SeenIsCurrent
<1>10. SharesBalance'
  BY <1>1, <1>4, <1>6 DEF SharesInv, SharesBalance, LedgerShares
<1> QED
  BY <1>3, <1>7, <1>8, <1>9, <1>10 DEF SharesInv, LedgerCash, Newest

(* A resync of positions does the same: what it read of the pending is current. *)
LEMMA WriteSyncedPositionsShares ==
  ASSUME SharesInv, WriteSyncedPositions
  PROVE  SharesInv'
<1>1. /\ sync.pc = "shares"
      /\ positionRows' = {[run |-> "sync", rec |-> 1, value |-> account.shares - sync.seen]}
      /\ missed' = [missed EXCEPT !.shares = 0]
      /\ sync' = [pc |-> "validate", seen |-> 0]
      /\ UNCHANGED <<executed, account, booked, toPost, cashRows, posted, tick>>
  BY DEF WriteSyncedPositions, brokerSide
<1>2. sync.seen = PendingShares /\ account.shares \in Int /\ PendingShares \in Int
  BY <1>1, PendingOverOrders DEF SharesInv, SeenIsCurrent, TypeOK
<1>3. OneRow(positionRows') /\ Newest(positionRows').value = account.shares - PendingShares
  <2> DEFINE v == account.shares - sync.seen
  <2>1. v \in Int /\ v = account.shares - PendingShares
    BY <1>2
  <2>2. positionRows' = {[run |-> "sync", rec |-> 1, value |-> v]}
    BY <1>1
  <2> HIDE DEF v
  <2> QED
    BY <2>1, <2>2, OneRowWritten
<1>4. PendingShares' = PendingShares
  BY <1>1, NothingPendingSame
<1>5. sync' \in [pc : PCs, seen : Int]
  BY <1>1 DEF PCs
<1>6. missed.cash \in Int /\ missed' = [shares |-> 0, cash |-> missed.cash]
  BY <1>1 DEF SharesInv, TypeOK
<1>7. Shapes'
  BY <1>1, <1>3, <1>5 DEF SharesInv, Shapes, OneRow, Runs, PCs
<1>8. TypeOK'
  <2>1. \A rows \in {cashRows', positionRows'} :
          rows # {} /\ \A r, s \in rows : r.run = s.run => r = s
    BY <1>1, <1>3, RowsAreUnique DEF SharesInv, TypeOK
  <2>2. ChecksTyped'
    BY ChecksStep DEF Next
  <2> QED
    BY <1>1, <1>6, <2>1, <2>2 DEF SharesInv, TypeOK, ChecksTyped
<1>9. TakesTurns' /\ SeenIsCurrent'
  BY <1>1 DEF SharesInv, TakesTurns, SeenIsCurrent
<1>10. SharesBalance'
  <2>1. toPost = NoFill
    BY <1>1 DEF SharesInv, TakesTurns
  <2>2. LedgerShares' = account.shares - PendingShares
    BY <1>3 DEF LedgerShares, Newest
  <2> QED
    BY <1>1, <1>2, <1>4, <1>6, <2>1, <2>2 DEF SharesBalance, NoFill
<1> QED
  BY <1>7, <1>8, <1>9, <1>10 DEF SharesInv

(* A step of the rest of the system. *)
LEMMA StutterShares ==
  ASSUME SharesInv, UNCHANGED vars
  PROVE  SharesInv'
<1>1. /\ UNCHANGED <<executed, account, booked, toPost, cashRows, positionRows, missed>>
      /\ tick' = tick /\ posted' = posted /\ sync' = sync
  BY DEF vars, books, brokerSide
<1>2. posted' \in BOOLEAN /\ tick' \in [pass : 0..2, todo : SUBSET Orders]
      /\ sync' \in [pc : PCs, seen : Int] /\ ChecksTyped'
  BY <1>1, ChecksStep DEF SharesInv, Shapes, PCs
<1>3. Shapes' /\ TypeOK' /\ SharesBalance' /\ PendingShares' = PendingShares
  BY <1>1, <1>2, QuietStep
<1>4. TakesTurns' /\ SeenIsCurrent'
  BY <1>1, <1>3 DEF SharesInv, TakesTurns, SeenIsCurrent
<1> QED
  BY <1>3, <1>4 DEF SharesInv

(* SharesInv is inductive. *)
LEMMA SharesStep ==
  ASSUME SharesInv, ~MarketOpen, OneRunInTick, [Next]_vars
  PROVE  SharesInv'
<1>1. ASSUME NEW o \in Orders, Execute(o) PROVE SharesInv'
  BY <1>1, ExecuteShares
<1>2. ASSUME NEW o \in Orders, Book(o) PROVE SharesInv'
  BY <1>2, BookShares
<1>3. CASE StartTick \/ EndPass
  BY <1>3, TickSteps
<1>4. CASE Post
  BY <1>4, PostShares
<1>5. CASE PostRaises \/ Crash
  BY <1>5, LossSteps
<1>6. CASE \/ SyncAccount \/ WriteSnapshotOnly \/ SyncPending \/ Abandon \/ Validate
           \/ FiguresMove
  BY <1>6, SyncSteps
<1>7. CASE WriteSyncedCash
  BY <1>7, WriteSyncedCashShares
<1>8. CASE WriteSyncedPositions
  BY <1>8, WriteSyncedPositionsShares
<1>9. CASE UNCHANGED vars
  BY <1>9, StutterShares
<1> QED
  BY <1>1, <1>2, <1>3, <1>4, <1>5, <1>6, <1>7, <1>8, <1>9 DEF Next

-----------------------------------------------------------------------------
(* The average of shares of one price is the price. *)
LEMMA Quotient ==
  ASSUME NEW q \in Nat, q > 0, NEW a \in Int
  PROVE  (q * a) \div q = a
OBVIOUS

(* One share more at the same price. *)
LEMMA OneMore ==
  ASSUME NEW q \in Nat, NEW a \in Int
  PROVE  /\ (q + 1) * a = q * a + a
         /\ -1 * (q + 1) * a = -1 * q * a - a
         /\ -(-1) * (q + 1) * a = -(-1) * q * a + a
OBVIOUS

(* The cash book starts with the account. *)
LEMMA CashInit == Init => CashInv
<1> SUFFICES ASSUME Init PROVE CashInv
  OBVIOUS
<1>1. SharesInv
  BY SharesInit
<1>2. PaidAtOnePrice
  BY DEF PaidAtOnePrice, Init
<1>3. PendingCash = 0
  <2>1. ASSUME NEW o \in Open PROVE CashFills[o] = 0
    <3>1. o \in Orders /\ executed[o].qty = 0 /\ booked[o] = 0
      BY DEF Open, Init
    <3> QED
      BY <1>1, <3>1, FillOfOrder DEF CashFills, SharesInv
  <2>2. IsFiniteSet(Open)
    BY OrdersAssumption, FS_Subset DEF Open
  <2> QED
    BY <2>1, <2>2, SumZero DEF PendingCash
<1>4. LedgerCash = account.cash /\ account.cash \in Int
  <2> DEFINE c == [run |-> "seed", rec |-> 1, value |-> StartCash * Unit]
  <2>1. c.rec \in Int /\ c.value = StartCash * Unit
    OBVIOUS
  <2>2. cashRows = {c}
    BY DEF Init
  <2> HIDE DEF c
  <2>3. Newest({c}) = c
    BY <2>1, NewestOfOne
  <2> QED
    BY <1>1, <2>1, <2>2, <2>3 DEF LedgerCash, Init, SharesInv, TypeOK
<1>5. CashBalance
  BY <1>3, <1>4 DEF CashBalance, Init, NoFill, Zero
<1> QED
  BY <1>2, <1>5 DEF CashInv

(* An execution keeps an order at one price: only an order of several shares is   *)
(* executed twice.                                                                *)
LEMMA ExecutePays ==
  ASSUME SharesInv, CashInv, SteadyPrices, NEW o \in Orders, Execute(o),
         NEW price \in PricesOf[o],
         executed'[o] = [qty |-> executed[o].qty + 1,
                         paid |-> executed[o].paid + Unit * price]
  PROVE  /\ executed'[o].paid = executed'[o].qty * (Unit * price)
         /\ executed[o].qty > 0 => executed[o].paid = executed[o].qty * (Unit * price)
<1> DEFINE a == Unit * price
<1>1. a \in Int
  BY PricesAssumption
<1>2. executed[o].qty \in Nat /\ executed[o].paid \in Int
  BY DEF SharesInv, Shapes
<1>3. executed'[o].qty = executed[o].qty + 1 /\ executed'[o].paid = executed[o].paid + a
  OBVIOUS
<1>4. \/ executed[o].qty = 0 /\ executed[o].paid = 0
      \/ \E p \in PricesOf[o] : executed[o].paid = executed[o].qty * (Unit * p)
  BY DEF CashInv, PaidAtOnePrice
<1>5. CASE executed[o].qty = 0
  <2>1. executed[o].paid = 0
    <3>1. ASSUME NEW p \in PricesOf[o], executed[o].paid = executed[o].qty * (Unit * p)
          PROVE  executed[o].paid = 0
      <4>1. Unit * p \in Int
        BY PricesAssumption
      <4> QED
        BY <1>5, <3>1, <4>1
    <3> QED
      BY <1>4, <3>1
  <2> HIDE DEF a
  <2>2. executed'[o].paid = executed'[o].qty * a
    BY <1>1, <1>3, <1>5, <2>1
  <2> QED
    BY <1>5, <2>2 DEF a
<1>6. CASE executed[o].qty > 0
  <2>1. executed[o].qty < Size[o] /\ Size[o] \in Nat
    BY SizesAssumption DEF Execute
  <2>2. Size[o] > 1
    BY <1>2, <1>6, <2>1
  <2>3. PICK p \in PricesOf[o] : executed[o].paid = executed[o].qty * (Unit * p)
    BY <1>4, <1>6
  <2>4. p = price
    BY <2>2 DEF SteadyPrices
  <2>5. executed[o].paid = executed[o].qty * a
    BY <2>3, <2>4
  <2> HIDE DEF a
  <2>6. executed'[o].paid = executed'[o].qty * a
    BY <1>1, <1>2, <1>3, <2>5, OneMore
  <2> QED
    BY <2>5, <2>6 DEF a
<1> QED
  BY <1>2, <1>5, <1>6

(* An execution takes as much from the account as it adds to the pending cash. *)
LEMMA ExecuteCash ==
  ASSUME SharesInv, CashInv, SharesInv', SteadyPrices, NEW o \in Orders, Execute(o)
  PROVE  CashInv'
<1>1. PICK price \in PricesOf[o] :
        /\ price \in Nat /\ Unit * price \in Nat
        /\ executed'[o] = [qty |-> executed[o].qty + 1,
                           paid |-> executed[o].paid + Unit * price]
        /\ \A p \in Orders \ {o} : executed'[p] = executed[p]
        /\ executed' \in [Orders -> [qty : Nat, paid : Int]]
        /\ account' = [shares |-> account.shares + Sign(o),
                       cash |-> account.cash - Sign(o) * Unit * price]
  BY ExecuteChanges
<1>2. UNCHANGED <<booked, toPost, cashRows, missed>>
  BY DEF Execute, books
<1>3. Shapes /\ TypeOK /\ Shapes' /\ TypeOK'
  BY DEF SharesInv
<1>4. /\ executed'[o].paid = executed'[o].qty * (Unit * price)
      /\ executed[o].qty > 0 => executed[o].paid = executed[o].qty * (Unit * price)
  BY <1>1, ExecutePays
<1>5. PaidAtOnePrice'
  <2>1. ASSUME NEW p \in Orders
        PROVE  \/ executed'[p].qty = 0 /\ executed'[p].paid = 0
               \/ \E q \in PricesOf[p] : executed'[p].paid = executed'[p].qty * (Unit * q)
    <3>1. CASE p = o
      BY <1>4, <3>1
    <3>2. CASE p # o
      BY <1>1, <3>2 DEF CashInv, PaidAtOnePrice
    <3> QED
      BY <3>1, <3>2
  <2> QED
    BY <2>1 DEF PaidAtOnePrice
<1>6. CashBalance'
  <2> DEFINE a == Unit * price
             q == executed[o].qty - booked[o]
  <2>1. /\ executed[o].qty \in Nat /\ booked[o] \in Nat /\ booked[o] =< executed[o].qty
        /\ executed'[o].qty = executed[o].qty + 1 /\ booked'[o] = booked[o]
        /\ a \in Int /\ q \in Nat
    BY <1>1, <1>2, <1>3, SizesAssumption DEF Shapes, TypeOK
  <2>2. FillOf(o)'.cash = -Sign(o) * (q + 1) * a
    <3>1. Average(o)' = a
      <4>1. executed'[o].paid = executed'[o].qty * a /\ executed'[o].qty > 0
            /\ executed'[o].qty \in Nat
        BY <1>4, <2>1
      <4> HIDE DEF a
      <4> QED
        BY <2>1, <4>1, Quotient DEF Average
    <3>2. executed'[o].qty - booked'[o] = q + 1 /\ q + 1 # 0
      BY <2>1
    <3> HIDE DEF a, q
    <3> QED
      BY <3>1, <3>2 DEF FillOf, Sign
  <2>3. FillOf(o).cash = -Sign(o) * q * a
    <3>1. CASE q = 0
      <4>1. FillOf(o).cash = 0
        BY <3>1 DEF FillOf
      <4> HIDE DEF a, q
      <4> QED
        BY <2>1, <3>1, <4>1 DEF Sign
    <3>2. CASE q # 0
      <4>1. executed[o].qty > 0
        BY <2>1, <3>2
      <4>2. executed[o].paid = executed[o].qty * a
        BY <1>4, <4>1
      <4>3. Average(o) = a
        <5> HIDE DEF a
        <5> QED
          BY <2>1, <4>1, <4>2, Quotient DEF Average
      <4> QED
        BY <3>2, <4>3 DEF FillOf
    <3> QED
      BY <3>1, <3>2
  <2>4. PendingCash' = PendingCash + FillOf(o)'.cash - FillOf(o).cash
    BY <1>1, <1>2, <1>3, PendingOfOneOrder
  <2>5. account'.cash = account.cash - Sign(o) * a
    <3>1. account'.cash = account.cash - Sign(o) * Unit * price
      BY <1>1
    <3>2. Sign(o) * Unit * price = Sign(o) * a
      BY PricesAssumption DEF Sign
    <3> QED
      BY <3>1, <3>2
  <2>6. PendingCash \in Int /\ LedgerCash \in Int /\ LedgerCash' = LedgerCash
    BY <1>2, <1>3, PendingOverOrders, LedgerIsInt DEF LedgerCash
  <2>7. toPost.cash \in Int /\ missed.cash \in Int /\ account.cash \in Int
        /\ toPost' = toPost /\ missed' = missed
    BY <1>2, <1>3 DEF TypeOK
  <2>8. PendingCash' = PendingCash - Sign(o) * a
    <3> HIDE DEF a, q
    <3>1. CASE o \in Buys
      BY <2>1, <2>2, <2>3, <2>4, <2>6, <3>1, OneMore DEF Sign
    <3>2. CASE o \notin Buys
      BY <2>1, <2>2, <2>3, <2>4, <2>6, <3>2, OneMore DEF Sign
    <3> QED
      BY <3>1, <3>2
  <2>9. Sign(o) * a \in Int
    BY <2>1 DEF Sign
  <2> HIDE DEF a
  <2> QED
    BY <2>5, <2>6, <2>7, <2>8, <2>9 DEF CashInv, CashBalance
<1> QED
  BY <1>5, <1>6 DEF CashInv

(* A visit moves the pending cash of its order into the hand. *)
LEMMA BookCash ==
  ASSUME SharesInv, CashInv, SharesInv', NEW o \in Orders, Book(o)
  PROVE  CashInv'
<1>1. /\ toPost = NoFill
      /\ booked' = [booked EXCEPT ![o] = executed[o].qty]
      /\ toPost' = IF executed[o].qty > booked[o] THEN FillOf(o) ELSE NoFill
      /\ UNCHANGED <<executed, account, cashRows, missed>>
  BY DEF Book, books, brokerSide
<1>2. Shapes /\ TypeOK /\ Shapes' /\ TypeOK'
  BY DEF SharesInv
<1>3. executed[o].qty \in Nat /\ booked[o] \in Nat /\ booked[o] =< executed[o].qty
      /\ booked'[o] = executed[o].qty
      /\ \A p \in Orders \ {o} : booked'[p] = booked[p]
  BY <1>1, <1>2, SizesAssumption DEF Shapes, TypeOK
<1>4. toPost'.cash = FillOf(o).cash /\ FillOf(o).cash \in Int
  <2>1. CASE executed[o].qty > booked[o]
    BY <1>1, <1>2, <2>1, FillOfOrder
  <2>2. CASE executed[o].qty = booked[o]
    BY <1>1, <1>2, <2>2, FillOfOrder DEF NoFill
  <2> QED
    BY <1>3, <2>1, <2>2
<1>5. FillOf(o)'.cash = 0
  BY <1>1, <1>3 DEF FillOf
<1>6. PendingCash' = PendingCash + FillOf(o)'.cash - FillOf(o).cash
  BY <1>1, <1>2, <1>3, PendingOfOneOrder
<1>7. PendingCash \in Int /\ LedgerCash \in Int /\ LedgerCash' = LedgerCash
  BY <1>1, <1>2, PendingOverOrders, LedgerIsInt DEF LedgerCash
<1>8. toPost.cash = 0 /\ missed.cash \in Int /\ account.cash \in Int
  BY <1>1, <1>2 DEF TypeOK, NoFill
<1>9. CashBalance'
  BY <1>1, <1>4, <1>5, <1>6, <1>7, <1>8 DEF CashInv, CashBalance
<1> QED
  BY <1>1, <1>9 DEF CashInv, PaidAtOnePrice

(* A post adds the cash in hand to the book. *)
LEMMA PostCash ==
  ASSUME SharesInv, CashInv, OneRunInTick, Post
  PROVE  CashInv'
<1>1. toPost' = NoFill /\ UNCHANGED <<executed, account, booked, missed>>
  BY DEF Post, brokerSide
<1>2. PendingCash' = PendingCash
  BY <1>1, NothingPendingSame
<1>3. /\ missed.cash \in Int /\ toPost.cash \in Int /\ toPost'.cash = 0
      /\ PendingCash \in Int /\ LedgerCash \in Int
      /\ LedgerCash' = LedgerCash + toPost.cash
  BY <1>1, PendingOverOrders, LedgerIsInt, PostWrites DEF SharesInv, TypeOK, NoFill
<1> QED
  BY <1>1, <1>2, <1>3 DEF CashInv, PaidAtOnePrice, CashBalance

(* A crash or a refusal moves the cash in hand to what is missed. *)
LEMMA LossCash ==
  ASSUME SharesInv, CashInv, PostRaises \/ Crash
  PROVE  CashInv'
<1>1. Miss /\ toPost' = NoFill /\ UNCHANGED <<executed, account, booked, cashRows>>
  BY DEF PostRaises, Crash, books, brokerSide
<1>2. PendingCash' = PendingCash
  BY <1>1, NothingPendingSame
<1>3. /\ missed.cash \in Int /\ toPost.cash \in Int /\ toPost'.cash = 0
      /\ missed'.cash = missed.cash + toPost.cash
      /\ PendingCash \in Int /\ LedgerCash \in Int /\ LedgerCash' = LedgerCash
  BY <1>1, PendingOverOrders, LedgerIsInt, MissIsTyped
     DEF SharesInv, TypeOK, NoFill, LedgerCash
<1> QED
  BY <1>1, <1>2, <1>3 DEF CashInv, PaidAtOnePrice, CashBalance

(* A resync of cash starts the book afresh. *)
LEMMA WriteSyncedCashCash ==
  ASSUME SharesInv, CashInv, WriteSyncedCash
  PROVE  CashInv'
<1>1. /\ UNCHANGED <<executed, account, booked, toPost>>
      /\ missed' = [missed EXCEPT !.cash = 0] /\ sync.pc = "cash"
  BY DEF WriteSyncedCash, brokerSide
<1>2. PendingCash' = PendingCash
  BY <1>1, NothingPendingSame
<1>3. missed'.cash = 0 /\ toPost = NoFill
  BY <1>1 DEF SharesInv, TypeOK, TakesTurns
<1>4. LedgerCash' = account.cash - PendingCash
  BY WriteSyncedCashShares
<1>5. PendingCash \in Int /\ account.cash \in Int
  BY PendingOverOrders DEF SharesInv, TypeOK
<1> QED
  BY <1>1, <1>2, <1>3, <1>4, <1>5 DEF CashInv, PaidAtOnePrice, CashBalance, NoFill

(* The other steps leave cash alone. *)
LEMMA OtherCash ==
  ASSUME SharesInv, CashInv,
         \/ StartTick \/ EndPass \/ SyncAccount \/ SyncPending \/ WriteSyncedPositions
         \/ WriteSnapshotOnly \/ FiguresMove \/ Abandon \/ Validate \/ UNCHANGED vars
  PROVE  CashInv'
<1>1. UNCHANGED <<executed, account, booked, toPost, cashRows>>
  BY DEF StartTick, EndPass, SyncAccount, SyncPending, WriteSyncedPositions, Abandon,
         WriteSnapshotOnly, FiguresMove, Validate, vars, books, brokerSide
<1>2. missed'.cash = missed.cash
  BY DEF StartTick, EndPass, SyncAccount, SyncPending, WriteSyncedPositions, Abandon,
         WriteSnapshotOnly, FiguresMove, Validate, vars, SharesInv, TypeOK
<1>3. PendingCash' = PendingCash
  BY <1>1, NothingPendingSame
<1> QED
  BY <1>1, <1>2, <1>3 DEF CashInv, PaidAtOnePrice, CashBalance, LedgerCash

(* BooksInv is inductive. *)
LEMMA BooksStep ==
  ASSUME BooksInv, ~MarketOpen, OneRunInTick, SteadyPrices, [Next]_vars
  PROVE  BooksInv'
<1>1. SharesInv /\ CashInv
  BY DEF BooksInv
<1>2. SharesInv'
  BY <1>1, SharesStep
<1>3. ASSUME NEW o \in Orders, Execute(o) PROVE CashInv'
  BY <1>1, <1>2, <1>3, ExecuteCash
<1>4. ASSUME NEW o \in Orders, Book(o) PROVE CashInv'
  BY <1>1, <1>2, <1>4, BookCash
<1>5. ASSUME Post PROVE CashInv'
  BY <1>1, <1>5, PostCash
<1>6. ASSUME PostRaises \/ Crash PROVE CashInv'
  BY <1>1, <1>6, LossCash
<1>7. ASSUME WriteSyncedCash PROVE CashInv'
  BY <1>1, <1>7, WriteSyncedCashCash
<1>8. ASSUME \/ StartTick \/ EndPass \/ SyncAccount \/ SyncPending \/ WriteSyncedPositions
             \/ WriteSnapshotOnly \/ FiguresMove \/ Abandon \/ Validate \/ UNCHANGED vars
      PROVE  CashInv'
  BY <1>1, <1>8, OtherCash
<1>9. CashInv'
  BY <1>3, <1>4, <1>5, <1>6, <1>7, <1>8 DEF Next
<1> QED
  BY <1>2, <1>9 DEF BooksInv

-----------------------------------------------------------------------------
(* The newest position row, what waits for its tick, what is in hand and what was *)
(* lost make the broker's position: across ticks, crashes, refusals and resyncs   *)
(* no share is counted twice or dropped (post_fill_accounting_service,            *)
(* broker_runtime_sync_service).                                                  *)
THEOREM SharesAlwaysBalance ==
  ASSUME ~MarketOpen
  PROVE  Spec /\ []OneRunInTick => []SharesBalance
<1>1. SharesInv /\ OneRunInTick /\ [Next]_vars => SharesInv'
  BY SharesStep
<1>2. SharesInv => SharesBalance
  BY DEF SharesInv
<1> QED
  BY SharesInit, <1>1, <1>2, PTL DEF Spec

(* Both books balance and every variable keeps to its range. *)
THEOREM BooksAlwaysBalance ==
  ASSUME ~MarketOpen, SteadyPrices
  PROVE  Spec /\ []OneRunInTick => []BooksBalance
<1>1. Init => BooksInv
  BY SharesInit, CashInit DEF BooksInv
<1>2. BooksInv /\ OneRunInTick /\ [Next]_vars => BooksInv'
  BY BooksStep
<1>3. BooksInv => BooksBalance
  BY DEF BooksInv, SharesInv, CashInv, BooksBalance
<1> QED
  BY <1>1, <1>2, <1>3, PTL DEF Spec

(* With no order open no cash is pending. *)
LEMMA NothingWaitsClosed ==
  ASSUME Open = {}
  PROVE  PendingCash = 0
BY SumEmpty DEF PendingCash

(* A ledger that posted every fill and lost none holds the cash the broker holds. *)
THEOREM LedgerHoldsWhatWasPaid ==
  ASSUME ~MarketOpen, SteadyPrices
  PROVE  Spec /\ []OneRunInTick => []CashIsPaid
<1>1. Init => BooksInv
  BY SharesInit, CashInit DEF BooksInv
<1>2. BooksInv /\ OneRunInTick /\ [Next]_vars => BooksInv'
  BY BooksStep
<1>3. BooksInv => CashIsPaid
  <2> SUFFICES ASSUME BooksInv, Open = {}, toPost = NoFill, missed = Zero
               PROVE  LedgerCash = account.cash
    BY DEF CashIsPaid
  <2>1. LedgerCash \in Int /\ account.cash \in Int
    BY LedgerIsInt DEF BooksInv, SharesInv, TypeOK
  <2>2. PendingCash = 0
    BY NothingWaitsClosed
  <2> QED
    BY <2>1, <2>2 DEF BooksInv, CashInv, CashBalance, NoFill, Zero
<1> QED
  BY <1>1, <1>2, <1>3, PTL DEF Spec

(* The account's cash moves with an execution, which leaves nothing fresh; what a *)
(* resync stores it has read since.                                               *)
LEMMA FreshStep ==
  ASSUME VerdictInv, [Next]_vars
  PROVE  FreshIsCurrent'
<1>1. FreshIsCurrent /\ SeenIsCurrent
  BY DEF VerdictInv, BooksInv, SharesInv
<1>2. CASE \E o \in Orders : Execute(o)
  BY <1>2 DEF Execute, FreshIsCurrent
<1>3. CASE \/ \E o \in Orders : Book(o)
           \/ StartTick \/ EndPass \/ PostRaises \/ Crash \/ SyncPending
           \/ WriteSyncedPositions \/ Abandon
  BY <1>1, <1>3 DEF Book, StartTick, EndPass, PostRaises, Crash, SyncPending,
                    WriteSyncedPositions, Abandon, checks, brokerSide, FreshIsCurrent
<1>4. CASE Post \/ FiguresMove
  BY <1>1, <1>4 DEF Post, FiguresMove, brokerSide, FreshIsCurrent
<1>7. CASE SyncAccount
  BY <1>1, <1>7 DEF SyncAccount, brokerSide, FreshIsCurrent
<1>8. CASE Validate
  BY <1>1, <1>8, ValidateChanges DEF brokerSide, FreshIsCurrent
<1>5. CASE WriteSyncedCash \/ WriteSnapshotOnly
  <2>1. sync.pc = "cash" /\ snapshot' = sync.seen /\ account' = account
    BY <1>5 DEF WriteSyncedCash, WriteSnapshotOnly, Store, brokerSide
  <2> QED
    BY <1>1, <2>1 DEF SeenIsCurrent, FreshIsCurrent
<1>6. CASE UNCHANGED vars
  BY <1>1, <1>6 DEF vars, checks, brokerSide, FreshIsCurrent
<1> QED
  BY <1>2, <1>3, <1>4, <1>5, <1>6, <1>7, <1>8 DEF Next

(* What is missing when nothing is in hand. *)
LEMMA LossOf ==
  ASSUME NEW ledger \in Int, NEW pending \in Int, NEW lost \in Int, NEW held \in Int,
         ledger + pending + 0 + lost = held
  PROVE  ledger = held - pending <=> lost = 0
OBVIOUS

(* A verdict is given between ticks, when no fill is in hand. *)
LEMMA VerdictOfStep ==
  ASSUME VerdictInv, Validate
  PROVE  /\ verdict' = "ok" => missed.cash = 0
         /\ missed.cash = 0 /\ AllFresh => verdict' = "ok"
<1>1. toPost.cash = 0
  BY DEF Validate, VerdictInv, BooksInv, SharesInv, TakesTurns, NoFill
<1>2. /\ LedgerCash \in Int /\ PendingCash \in Int /\ missed.cash \in Int
      /\ account.cash \in Int
  BY LedgerIsInt, PendingOverOrders DEF VerdictInv, BooksInv, SharesInv, TypeOK
<1>3. CashAgrees <=> missed.cash = 0
  <2>1. LedgerCash + PendingCash + toPost.cash + missed.cash = account.cash
    BY DEF VerdictInv, BooksInv, CashInv, CashBalance
  <2>2. LedgerCash + PendingCash + 0 + missed.cash = account.cash
    BY <1>1, <2>1
  <2>3. LedgerCash = account.cash - PendingCash <=> missed.cash = 0
    BY <1>2, <2>2, LossOf
  <2> QED
    BY <2>3 DEF CashAgrees
<1>4. AllFresh => SnapshotAgrees
  BY DEF VerdictInv, FreshIsCurrent, AllFresh, SnapshotAgrees
<1>5. verdict' = "ok" => CashAgrees
  BY DEF Validate
<1>6. CashAgrees /\ SnapshotAgrees /\ AllFresh => verdict' = "ok"
  BY DEF Validate
<1> QED
  BY <1>3, <1>4, <1>5, <1>6

(* validate-broker-consistency never answers ok over lost cash, and answers ok     *)
(* where none was lost and nothing has moved since the resync.                     *)
THEOREM VerdictsAreTrue ==
  ASSUME ~MarketOpen, SteadyPrices
  PROVE  Spec /\ []OneRunInTick => VerdictIsTrue
<1>1. Init => VerdictInv
  BY SharesInit, CashInit DEF VerdictInv, BooksInv, FreshIsCurrent, Init
<1>2. VerdictInv /\ OneRunInTick /\ [Next]_vars => VerdictInv'
  BY BooksStep, FreshStep DEF VerdictInv
<1>3. VerdictInv /\ [Next]_vars
        => [Validate => /\ verdict' = "ok" => missed.cash = 0
                        /\ missed.cash = 0 /\ AllFresh => verdict' = "ok"]_vars
  BY VerdictOfStep
<1> QED
  BY <1>1, <1>2, <1>3, PTL DEF Spec, VerdictIsTrue

-----------------------------------------------------------------------------
(* What keeps a tick to one run. *)
RunInv == SharesInv /\ RowsAreOfRun

(* A tick of a single run has rows of that run only. *)
LEMMA RunIsOne ==
  ASSUME RunInv, SingleRun
  PROVE  OneRunInTick
<1> SUFFICES ASSUME posted, toPost # NoFill, NEW r \in cashRows \cup positionRows
             PROVE  r.run = toPost.run
  BY DEF OneRunInTick
<1>1. tick.pass # 0
  BY DEF RunInv, SharesInv, TakesTurns
<1>2. r.run \in Runs /\ toPost.run \in Runs
  BY <1>1 DEF RunInv, RowsAreOfRun
<1> QED
  BY <1>2 DEF Runs, SingleRun

(* No step brings another run into a tick. *)
LEMMA RowsOfRunStep ==
  ASSUME RunInv, [Next]_vars
  PROVE  RowsAreOfRun'
<1>1. CASE \E o \in Orders : Execute(o)
  BY <1>1 DEF Execute, books, RunInv, RowsAreOfRun, Runs
<1>2. ASSUME NEW o \in Orders, Book(o) PROVE RowsAreOfRun'
  <2>1. /\ UNCHANGED <<cashRows, positionRows, posted>>
        /\ toPost' = IF executed[o].qty > booked[o] THEN FillOf(o) ELSE NoFill
        /\ o \in tick.todo
    BY <1>2 DEF Book, books
  <2>2. tick.pass # 0
    BY <2>1 DEF RunInv, SharesInv, TakesTurns
  <2>3. toPost' # NoFill => toPost'.run \in Runs
    BY <2>1 DEF FillOf, Runs
  <2> QED
    BY <2>1, <2>2, <2>3 DEF RunInv, RowsAreOfRun, Runs
<1>3. CASE StartTick \/ EndPass
  <2>1. UNCHANGED <<toPost, cashRows, positionRows>>
        /\ (posted' => posted /\ tick.pass # 0)
    BY <1>3 DEF StartTick, EndPass, books
  <2> QED
    BY <2>1 DEF RunInv, RowsAreOfRun, Runs
<1>4. CASE Post
  <2>1. /\ toPost # NoFill /\ toPost' = NoFill
        /\ cashRows' = WriteCash(cashRows, toPost.run, LedgerCash + toPost.cash)
        /\ positionRows' = WritePositions(positionRows, toPost.run,
                                          LedgerShares + toPost.shares)
    BY <1>4 DEF Post
  <2>2. toPost.run \in Runs /\ (posted => \A r \in cashRows \cup positionRows : r.run \in Runs)
    BY <2>1 DEF RunInv, RowsAreOfRun, SharesInv, TakesTurns
  <2>3. \A r \in cashRows' : r.run \in Runs
    BY <2>1, <2>2 DEF WriteCash, OtherRows
  <2>4. \A r \in positionRows' : r.run \in Runs
    BY <2>1, <2>2 DEF WritePositions, OtherRows
  <2> QED
    BY <2>1, <2>3, <2>4 DEF RowsAreOfRun, Runs, NoFill
<1>5. CASE PostRaises \/ Crash
  BY <1>5 DEF PostRaises, Crash, books, RunInv, RowsAreOfRun, Runs, NoFill
<1>6. CASE WriteSyncedCash \/ WriteSyncedPositions
  <2>1. tick.pass = 0
    BY <1>6 DEF WriteSyncedCash, WriteSyncedPositions, RunInv, SharesInv, TakesTurns
  <2>2. UNCHANGED <<toPost, tick>>
    BY <1>6 DEF WriteSyncedCash, WriteSyncedPositions
  <2> QED
    BY <2>1, <2>2 DEF RunInv, RowsAreOfRun, Runs, NoFill
<1>7. CASE \/ SyncAccount \/ WriteSnapshotOnly \/ SyncPending \/ Abandon \/ Validate
           \/ FiguresMove \/ UNCHANGED vars
  <2>1. UNCHANGED <<cashRows, positionRows, toPost, posted, tick>>
    BY <1>7 DEF SyncAccount, WriteSnapshotOnly, SyncPending, Abandon, Validate, FiguresMove,
                vars, books
  <2> QED
    BY <2>1 DEF RunInv, RowsAreOfRun, Runs, NoFill
<1> QED
  BY <1>1, <1>2, <1>3, <1>4, <1>5, <1>6, <1>7 DEF Next

(* When all orders are of one cycle, no tick posts the fills of two runs. *)
THEOREM OneRunIsEnough ==
  ASSUME ~MarketOpen, SingleRun
  PROVE  Spec => []OneRunInTick
<1>1. Init => RunInv
  BY SharesInit DEF RunInv, RowsAreOfRun, Init
<1>2. RunInv => OneRunInTick
  BY RunIsOne
<1>3. RunInv /\ [Next]_vars => RunInv'
  BY <1>2, SharesStep, RowsOfRunStep DEF RunInv
<1> QED
  BY <1>1, <1>2, <1>3, PTL DEF Spec
=============================================================================
