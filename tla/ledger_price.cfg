CONSTANTS
  b1 = b1
  b2 = b2
  s1 = s1
  Orders = {b1, b2, s1}
  Buys = {b1, b2}
  Size <- Sizes
  RunOf <- OneRun
  PricesOf <- MovingPrices
  Unit = 2
  StartCash = 10
  StartShares = 0
  MarketOpen = FALSE
  MaxFaults = 0
  MaxSyncs = 0
SPECIFICATION Spec
INVARIANT CashIsPaid
CHECK_DEADLOCK FALSE
