CONSTANTS
  b1 = b1
  b2 = b2
  s1 = s1
  Orders = {b1, b2, s1}
  Buys = {b1, b2}
  Size <- Sizes
  RunOf <- OneRun
  PricesOf <- SteadyPrices
  Unit = 2
  StartCash = 10
  StartShares = 0
  MarketOpen = FALSE
  MaxFaults = 1
  MaxSyncs = 1
SPECIFICATION FairSpec
INVARIANTS
  BooksBalance
PROPERTIES
  VerdictIsTrue
  LandsOnBroker
CHECK_DEADLOCK FALSE
