CONSTANTS
  o1 = o1
  o2 = o2
  r1 = r1
  NoOrder = NoOrder
  Orders = {o1}
  Reconcilers = {r1}
  Qty = 3
  Portfolio = TRUE
  Misbehaviour = {"stale_reads"}
  MaxFaults = 2
SPECIFICATION FairSpec
PROPERTIES
  EventuallyClosed
  EventuallyBooked
  KeepsPromise
CHECK_DEADLOCK FALSE
