SPECIFICATION Spec
CONSTANTS
  o1 = o1
  o2 = o2
  Orders = {o1, o2}
  r1 = r1
  NoOrder = NoOrder
  Reconcilers = {r1}
  Qty = 2
  Portfolio = TRUE
  Misbehaviour = {"stale_reads"}
  MaxFaults = 0
SYMMETRY Symmetry
INVARIANTS
  TypeOK
  BookingsComplete
  LedgersFollowFills
  LedgersComplete
CHECK_DEADLOCK FALSE
