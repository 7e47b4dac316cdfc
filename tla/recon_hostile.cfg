CONSTANTS
  o1 = o1
  o2 = o2
  r1 = r1
  NoOrder = NoOrder
  Orders = {o1}
  Reconcilers = {r1}
  Qty = 3
  Portfolio = TRUE
  Misbehaviour = {"stale_reads", "late_ack", "lost_ack", "drops", "suspends", "stops", "unpriced"}
  MaxFaults = 1
SPECIFICATION Spec
INVARIANTS
  NeverOverBooked
  BookingInv
PROPERTIES
  LegalTransitions
  BooksOnlyGrow
CHECK_DEADLOCK FALSE
