CONSTANTS
  i1 = i1
  i2 = i2
  i3 = i3
  i4 = i4
  NoIntent = NoIntent
  SlotOf <- Slots
  Intents = {i1, i2, i3, i4}
  MaxAttempts = 2
  MaxOrders = 3
  Room = 2
  Misbehaviour = {"no_dedup"}
  MaxFaults = 1
SPECIFICATION FairSpec
INVARIANTS
  OneOrderPerIntent
  BooksMatchBroker
  OneInDoubt
  LimitsHold
PROPERTIES
  JobEnds
  FeedsReconciliation
CHECK_DEADLOCK FALSE
