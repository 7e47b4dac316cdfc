CONSTANTS
  c1 = c1
  c2 = c2
  o1 = o1
  p1 = p1
  Cycles = {c1, c2}
  Operators = {p1}
  Orders = {o1}
  Environment = "live"
  Portfolio = TRUE
  SkipEvaluation = TRUE
  HoldPositions = FALSE
  Commands = {"halt", "resume", "enable", "pause", "paper", "strategy"}
  MaxCommands = 3
  MaxFaults = 1
SPECIFICATION FairSpec
INVARIANTS
  ControlsSound
  CompletedIsReconciled
PROPERTIES
  OnlyPardonedLeave
  HaltQuiets
  OrdersSettle
CHECK_DEADLOCK FALSE
