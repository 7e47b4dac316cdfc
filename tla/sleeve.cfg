CONSTANTS
  NStrategies = 2
  StartHeld <- Held
  MaxBuy = 2
  MaxHeld = 3
  MaxTrades = 2
  MaxFaults = 2
SPECIFICATION FairSpec
INVARIANTS
  SleevesBalance
  NothingOrphaned
  SellsOwnShares
  UncoveredOnlyByStrays
PROPERTIES
  SleevesConverge
CHECK_DEADLOCK FALSE
