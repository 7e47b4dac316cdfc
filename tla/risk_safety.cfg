CONSTANTS
  s1 = s1
  s2 = s2
  Symbols = {s1, s2}
  MaxGross = 3
  MaxSymbol = 2
  Opening = {0, 1, 3}
  Overlapping = {TRUE, FALSE}
  RefreshFails = TRUE
  MaxPlan = 2
  MaxTicks = 2
  MaxMislaid = 1
SPECIFICATION Spec
SYMMETRY Symmetry
INVARIANTS
  ShortOnlyByStrays
  ReaderSound
  CapsHoldInTick
PROPERTIES
  GrowsPastCapByStraysOnly
CHECK_DEADLOCK FALSE
