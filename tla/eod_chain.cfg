CONSTANTS
  StepCount = 4
  Blocking = {1, 2}
  Applicable = {1, 2, 3}
  MaxAttempts <- Attempts
  Giver = 1
  Needs = {2}
  Elsewhere = {"command"}
  MaxStops = 2
  MaxFaults = 2
SPECIFICATION FairSpec
INVARIANTS
  TypeOK
  BlockingFirst
  OutcomeIsTrue
PROPERTIES
  RecordedRunsOnce
  OutcomeStands
  DayCloses
CHECK_DEADLOCK FALSE
