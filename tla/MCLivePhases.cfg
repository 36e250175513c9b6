SPECIFICATION FairSpec
CONSTANTS
  Appends = 2
  MaxStops = 3
  MaxTorn = 1
  MAX_WRITES = 10
  Purse = 2
  MaxRuns = 2
  EXPECTED_PRIOR_SEQUENCES = 3
INVARIANTS
  RepeatedOnlyIfLost
  PaidIsReleased
  ReportedIsTrue
PROPERTIES
  RunsFinish
CHECK_DEADLOCK FALSE
