CONSTANTS
  Proc = {p1}
  p1 = p1
  None = None
  MaxCrashes = 2
  MaxTopics = 2
  MaxStray = 1
SPECIFICATION FairSpec
INVARIANTS
  EachMessageOnceInOrder
  PaidForAFairAuction
  ReportedIsTrue
PROPERTIES
  UndisturbedCompletes
CHECK_DEADLOCK FALSE
