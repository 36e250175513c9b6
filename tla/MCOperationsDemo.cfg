CONSTANTS
  Client = {c1, c2}
  None = None
  DailyCeiling = 12
  MaxWrites = 14
  MaxFaults = 2
SPECIFICATION FairSpec
INVARIANTS
  JournalIsRight
  ConfirmedIsDone

  
CHECK_DEADLOCK FALSE
