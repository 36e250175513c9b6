SPECIFICATION FairSpec
CONSTANTS
  Writers = {w1, w2}
  Events <- ReusedAction
  Creation <- CreateRecord
  a1 = a1
  a2 = a2
  h1 = h1
  h2 = h2
  creation = creation
  StaleAfter = 2
  AcquireTimeout = 1
  HoldersAreFast = FALSE
  MaxCalls = 3
  MaxCrashes = 1
  MaxTime = 3
INVARIANTS
  AckedIsCommitted
  ActionCommittedOnce
PROPERTIES
  OneCommitUnlessStolen
  EveryCallReturns
CHECK_DEADLOCK FALSE
