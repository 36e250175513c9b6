SPECIFICATION Spec
CONSTANTS
  Writers = {w1, w2}
  Events <- TwoEvents
  Creation <- CreateRecord
  a1 = a1
  a2 = a2
  h1 = h1
  h2 = h2
  creation = creation
  StaleAfter = 2
  AcquireTimeout = 1
  HoldersAreFast = TRUE
  MaxCalls = 4
  MaxCrashes = 1
  MaxTime = 4
SYMMETRY WriterSymmetry
PROPERTIES
  OneCommitPerVersion
CHECK_DEADLOCK FALSE
