\* Two requests in hand, one correction round, one fault.
CONSTANTS
  w1 = w1
  w2 = w2
  a = a
  x = x
  y = y
  None = None
  Worker <- MCWorker
  PodIds <- MCOnePod
  Contents <- MCContents
  Submissions <- MCSubmissions
  Resent = {"ACCEPT"}
  MaxVersion = 2
  MaxFaults = 1
SPECIFICATION FairSpec
INVARIANTS
  AcceptedAsShown
  PlanBindsAccepted
PROPERTIES
  AcceptedGetsItsPlan
CHECK_DEADLOCK FALSE
