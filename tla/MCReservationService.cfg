CONSTANTS
  Worker = {w1, w2}
  Tx = {t1, t2}
  Option = {"USDC", "HBAR"}
  None = None
  MaxCrashes = 1
SPECIFICATION Spec
SYMMETRY ReservationSymmetry
INVARIANTS
  PaidIsRecorded
  OnlyOnce
  VerdictIsRight
CHECK_DEADLOCK FALSE
