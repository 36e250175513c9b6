SPECIFICATION Spec
CONSTANTS
  Handlers = {h1, h2}
  Clients <- PaidRetry
  Actions = {a1, a2, a3}
  Bids = {b1}
  Bodies = {x, y}
  Payloads = {p1, p2, p3}
  PaysFor <- PayloadResources
  Activation = Activation
  a1 = a1
  a2 = a2
  a3 = a3
  b1 = b1
  x = x
  y = y
  p1 = p1
  p2 = p2
  p3 = p3
  AuctionEndsAt = 0
  ReconcilerFinds = TRUE
  MaxCrashes = 0
  MaxTime = 1
SYMMETRY HandlerSymmetry
INVARIANTS
  NoSecondSettlement
CHECK_DEADLOCK FALSE
