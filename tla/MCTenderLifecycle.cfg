SPECIFICATION Spec
CONSTANTS
  Budget = 2
  AuctionEndsAt = 1
  Bids = {b1, b2}
  Txs = {x1, x2, x3}
  Activation = activation
  MaxTime = 6
  MaxPodVersion = 3
SYMMETRY PaymentSymmetry
INVARIANTS
  
  MoneyAccounted
  ReleaseJustified
  ReviewWindowWhole
PROPERTIES
  RefereeDecisionBinding
  ImplementsTenderMoney
CHECK_DEADLOCK FALSE
