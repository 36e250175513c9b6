SPECIFICATION Spec
CONSTANTS
  ThisRun = ThisRun
  OtherRun = OtherRun
  NoBid = NoBid
  Evaluators = {e1, e2}
  e1 = e1
  e2 = e2
  AuctionEndsAt = 1
  MaximumFreightPriceCents = 5
  DeliveryDeadline = 1
  ExpectedCommitmentCount = 2
  MaxTime = 3
  MaxMessages = 5
  BidIds <- MCBidIds
  Envelopes <- MCEnvelopes
  Materials <- MCMaterials
SYMMETRY EvaluatorSymmetry
INVARIANTS
  EvaluatorsAgree
  NoTimelyBidLeftOut
  DecisionIsRight
CHECK_DEADLOCK FALSE
