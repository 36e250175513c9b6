---- MODULE MCHcsAuction ----
(* A two-carrier auction for TLC.  The two offers tie on price and delivery, *)
(* so consensus time and then the bid identifier decide; the second expires  *)
(* one instant before the last possible barrier.  Besides the four messages  *)
(* of the run the topic may get a commitment of another run; any message may *)
(* come twice, too early, too late or out of order.                          *)
EXTENDS HcsAuction, TLC

CONSTANTS OtherRun

Offer(b, price, validUntil) ==
  [ bidId |-> b, freightPriceCents |-> price, estimatedDelivery |-> 1,
    bidValidUntil |-> validUntil, faults |-> {} ]

OfferA == Offer(1, 2, 3)
OfferB == Offer(2, 2, 2)

CommitmentA == BidCommitmentEnvelope(ThisRun, OfferA, OfferA)
CommitmentB == BidCommitmentEnvelope(ThisRun, OfferB, OfferB)

MCBidIds == {1, 2}

MCEnvelopes ==
  { AuctionOpenEnvelope(ThisRun, AuctionEndsAt), CommitmentA, CommitmentB,
    BidCommitmentEnvelope(OtherRun, OfferA, OfferA),
    AuctionCloseBarrierEnvelope(ThisRun, AuctionEndsAt, <<CommitmentB, CommitmentA>>) }

\* Both bids lodged and accepted; or bid 2 lodged at another price than the
\* one committed to, and bid 1 never accepted.
MCMaterials ==
  { [fullBids |-> <<OfferA, OfferB>>, acceptanceReceipts |-> <<OfferA, OfferB>>],
    [fullBids |-> <<OfferA, Offer(2, 1, 3)>>, acceptanceReceipts |-> <<NoBid, OfferB>>] }

EvaluatorSymmetry == Permutations(Evaluators)
====
