-------------------------- MODULE AuctionSelection --------------------------
(***************************************************************************)
(* The deterministic auction engine: src/auction/, the reconciliation of a  *)
(* topic's Mirror Node messages in src/hcs/reconciliation.ts and the domain *)
(* helpers they use.  Everything here is a pure function of its arguments,  *)
(* as it is in the code; HcsAuction gives it a topic to work on.            *)
(*                                                                         *)
(* Data.  A hash is the value it was computed from, so two hashes are equal *)
(* exactly when the hashed values are.  Timestamps are integers, compared   *)
(* as domain/time.ts compares epoch nanoseconds.  Bid identifiers are       *)
(* numbers, ordered as compareCodePointStrings orders the strings.  A       *)
(* function that throws in the code is a predicate here that is false.      *)
(***************************************************************************)
EXTENDS Integers, FiniteSets, Sequences

CONSTANTS
  BidIds,                    \* identifiers of the bids of this auction
  ThisRun,                   \* run and tender identity every envelope must carry
  AuctionEndsAt,             \* tender.auctionEndsAt
  MaximumFreightPriceCents,  \* tender.maximumFreightPriceCents
  DeliveryDeadline,          \* tender.deliveryDeadline
  ExpectedCommitmentCount,   \* commitments the reconciliation insists on
  NoBid                      \* stands for a full bid that was never submitted

ASSUME SelectionConstants ==
  /\ BidIds \subseteq Nat
  /\ {AuctionEndsAt, MaximumFreightPriceCents, DeliveryDeadline} \subseteq Nat
  /\ ExpectedCommitmentCount \in Nat

(***************************************************************************)
(* Reason codes that a bid's own terms, its signature and the carrier       *)
(* registry decide, whatever happens on the topic.  A bid record carries    *)
(* the ones it would be given; the codes that depend on the topic, on the   *)
(* submitted evidence or on the time of evaluation are computed below.      *)
(* Evidence that does not parse, and a commitment with another version than *)
(* its bid, are rejected by codes of their own in the code; here they are   *)
(* evidence that was not submitted or does not match.                       *)
(***************************************************************************)
STATIC_REASONS ==
  { "CARRIER_NOT_REGISTERED", "CARRIER_INACTIVE", "CARRIER_ACCOUNT_MISMATCH",
    "INVALID_BID_SIGNATURE", "TENDER_MISMATCH", "EQUIPMENT_MISMATCH",
    "EQUIPMENT_NOT_AUTHORIZED", "CAPACITY_NOT_CONFIRMED",
    "PICKUP_WINDOW_INFEASIBLE", "PAYMENT_RECIPIENT_MISMATCH",
    "INVALID_PAYMENT_OPTIONS" }

CarrierBid ==
  [ bidId : BidIds, freightPriceCents : Nat, estimatedDelivery : Nat,
    bidValidUntil : Nat, faults : SUBSET STATIC_REASONS ]

-----------------------------------------------------------------------------
(* Envelopes, and the messages the Mirror Node reports for a topic.         *)

AuctionOpenEnvelope(run, endsAt) ==
  [messageType |-> "AUCTION_OPEN", runId |-> run, auctionEndsAt |-> endsAt]

BidCommitmentEnvelope(run, bid, receipt) ==
  [ messageType |-> "BID_COMMITMENT", runId |-> run, bidId |-> bid.bidId,
    bidHash |-> bid, acceptanceReceiptHash |-> receipt ]

AuctionCloseBarrierEnvelope(run, endsAt, hashes) ==
  [ messageType |-> "AUCTION_CLOSE_BARRIER", runId |-> run,
    auctionEndsAt |-> endsAt, commitmentEnvelopeHashes |-> hashes ]

\* The sequences of the messages of one type in an observation.  An
\* observation is a function from sequence numbers to
\* [envelope, consensusTimestamp] records.
OfType(messages, type) ==
  {s \in DOMAIN messages : messages[s].envelope.messageType = type}

-----------------------------------------------------------------------------
(* reconcileMirrorMessages                                                  *)

isSequenceRangeComplete(start, end, observed) ==
  /\ start >= 1
  /\ end >= start
  /\ observed = start .. end

\* The one AUCTION_CLOSE_BARRIER and the one AUCTION_OPEN of an observation.
TheBarrier(messages) == CHOOSE s \in OfType(messages, "AUCTION_CLOSE_BARRIER") : TRUE
TheOpen(messages)    == CHOOSE s \in OfType(messages, "AUCTION_OPEN") : TRUE

NoDuplicateEnvelope(messages) ==
  \A s, t \in DOMAIN messages :
    messages[s].envelope = messages[t].envelope => s = t

\* Only a strictly earlier timestamp on a later sequence is refused.
MonotonicConsensus(messages) ==
  \A s, t \in DOMAIN messages :
    s < t => messages[s].consensusTimestamp <= messages[t].consensusTimestamp

IdentityBound(messages) ==
  \A s \in DOMAIN messages : messages[s].envelope.runId = ThisRun

OneOpenOneBarrier(messages) ==
  /\ Cardinality(OfType(messages, "AUCTION_CLOSE_BARRIER")) = 1
  /\ Cardinality(OfType(messages, "AUCTION_OPEN")) = 1

\* Sequences 1 to the barrier are all there and nothing follows the barrier.
WindowComplete(messages) ==
  isSequenceRangeComplete(1, TheBarrier(messages), DOMAIN messages)

CommitmentsInOrder(messages) ==
  LET commitments == OfType(messages, "BID_COMMITMENT")
  IN  /\ Cardinality(commitments) = ExpectedCommitmentCount
      /\ TheOpen(messages) < TheBarrier(messages)
      /\ \A s \in commitments : TheOpen(messages) < s /\ s < TheBarrier(messages)

\* The commitment envelopes of a complete window, in sequence order.
CommitmentEnvelopes(messages) ==
  LET envelopes == [s \in 1 .. TheBarrier(messages) |-> messages[s].envelope]
      IsCommitment(e) == e.messageType = "BID_COMMITMENT"
  IN  SelectSeq(envelopes, IsCommitment)

(* Mutant: a barrier at the deadline itself closes the window. *)
BarrierBindsAtDeadline(messages) ==
  LET barrier == messages[TheBarrier(messages)]
      open    == messages[TheOpen(messages)]
  IN  /\ barrier.envelope.auctionEndsAt = open.envelope.auctionEndsAt
      /\ barrier.consensusTimestamp >= open.envelope.auctionEndsAt
      /\ barrier.envelope.commitmentEnvelopeHashes = CommitmentEnvelopes(messages)

\* The barrier comes strictly after the deadline OPEN announced and lists
\* exactly the commitments before it, in their order.
BarrierBinds(messages) ==
  LET barrier == messages[TheBarrier(messages)]
      open    == messages[TheOpen(messages)]
  IN  /\ barrier.envelope.auctionEndsAt = open.envelope.auctionEndsAt
      /\ barrier.consensusTimestamp > open.envelope.auctionEndsAt
      /\ Len(barrier.envelope.commitmentEnvelopeHashes) = ExpectedCommitmentCount
      /\ barrier.envelope.commitmentEnvelopeHashes = CommitmentEnvelopes(messages)

\* The order of the checks decides only which error is thrown.
reconcileMirrorMessages(messages) ==
  /\ DOMAIN messages # {}
  /\ OneOpenOneBarrier(messages)
  /\ WindowComplete(messages)
  /\ IdentityBound(messages)
  /\ NoDuplicateEnvelope(messages)
  /\ MonotonicConsensus(messages)
  /\ CommitmentsInOrder(messages)
  /\ BarrierBinds(messages)

CommitmentEvidence(messages, s) ==
  [ bidId |-> messages[s].envelope.bidId,
    bidHash |-> messages[s].envelope.bidHash,
    acceptanceReceiptHash |-> messages[s].envelope.acceptanceReceiptHash,
    hcsSequence |-> s,
    consensusTimestamp |-> messages[s].consensusTimestamp ]

commitmentEvidence(messages, upTo) ==
  {CommitmentEvidence(messages, s) :
     s \in {t \in OfType(messages, "BID_COMMITMENT") : t <= upTo}}

-----------------------------------------------------------------------------
(* Eligibility.  materials.fullBids and materials.acceptanceReceipts map a  *)
(* bid identifier to the submitted bid, and to the bid a signed acceptance  *)
(* receipt was issued for, or to NoBid.                                     *)

isCommitmentTimely(consensusTimestamp, auctionEndsAt) ==
  consensusTimestamp <= auctionEndsAt

\* A set with one reason code when the condition holds.
Reason(code, condition) == IF condition THEN {code} ELSE {}

SubmittedBidReasons(commitment, bid, receipt, evaluationTimestamp) ==
  UNION { Reason("BID_HASH_MISMATCH", bid # commitment.bidHash),
          Reason("ACCEPTANCE_RECEIPT_MISMATCH",
                 receipt # bid \/ receipt # commitment.acceptanceReceiptHash),
          Reason("BID_EXPIRED", bid.bidValidUntil < evaluationTimestamp),
          Reason("DELIVERY_DEADLINE_MISSED", DeliveryDeadline < bid.estimatedDelivery),
          Reason("PRICE_ABOVE_MAXIMUM",
                 bid.freightPriceCents > MaximumFreightPriceCents),
          bid.faults }

evaluateCommitmentEligibility(commitment, materials, evaluationTimestamp) ==
  LET bid    == materials.fullBids[commitment.bidId]
      timely == isCommitmentTimely(commitment.consensusTimestamp, AuctionEndsAt)
  IN  [ bidId |-> commitment.bidId,
        hcsSequence |-> commitment.hcsSequence,
        consensusTimestamp |-> commitment.consensusTimestamp,
        timely |-> timely,
        bid |-> bid,
        reasonCodes |->
          Reason("LATE_COMMITMENT", ~timely)
            \cup (IF bid = NoBid THEN {"FULL_BID_MISSING"}
                  ELSE SubmittedBidReasons(commitment, bid,
                         materials.acceptanceReceipts[commitment.bidId],
                         evaluationTimestamp)) ]

evaluateAllCommitments(commitments, materials, evaluationTimestamp) ==
  {evaluateCommitmentEligibility(c, materials, evaluationTimestamp) :
     c \in commitments}

isRankable(result) == result.reasonCodes = {} /\ result.timely

-----------------------------------------------------------------------------
(* Ranking: LOWEST_QUALIFIED_PRICE_V1.                                      *)

(* Mutant: consensus time is left out of the ranking. *)
compareWithoutConsensusTime(a, b) ==
  IF a.bid.freightPriceCents # b.bid.freightPriceCents
    THEN a.bid.freightPriceCents - b.bid.freightPriceCents
  ELSE IF a.bid.estimatedDelivery # b.bid.estimatedDelivery
    THEN a.bid.estimatedDelivery - b.bid.estimatedDelivery
  ELSE a.bidId - b.bidId

compareRankedBids(a, b) ==
  IF a.bid.freightPriceCents # b.bid.freightPriceCents
    THEN a.bid.freightPriceCents - b.bid.freightPriceCents
  ELSE IF a.bid.estimatedDelivery # b.bid.estimatedDelivery
    THEN a.bid.estimatedDelivery - b.bid.estimatedDelivery
  ELSE IF a.consensusTimestamp # b.consensusTimestamp
    THEN a.consensusTimestamp - b.consensusTimestamp
  ELSE a.bidId - b.bidId

rankQualifiedBids(results) == {r \in results : isRankable(r)}

\* The first of the sorted qualified bids.
selectWinner(results) ==
  CHOOSE r \in rankQualifiedBids(results) :
    \A s \in rankQualifiedBids(results) \ {r} : compareRankedBids(r, s) < 0

-----------------------------------------------------------------------------
(* The decision manifest and the closure proof.                             *)

reconstructExpectedManifestBody(results, evaluationTimestamp, barrierSequence) ==
  [ evaluationTimestamp |-> evaluationTimestamp,
    barrierSequence |-> barrierSequence,
    commitments |-> {[bidId |-> r.bidId, hcsSequence |-> r.hcsSequence,
                      consensusTimestamp |-> r.consensusTimestamp,
                      reasonCodes |-> r.reasonCodes] : r \in results},
    winningBid |-> IF rankQualifiedBids(results) = {} THEN NoBid
                   ELSE selectWinner(results).bid,
    evaluatedBidSetHash |-> results ]

verifyDecisionManifestIntegrity(manifest, results) ==
  /\ manifest = reconstructExpectedManifestBody(results,
                  manifest.evaluationTimestamp, manifest.barrierSequence)
  /\ \A r, s \in results : r.bidId = s.bidId => r.hcsSequence = s.hcsSequence

\* What validateReconciliationInputs and the factory refuse to work with.
ClosureInputsValid(closure) ==
  /\ AuctionEndsAt <= closure.evaluationTimestamp
  /\ AuctionEndsAt <= closure.closeBarrierConsensusTimestamp
  /\ \A c, d \in closure.commitments :
       (c.bidId = d.bidId \/ c.hcsSequence = d.hcsSequence) => c = d
  /\ \A c \in closure.commitments : c.hcsSequence \in closure.observedSequences

createAuctionClosureProof(closure, materials) ==
  LET results == evaluateAllCommitments(closure.commitments, materials,
                                        closure.evaluationTimestamp)
  IN  [ closeBarrierConsensusTimestamp |-> closure.closeBarrierConsensusTimestamp,
        reconciledEndSequence |-> closure.reconciledEndSequence,
        observedSequences |-> closure.observedSequences,
        evaluationTimestamp |-> closure.evaluationTimestamp,
        results |-> results,
        manifest |-> reconstructExpectedManifestBody(results,
                       closure.evaluationTimestamp, closure.closeBarrierSequence) ]

\* The closure its callers derive from an observation that has a barrier.
ClosureOf(messages, barrier) ==
  [ closeBarrierSequence |-> barrier,
    closeBarrierConsensusTimestamp |-> messages[barrier].consensusTimestamp,
    reconciledEndSequence |-> barrier,
    observedSequences |-> {s \in DOMAIN messages : s <= barrier},
    evaluationTimestamp |-> messages[barrier].consensusTimestamp,
    commitments |-> commitmentEvidence(messages, barrier) ]
=============================================================================
