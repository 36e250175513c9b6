--------------------------- MODULE TenderLifecycle ---------------------------
(***************************************************************************)
(* The lifecycle record of one tender and the reducer that applies one     *)
(* event to it (src/v2/lifecycle/reducer.ts), from DRAFT to                *)
(* TENDER_COMPLETED, with the record validator every store runs before it  *)
(* writes and after it reads (src/v2/store/persisted-record.ts).           *)
(*                                                                         *)
(* One event is one action.  Time is counted in days: an event carries its *)
(* eventTime, never earlier than the record's updatedAt.  A hash, an       *)
(* account or a transaction id that the reducer only requires to be there  *)
(* is a BOOLEAN, an amount or a time that may be null is an integer or     *)
(* Null.  The record's version, history and processed actions belong to    *)
(* the store and are in module LifecycleStore.                             *)
(***************************************************************************)
EXTENDS Integers

CONSTANTS
  Budget,         \* maximumFreightBudgetAtomic
  AuctionEndsAt,  \* the tender's auction end
  Bids,           \* bid ids carriers may submit
  Txs,            \* x402 settlement transaction ids
  Activation,     \* what a TENDER_ACTIVATE payment has in place of a bid id
  MaxTime,        \* bound: last eventTime
  MaxPodVersion   \* bound: last POD version

ASSUME LifecycleConstants ==
  /\ Budget \in Nat \ {0}
  /\ AuctionEndsAt \in Nat
  /\ Activation \notin Bids
  /\ "NONE" \notin Txs
  /\ MaxTime \in Nat
  /\ MaxPodVersion \in Nat

VARIABLE rec

Null == -1
None == "NONE"
Amounts == 0..Budget
OptionalAmount == Amounts \cup {Null}
Times == 0..MaxTime
OptionalTime == Times \cup {Null}

REVIEW_WINDOW == 2
CORRECTION_WINDOW == 1
POST_RESUBMIT_REVIEW_WINDOW == 1
LastDeadline == MaxTime + REVIEW_WINDOW
OptionalDeadline == (0..LastDeadline) \cup {Null}
PodVersions == 0..MaxPodVersion      \* 0: no POD yet

V2_LIFECYCLE_STATES ==
  {"DRAFT", "ESCROW_FUNDED", "TENDER_OPENED", "BIDDING", "AUCTION_CLOSED",
   "NO_QUALIFIED_BID", "WINNER_SELECTED", "WINNING_AMOUNT_LOCKED",
   "ROUTE_RESERVED", "IN_TRANSIT", "DELIVERY_REPORTED", "POD_SUBMITTED",
   "POD_UNDER_REVIEW", "POD_CORRECTION_REQUESTED", "POD_RESUBMITTED",
   "POD_ACCEPTED", "POD_DEEMED_ACCEPTED", "POD_DISPUTED", "REFEREE_DECISION",
   "PAYMENT_RELEASED", "PARTIAL_RELEASE", "REFUNDED", "TENDER_COMPLETED"}

Resolutions == {"RELEASE_FULL", "REFUND_FULL", "PARTIAL"}
OptionalResolution == Resolutions \cup {None}
ShipperAuths == {None, "ACCEPT", "REQUEST_CORRECTION", "REJECT_DISPUTE"}

(* A settlement transaction and the bid, or the activation, it pays for. *)
OptionalTx == Txs \cup {None}
AccessPayments == SUBSET (Txs \X (Bids \cup {Activation}))
BidRegistries == SUBSET (Txs \X Bids)

(***************************************************************************)
(* disputeId: given by the shipper's rejection, or made from the action id *)
(* of the timeout event behind a 16 character prefix.  An action id may    *)
(* have 128 characters and so may a persisted disputeId: a "long" action   *)
(* id, of more than 112 characters, makes a disputeId that is too long.    *)
(***************************************************************************)
ActionIdLengths == {"short", "long"}
DisputeIds == {None, "named", "timeout-short", "timeout-long"}
TimeoutDisputeId(len) == IF len = "long" THEN "timeout-long" ELSE "timeout-short"

LifecycleRecord ==
  [state: V2_LIFECYCLE_STATES, updatedAt: Times,
   fundingTxId: BOOLEAN, fundedAmount: OptionalAmount,
   accessReceipt: OptionalTx, accessPayments: AccessPayments,
   bidRegistry: BidRegistries, closureProof: BOOLEAN, decisionManifest: BOOLEAN,
   winner: BOOLEAN, winningAmount: OptionalAmount,
   lockedAmount: OptionalAmount, excessRefund: OptionalAmount,
   allocateTxId: BOOLEAN, refundExcessTxId: BOOLEAN, reservation: BOOLEAN,
   podVersion: PodVersions, reviewStartedAt: OptionalTime,
   reviewDeadlineAt: OptionalDeadline, correctionDeadlineAt: OptionalDeadline,
   shipperActionTaken: BOOLEAN, lastShipperAuth: ShipperAuths,
   advisory: BOOLEAN, disputeId: DisputeIds,
   refereeResolution: OptionalResolution,
   releaseAmount: OptionalAmount, refundAmount: OptionalAmount,
   releaseTxId: BOOLEAN, refundTxId: BOOLEAN]

createLifecycleRecord ==
  [state |-> "DRAFT", updatedAt |-> 0,
   fundingTxId |-> FALSE, fundedAmount |-> Null,
   accessReceipt |-> None, accessPayments |-> {}, bidRegistry |-> {},
   closureProof |-> FALSE, decisionManifest |-> FALSE,
   winner |-> FALSE, winningAmount |-> Null,
   lockedAmount |-> Null, excessRefund |-> Null,
   allocateTxId |-> FALSE, refundExcessTxId |-> FALSE, reservation |-> FALSE,
   podVersion |-> 0, reviewStartedAt |-> Null, reviewDeadlineAt |-> Null,
   correctionDeadlineAt |-> Null, shipperActionTaken |-> FALSE,
   lastShipperAuth |-> None, advisory |-> FALSE, disputeId |-> None,
   refereeResolution |-> None, releaseAmount |-> Null, refundAmount |-> Null,
   releaseTxId |-> FALSE, refundTxId |-> FALSE]

Init == rec = createLifecycleRecord

-----------------------------------------------------------------------------
(* The reducer's helpers *)

LEGAL(from) ==
  CASE from = "DRAFT" -> {"ESCROW_FUNDED"}
    [] from = "ESCROW_FUNDED" -> {"TENDER_OPENED"}
    [] from = "TENDER_OPENED" -> {"BIDDING"}
    [] from = "BIDDING" -> {"AUCTION_CLOSED"}
    [] from = "AUCTION_CLOSED" -> {"WINNER_SELECTED", "NO_QUALIFIED_BID"}
    [] from = "NO_QUALIFIED_BID" -> {"REFUNDED"}
    [] from = "WINNER_SELECTED" -> {"WINNING_AMOUNT_LOCKED"}
    [] from = "WINNING_AMOUNT_LOCKED" -> {"ROUTE_RESERVED"}
    [] from = "ROUTE_RESERVED" -> {"IN_TRANSIT"}
    [] from = "IN_TRANSIT" -> {"DELIVERY_REPORTED"}
    [] from = "DELIVERY_REPORTED" -> {"POD_SUBMITTED"}
    [] from = "POD_SUBMITTED" -> {"POD_UNDER_REVIEW"}
    [] from = "POD_UNDER_REVIEW" ->
         {"POD_CORRECTION_REQUESTED", "POD_ACCEPTED", "POD_DEEMED_ACCEPTED",
          "POD_DISPUTED"}
    [] from = "POD_CORRECTION_REQUESTED" -> {"POD_RESUBMITTED", "POD_DISPUTED"}
    [] from = "POD_RESUBMITTED" -> {"POD_UNDER_REVIEW"}
    [] from \in {"POD_ACCEPTED", "POD_DEEMED_ACCEPTED"} -> {"PAYMENT_RELEASED"}
    [] from = "POD_DISPUTED" -> {"REFEREE_DECISION"}
    [] from = "REFEREE_DECISION" ->
         {"PAYMENT_RELEASED", "PARTIAL_RELEASE", "REFUNDED"}
    [] from \in {"PAYMENT_RELEASED", "PARTIAL_RELEASE", "REFUNDED"} ->
         {"TENDER_COMPLETED"}
    [] OTHER -> {}

(***************************************************************************)
(* An event of time t that leads to state "to" and writes the record with  *)
(* its patch applied.  A self-transition is always legal.                  *)
(***************************************************************************)
withTransition(to, t, patched) ==
  /\ rec.updatedAt <= t
  /\ to = rec.state \/ to \in LEGAL(rec.state)
  /\ rec' = [patched EXCEPT !.state = to, !.updatedAt = t]

(* Mutant: one settlement may pay for several actions. *)
UsedSettlementAccepted(tx) == tx \in Txs

assertUnusedAccessSettlement(tx) == \A p \in rec.accessPayments : p[1] # tx

-----------------------------------------------------------------------------
(* Funding, activation, auction *)

ESCROW_FUNDING_CONFIRMED(t, amount) ==
  /\ rec.state = "DRAFT"
  /\ amount = Budget
  /\ withTransition("ESCROW_FUNDED", t,
       [rec EXCEPT !.fundingTxId = TRUE, !.fundedAmount = amount])

TENDER_ACTIVATION_PAID(t, tx) ==
  /\ rec.state = "ESCROW_FUNDED"
  /\ assertUnusedAccessSettlement(tx)
  /\ withTransition("TENDER_OPENED", t,
       [rec EXCEPT !.accessReceipt = tx,
                   !.accessPayments = @ \cup {<<tx, Activation>>}])

(* The first accepted bid opens bidding; later bids stay in BIDDING. *)
BID_SUBMISSION_PAID(t, bid, tx) ==
  /\ rec.state \in {"TENDER_OPENED", "BIDDING"}
  /\ t <= AuctionEndsAt
  /\ \A b \in rec.bidRegistry : b[2] # bid
  /\ assertUnusedAccessSettlement(tx)
  /\ withTransition("BIDDING", t,
       [rec EXCEPT !.bidRegistry = @ \cup {<<tx, bid>>},
                   !.accessPayments = @ \cup {<<tx, bid>>}])

BIDDING_STARTED(t) ==
  /\ rec.state = "TENDER_OPENED"
  /\ withTransition("BIDDING", t, rec)

AUCTION_CLOSE_CONFIRMED(t) ==
  /\ rec.state = "BIDDING"
  /\ AuctionEndsAt <= t
  /\ withTransition("AUCTION_CLOSED", t, [rec EXCEPT !.closureProof = TRUE])

NO_QUALIFIED_BID_CONFIRMED(t) ==
  /\ rec.state = "AUCTION_CLOSED"
  /\ withTransition("NO_QUALIFIED_BID", t,
       [rec EXCEPT !.decisionManifest = TRUE, !.winningAmount = Null])

WINNER_SELECTION_CONFIRMED(t, amount) ==
  /\ rec.state = "AUCTION_CLOSED"
  /\ amount > 0 /\ amount <= Budget
  /\ withTransition("WINNER_SELECTED", t,
       [rec EXCEPT !.decisionManifest = TRUE, !.winner = TRUE,
                   !.winningAmount = amount])

(* Mutant: the excess need not complete the winning amount to the budget. *)
AllocationWithoutConservation(t, amount, excess, excessTx) ==
  /\ rec.state = "WINNER_SELECTED"
  /\ amount > 0
  /\ amount = rec.winningAmount
  /\ excessTx = (excess > 0)
  /\ withTransition("WINNING_AMOUNT_LOCKED", t,
       [rec EXCEPT !.lockedAmount = amount, !.excessRefund = excess,
                   !.allocateTxId = TRUE, !.refundExcessTxId = excessTx])

(* The excess must be refunded by a transaction of its own, if there is one. *)
WINNING_AMOUNT_ALLOCATION_CONFIRMED(t, amount, excess, excessTx) ==
  /\ rec.state = "WINNER_SELECTED"
  /\ amount > 0
  /\ amount = rec.winningAmount
  /\ amount + excess = Budget
  /\ excessTx = (excess > 0)
  /\ withTransition("WINNING_AMOUNT_LOCKED", t,
       [rec EXCEPT !.lockedAmount = amount, !.excessRefund = excess,
                   !.allocateTxId = TRUE, !.refundExcessTxId = excessTx,
                   !.winningAmount = amount])

-----------------------------------------------------------------------------
(* Transport *)

ROUTE_RESERVATION_PUBLISHED(t) ==
  /\ rec.state = "WINNING_AMOUNT_LOCKED"
  /\ withTransition("ROUTE_RESERVED", t, [rec EXCEPT !.reservation = TRUE])

TRANSIT_STARTED(t) ==
  /\ rec.state = "ROUTE_RESERVED"
  /\ withTransition("IN_TRANSIT", t, rec)

DELIVERY_REPORTED(t) ==
  /\ rec.state = "IN_TRANSIT"
  /\ withTransition("DELIVERY_REPORTED", t, rec)

-----------------------------------------------------------------------------
(* Proof of delivery and its review *)

POD_PACKAGE_SUBMITTED(t, version) ==
  /\ rec.state = "DELIVERY_REPORTED"
  /\ version = 1
  /\ withTransition("POD_SUBMITTED", t, [rec EXCEPT !.podVersion = version])

(* Mutant: the review of a resubmitted POD keeps the first review's deadline. *)
ReviewKeepsDeadline(t) ==
  /\ rec.state \in {"POD_SUBMITTED", "POD_RESUBMITTED"}
  /\ withTransition("POD_UNDER_REVIEW", t,
       [rec EXCEPT !.reviewStartedAt = t,
                   !.reviewDeadlineAt = IF @ = Null THEN t + REVIEW_WINDOW ELSE @,
                   !.shipperActionTaken = FALSE,
                   !.correctionDeadlineAt = Null])

(* The first review has the whole window, a review after a resubmission the *)
(* shorter one; both start with no shipper action and no correction pending. *)
POD_REVIEW_STARTED(t) ==
  /\ rec.state \in {"POD_SUBMITTED", "POD_RESUBMITTED"}
  /\ withTransition("POD_UNDER_REVIEW", t,
       [rec EXCEPT !.reviewStartedAt = t,
                   !.reviewDeadlineAt =
                     t + (IF rec.state = "POD_SUBMITTED"
                          THEN REVIEW_WINDOW ELSE POST_RESUBMIT_REVIEW_WINDOW),
                   !.shipperActionTaken = FALSE,
                   !.correctionDeadlineAt = Null])

(***************************************************************************)
(* The shipper's three answers: signed, in time, bound to the deadline of  *)
(* this review and to the record's POD.                                    *)
(***************************************************************************)
ShipperReview(t, boundDeadline) ==
  /\ rec.state = "POD_UNDER_REVIEW"
  /\ rec.reviewDeadlineAt # Null
  /\ boundDeadline = rec.reviewDeadlineAt
  /\ t <= rec.reviewDeadlineAt
  /\ rec.podVersion # 0

POD_CORRECTION_REQUESTED(t, boundDeadline) ==
  /\ ShipperReview(t, boundDeadline)
  /\ withTransition("POD_CORRECTION_REQUESTED", t,
       [rec EXCEPT !.correctionDeadlineAt = t + CORRECTION_WINDOW,
                   !.shipperActionTaken = TRUE,
                   !.lastShipperAuth = "REQUEST_CORRECTION"])

POD_PACKAGE_RESUBMITTED(t, version) ==
  /\ rec.state = "POD_CORRECTION_REQUESTED"
  /\ rec.correctionDeadlineAt # Null
  /\ t <= rec.correctionDeadlineAt
  /\ version = rec.podVersion + 1
  /\ withTransition("POD_RESUBMITTED", t, [rec EXCEPT !.podVersion = version])

POD_ACCEPTED_BY_SHIPPER(t, boundDeadline) ==
  /\ ShipperReview(t, boundDeadline)
  /\ withTransition("POD_ACCEPTED", t,
       [rec EXCEPT !.shipperActionTaken = TRUE, !.lastShipperAuth = "ACCEPT"])

(* Mutant: the review deadline is not waited for. *)
DeemedAcceptedEarly(t) ==
  /\ rec.state = "POD_UNDER_REVIEW"
  /\ ~rec.shipperActionTaken
  /\ withTransition("POD_DEEMED_ACCEPTED", t, rec)

POD_REVIEW_DEADLINE_EXPIRED(t) ==
  /\ rec.state = "POD_UNDER_REVIEW"
  /\ rec.reviewDeadlineAt # Null
  /\ rec.reviewDeadlineAt <= t
  /\ ~rec.shipperActionTaken
  /\ withTransition("POD_DEEMED_ACCEPTED", t, rec)

POD_CORRECTION_DEADLINE_EXPIRED(t, idLength) ==
  /\ rec.state = "POD_CORRECTION_REQUESTED"
  /\ rec.correctionDeadlineAt # Null
  /\ rec.correctionDeadlineAt <= t
  /\ withTransition("POD_DISPUTED", t,
       [rec EXCEPT !.disputeId = TimeoutDisputeId(idLength)])

POD_REJECTED_TO_DISPUTE(t, boundDeadline) ==
  /\ ShipperReview(t, boundDeadline)
  /\ withTransition("POD_DISPUTED", t,
       [rec EXCEPT !.disputeId = "named", !.shipperActionTaken = TRUE,
                   !.lastShipperAuth = "REJECT_DISPUTE"])

POD_ADVISORY_ANCHORED(t) ==
  /\ rec.updatedAt <= t
  /\ rec.state # "TENDER_COMPLETED"
  /\ rec' = [rec EXCEPT !.advisory = TRUE, !.updatedAt = t]

-----------------------------------------------------------------------------
(* Dispute and settlement *)

OrZero(amount) == IF amount = Null THEN 0 ELSE amount

REFEREE_RESOLUTION_RECORDED(t, resolution, release, refund, disputeId) ==
  /\ rec.state = "POD_DISPUTED"
  /\ rec.disputeId # None => disputeId = rec.disputeId
  /\ release + refund = OrZero(rec.lockedAmount)
  /\ resolution = "RELEASE_FULL" => refund = 0
  /\ resolution = "REFUND_FULL" => release = 0
  /\ resolution = "PARTIAL" => ~(release = 0 /\ refund = 0)
  /\ withTransition("REFEREE_DECISION", t,
       [rec EXCEPT !.refereeResolution = resolution,
                   !.releaseAmount = release, !.refundAmount = refund,
                   !.disputeId = disputeId])

(* Mutant: the confirmation may follow any referee decision. *)
ReleaseAfterAnyDecision(t, release) ==
  /\ rec.state \in {"POD_ACCEPTED", "POD_DEEMED_ACCEPTED", "REFEREE_DECISION"}
  /\ release > 0
  /\ release = rec.lockedAmount
  /\ withTransition("PAYMENT_RELEASED", t,
       [rec EXCEPT !.releaseTxId = TRUE, !.releaseAmount = release,
                   !.refundAmount = 0])

ESCROW_RELEASE_CONFIRMED(t, release) ==
  /\ \/ rec.state \in {"POD_ACCEPTED", "POD_DEEMED_ACCEPTED"}
     \/ /\ rec.state = "REFEREE_DECISION"
        /\ rec.refereeResolution = "RELEASE_FULL"
        /\ rec.releaseAmount = release
        /\ rec.refundAmount = 0
  /\ release > 0
  /\ release = (IF rec.lockedAmount # Null THEN rec.lockedAmount
                                          ELSE rec.winningAmount)
  /\ withTransition("PAYMENT_RELEASED", t,
       [rec EXCEPT !.releaseTxId = TRUE, !.releaseAmount = release,
                   !.refundAmount = 0])

ESCROW_PARTIAL_RELEASE_CONFIRMED(t, release, refund) ==
  /\ rec.state = "REFEREE_DECISION"
  /\ rec.refereeResolution = "PARTIAL"
  /\ release + refund = OrZero(rec.lockedAmount)
  /\ release = rec.releaseAmount /\ refund = rec.refundAmount
  /\ withTransition("PARTIAL_RELEASE", t,
       [rec EXCEPT !.releaseTxId = TRUE, !.refundTxId = TRUE,
                   !.releaseAmount = release, !.refundAmount = refund])

(* Mutant: a refund without a qualified bid may be of any amount. *)
RefundOfAnyAmount(t, refund) ==
  /\ refund > 0
  /\ rec.state = "NO_QUALIFIED_BID"
  /\ withTransition("REFUNDED", t,
       [rec EXCEPT !.refundTxId = TRUE, !.refundAmount = refund,
                   !.releaseAmount = 0])

ESCROW_REFUND_CONFIRMED(t, refund) ==
  /\ refund > 0
  /\ \/ /\ rec.state = "NO_QUALIFIED_BID"
        /\ refund = Budget
     \/ /\ rec.state = "REFEREE_DECISION"
        /\ rec.refereeResolution = "REFUND_FULL"
        /\ rec.refundAmount = refund
        /\ rec.releaseAmount = 0
        /\ rec.lockedAmount # Null => refund = rec.lockedAmount
  /\ withTransition("REFUNDED", t,
       [rec EXCEPT !.refundTxId = TRUE, !.refundAmount = refund,
                   !.releaseAmount = 0])

TENDER_COMPLETION_CONFIRMED(t) ==
  /\ rec.state \in {"PAYMENT_RELEASED", "PARTIAL_RELEASE", "REFUNDED"}
  /\ withTransition("TENDER_COMPLETED", t, rec)

-----------------------------------------------------------------------------

AuctionEvent(t) ==
  \/ \E a \in Amounts : ESCROW_FUNDING_CONFIRMED(t, a)
  \/ \E tx \in Txs : TENDER_ACTIVATION_PAID(t, tx)
  \/ \E b \in Bids, tx \in Txs : BID_SUBMISSION_PAID(t, b, tx)
  \/ BIDDING_STARTED(t)
  \/ AUCTION_CLOSE_CONFIRMED(t)
  \/ NO_QUALIFIED_BID_CONFIRMED(t)
  \/ \E a \in 0..(Budget + 1) : WINNER_SELECTION_CONFIRMED(t, a)
  \/ \E a, e \in Amounts, x \in BOOLEAN :
       WINNING_AMOUNT_ALLOCATION_CONFIRMED(t, a, e, x)

TransportEvent(t) ==
  \/ ROUTE_RESERVATION_PUBLISHED(t)
  \/ TRANSIT_STARTED(t)
  \/ DELIVERY_REPORTED(t)

PodEvent(t) ==
  \/ \E v \in 1..MaxPodVersion : POD_PACKAGE_SUBMITTED(t, v)
  \/ POD_REVIEW_STARTED(t)
  \/ \E d \in 0..LastDeadline :
       \/ POD_CORRECTION_REQUESTED(t, d)
       \/ POD_ACCEPTED_BY_SHIPPER(t, d)
       \/ POD_REJECTED_TO_DISPUTE(t, d)
  \/ \E v \in 1..MaxPodVersion : POD_PACKAGE_RESUBMITTED(t, v)
  \/ POD_REVIEW_DEADLINE_EXPIRED(t)
  \/ \E l \in ActionIdLengths : POD_CORRECTION_DEADLINE_EXPIRED(t, l)
  \/ POD_ADVISORY_ANCHORED(t)

SettlementEvent(t) ==
  \/ \E r \in Resolutions, x, y \in Amounts, d \in DisputeIds \ {None} :
       REFEREE_RESOLUTION_RECORDED(t, r, x, y, d)
  \/ \E x \in Amounts : ESCROW_RELEASE_CONFIRMED(t, x)
  \/ \E x, y \in Amounts : ESCROW_PARTIAL_RELEASE_CONFIRMED(t, x, y)
  \/ \E y \in Amounts : ESCROW_REFUND_CONFIRMED(t, y)
  \/ TENDER_COMPLETION_CONFIRMED(t)

reduceLifecycle ==
  \E t \in Times :
    AuctionEvent(t) \/ TransportEvent(t) \/ PodEvent(t) \/ SettlementEvent(t)

-----------------------------------------------------------------------------
(* The validator: what every store demands of a record it reads or writes *)

AfterSettlement == {"PAYMENT_RELEASED", "PARTIAL_RELEASE", "REFUNDED",
                    "TENDER_COMPLETED"}
REQUIRES_DISPUTE == {"POD_DISPUTED", "REFEREE_DECISION", "PARTIAL_RELEASE"}
REQUIRES_CORRECTION_DEADLINE == {"POD_CORRECTION_REQUESTED", "POD_RESUBMITTED"}
REQUIRES_REVIEW_WINDOW ==
  {"POD_UNDER_REVIEW", "POD_CORRECTION_REQUESTED", "POD_RESUBMITTED",
   "POD_ACCEPTED", "POD_DEEMED_ACCEPTED", "POD_DISPUTED"}
REQUIRES_POD ==
  REQUIRES_REVIEW_WINDOW
    \cup {"POD_SUBMITTED", "REFEREE_DECISION", "PARTIAL_RELEASE"}
REQUIRES_LOCK ==
  REQUIRES_POD
    \cup {"WINNING_AMOUNT_LOCKED", "ROUTE_RESERVED", "IN_TRANSIT",
          "DELIVERY_REPORTED"}
REQUIRES_WINNER == REQUIRES_LOCK \cup {"WINNER_SELECTED"}
POST_AUCTION_CLOSE ==
  REQUIRES_WINNER \cup AfterSettlement \cup {"AUCTION_CLOSED", "NO_QUALIFIED_BID"}
BIDDING_REACHED == POST_AUCTION_CLOSE \cup {"BIDDING"}
POST_ACTIVATION == BIDDING_REACHED \cup {"TENDER_OPENED"}
POST_FUNDING == POST_ACTIVATION \cup {"ESCROW_FUNDED"}

ValidFunding(r) ==
  IF r.state \in POST_FUNDING
  THEN r.fundingTxId /\ r.fundedAmount = Budget
  ELSE ~r.fundingTxId /\ r.fundedAmount = Null

(* A settlement pays for one action, and an action or a bid is paid once. *)
validateAccessPayments(payments) ==
  \A p, q \in payments : p[1] = q[1] \/ p[2] = q[2] => p = q

(* A bid is accepted once. *)
validateBidRegistry(bids) == \A b, c \in bids : b[2] = c[2] => b = c

(* One activation payment, the receipt's; one payment for each accepted bid. *)
ValidAccess(r) ==
  /\ IF r.state \in POST_ACTIVATION
     THEN r.accessReceipt # None
     ELSE r.accessReceipt = None /\ r.accessPayments = {}
  /\ validateAccessPayments(r.accessPayments)
  /\ validateBidRegistry(r.bidRegistry)
  /\ \A p \in r.accessPayments : p[2] = Activation => p[1] = r.accessReceipt
  /\ r.accessReceipt # None => <<r.accessReceipt, Activation>> \in r.accessPayments
  /\ r.bidRegistry = {p \in r.accessPayments : p[2] # Activation}
  /\ r.bidRegistry # {} => r.state \in BIDDING_REACHED

ValidAward(r) ==
  /\ r.state \in POST_AUCTION_CLOSE => r.closureProof
  /\ r.state \in REQUIRES_WINNER =>
       r.winner /\ r.winningAmount # Null /\ r.decisionManifest
  /\ r.winningAmount # Null => r.winningAmount <= Budget

ValidLock(r) ==
  /\ r.state \in REQUIRES_LOCK =>
       r.lockedAmount # Null /\ r.excessRefund # Null /\ r.allocateTxId
  /\ r.state \notin REQUIRES_LOCK \cup AfterSettlement => r.lockedAmount = Null
  /\ r.lockedAmount # Null =>
       /\ r.lockedAmount <= Budget
       /\ r.winningAmount # Null => r.lockedAmount = r.winningAmount
       /\ r.excessRefund # Null => r.lockedAmount + r.excessRefund = Budget

ValidPod(r) ==
  /\ r.state \in REQUIRES_POD => r.podVersion # 0
  /\ r.state \in REQUIRES_REVIEW_WINDOW =>
       /\ r.reviewStartedAt # Null /\ r.reviewDeadlineAt # Null
       /\ r.reviewStartedAt < r.reviewDeadlineAt
  /\ r.state \in REQUIRES_CORRECTION_DEADLINE => r.correctionDeadlineAt # Null
  /\ r.state \in REQUIRES_DISPUTE => r.disputeId # None

(* A disputeId of more than 128 characters is not a valid field. *)
ValidDisputeId(r) == r.disputeId # "timeout-long"

ValidReferee(r) ==
  /\ r.state \notin AfterSettlement \cup {"REFEREE_DECISION"} =>
       /\ r.refereeResolution = None
       /\ r.releaseAmount = Null /\ r.refundAmount = Null
  /\ r.state \in {"REFEREE_DECISION", "PARTIAL_RELEASE"} =>
       r.refereeResolution # None
  /\ r.refereeResolution # None =>
       /\ r.releaseAmount # Null /\ r.refundAmount # Null /\ r.lockedAmount # Null
       /\ r.releaseAmount + r.refundAmount = r.lockedAmount
       /\ r.refereeResolution = "RELEASE_FULL" => r.refundAmount = 0
       /\ r.refereeResolution = "REFUND_FULL" => r.releaseAmount = 0
       /\ r.refereeResolution = "PARTIAL" =>
            ~(r.releaseAmount = 0 /\ r.refundAmount = 0)
       /\ r.disputeId # None

ValidSettlement(r) ==
  /\ r.state \notin AfterSettlement => ~r.releaseTxId /\ ~r.refundTxId
  /\ r.state \in {"PAYMENT_RELEASED", "PARTIAL_RELEASE"} =>
       r.releaseTxId /\ r.releaseAmount # Null /\ r.lockedAmount # Null
  /\ r.state = "PAYMENT_RELEASED" =>
       /\ r.releaseAmount = r.lockedAmount /\ r.refundAmount = 0
       /\ r.refereeResolution \in {None, "RELEASE_FULL"}
  /\ r.state = "PARTIAL_RELEASE" =>
       /\ r.refundTxId /\ r.refereeResolution = "PARTIAL"
       /\ r.releaseAmount + r.refundAmount = r.lockedAmount
  /\ r.state = "REFUNDED" /\ r.refereeResolution = None =>
       r.refundTxId /\ r.lockedAmount = Null /\ r.refundAmount = Budget
  /\ r.state = "REFUNDED" /\ r.refereeResolution # None =>
       /\ r.refundTxId /\ r.refereeResolution = "REFUND_FULL"
       /\ r.refundAmount = r.lockedAmount /\ r.releaseAmount = 0
  /\ r.state = "TENDER_COMPLETED" => r.releaseTxId \/ r.refundTxId

assertValidLifecycleRecord(r) ==
  /\ ValidFunding(r) /\ ValidAccess(r) /\ ValidAward(r) /\ ValidLock(r)
  /\ ValidPod(r) /\ ValidDisputeId(r) /\ ValidReferee(r) /\ ValidSettlement(r)

(***************************************************************************)
(* rec is what the reducer made of the last event.  The stores refuse it   *)
(* before they write it if it is not valid, and no event is applied to a   *)
(* record they refused.                                                    *)
(***************************************************************************)
Next == assertValidLifecycleRecord(rec) /\ reduceLifecycle

Spec == Init /\ [][Next]_rec

-----------------------------------------------------------------------------
(* Properties *)

(* Every field of the record keeps its type; amounts stay within the       *)
(* budget.                                                                 *)
TypeOK == rec \in LifecycleRecord

(* Every record the reducer produces is one the stores accept, but for one *)
(* case: a correction timeout under an action id of more than 112          *)
(* characters makes a disputeId that is too long.  Nothing else is wrong   *)
(* with that record, so the timeout is accepted under a shorter action id; *)
(* no other event the reducer takes is lost to the validator.              *)
RecordPersistable ==
  \/ assertValidLifecycleRecord(rec)
  \/ /\ rec.disputeId = "timeout-long" /\ rec.state = "POD_DISPUTED"
     /\ assertValidLifecycleRecord([rec EXCEPT !.disputeId = "timeout-short"])

(* In a settled tender the excess returned at allocation, the release and  *)
(* the refund add up to the budget the shipper funded.                     *)
MoneyAccounted ==
  rec.state \in AfterSettlement =>
    OrZero(rec.excessRefund) + OrZero(rec.releaseAmount)
      + OrZero(rec.refundAmount) = Budget

(* The carrier is paid without a referee only if the shipper's last signed *)
(* answer, in the review of the current POD version, was ACCEPT, or if the *)
(* shipper stayed silent until that review's deadline.                     *)
ReleaseJustified ==
  rec.releaseTxId /\ rec.refereeResolution = None =>
    \/ rec.shipperActionTaken /\ rec.lastShipperAuth = "ACCEPT"
    \/ ~rec.shipperActionTaken /\ rec.reviewDeadlineAt <= rec.updatedAt

(* Every review gives the shipper its whole window: 48 hours for the first *)
(* POD version, 24 hours for a resubmitted one.                            *)
ReviewWindowWhole ==
  rec.state \in {"POD_UNDER_REVIEW", "POD_ACCEPTED", "POD_DEEMED_ACCEPTED"} =>
    rec.reviewDeadlineAt - rec.reviewStartedAt
      = (IF rec.podVersion = 1 THEN REVIEW_WINDOW ELSE POST_RESUBMIT_REVIEW_WINDOW)

(* A recorded referee decision is binding: no later event changes it or    *)
(* the amounts it awards, and the settlement pays exactly those.           *)
DecisionKept ==
  rec.refereeResolution # None =>
    /\ rec'.refereeResolution = rec.refereeResolution
    /\ rec'.releaseAmount = rec.releaseAmount
    /\ rec'.refundAmount = rec.refundAmount
RefereeDecisionBinding == [][DecisionKept]_rec
=============================================================================
