------------------------ MODULE TenderLifecycleProofs ------------------------
(***************************************************************************)
(* Proofs about the lifecycle reducer for any budget, any auction end, any *)
(* sets of bids and payments and any bounds.  The invariant of the         *)
(* induction is the validator's predicate but for the length of disputeId, *)
(* the money and review properties, and the facts Support adds about       *)
(* states that no validator rule constrains.                               *)
(***************************************************************************)
EXTENDS LifecycleMoney, TLAPS

BeforeWinner == {"DRAFT", "ESCROW_FUNDED", "TENDER_OPENED", "BIDDING",
                 "AUCTION_CLOSED"}
BeforePod == {"WINNER_SELECTED", "WINNING_AMOUNT_LOCKED", "ROUTE_RESERVED",
              "IN_TRANSIT", "DELIVERY_REPORTED"}

(* Facts the validator does not ask for and the induction needs. *)
Support ==
  /\ (rec.lockedAmount = Null) <=> (rec.excessRefund = Null)
  /\ rec.lockedAmount # Null => rec.lockedAmount > 0
  /\ rec.winningAmount # Null => rec.winningAmount > 0
  /\ rec.state \in BeforeWinner => rec.winningAmount = Null
  /\ rec.state \in BeforeWinner \ {"AUCTION_CLOSED"} => ~rec.closureProof
  /\ rec.state \in BeforeWinner \cup BeforePod \cup {"POD_SUBMITTED", "POD_UNDER_REVIEW"} =>
       ~rec.shipperActionTaken
  /\ rec.state = "POD_SUBMITTED" => rec.podVersion = 1
  /\ rec.state = "POD_RESUBMITTED" => rec.podVersion > 1
  /\ rec.state = "POD_ACCEPTED" =>
       rec.shipperActionTaken /\ rec.lastShipperAuth = "ACCEPT"
  /\ rec.state = "POD_DEEMED_ACCEPTED" =>
       ~rec.shipperActionTaken /\ rec.reviewDeadlineAt <= rec.updatedAt

(* Once a settlement transaction is recorded nothing about the money       *)
(* changes any more.                                                       *)
SettlementKept ==
  rec.releaseTxId \/ rec.refundTxId =>
    /\ rec'.releaseTxId = rec.releaseTxId /\ rec'.refundTxId = rec.refundTxId
    /\ rec'.releaseAmount = rec.releaseAmount
    /\ rec'.refundAmount = rec.refundAmount
    /\ rec'.lockedAmount = rec.lockedAmount
    /\ rec'.excessRefund = rec.excessRefund
SettlementFinal == [][SettlementKept]_rec

(* No bid enters or leaves the registry once the auction is closed over    *)
(* the authoritative bid set.                                              *)
BidsKept ==
  rec.closureProof =>
    /\ rec'.bidRegistry = rec.bidRegistry
    /\ rec'.accessPayments = rec.accessPayments
BidSetFrozen == [][BidsKept]_rec

(* What a step leaves alone, of a decided, a settled and a closed tender. *)
Kept == DecisionKept /\ SettlementKept /\ BidsKept

(* What the validator asks for, but for the length of disputeId. *)
ValidButForLength(r) ==
  /\ ValidFunding(r) /\ ValidAccess(r) /\ ValidAward(r) /\ ValidLock(r)
  /\ ValidPod(r) /\ ValidReferee(r) /\ ValidSettlement(r)

(* The inductive invariant. *)
IInv == TypeOK /\ ValidButForLength(rec) /\ MoneyAccounted /\ ReleaseJustified
        /\ ReviewWindowWhole /\ Support

-----------------------------------------------------------------------------
(* The values the events write have the types of the fields they go to. *)
LEMMA FieldTypes ==
  /\ Amounts \subseteq OptionalAmount /\ 0 \in Amounts /\ Null \in OptionalAmount
  /\ Times \subseteq OptionalTime
  /\ Null \in OptionalDeadline
  /\ \A t \in Times : t + 1 \in OptionalDeadline /\ t + 2 \in OptionalDeadline
  /\ 1..MaxPodVersion \subseteq PodVersions
  /\ Resolutions \subseteq OptionalResolution
  /\ Txs \subseteq OptionalTx
  BY LifecycleConstants
  DEF Amounts, OptionalAmount, Times, OptionalTime, OptionalDeadline, LastDeadline,
      REVIEW_WINDOW, PodVersions, OptionalResolution, OptionalTx, Null

(* The constant values among them. *)
LEMMA FieldValues ==
  /\ {"ACCEPT", "REQUEST_CORRECTION", "REJECT_DISPUTE"} \subseteq ShipperAuths
  /\ {"named", "timeout-short", "timeout-long"} \subseteq DisputeIds
  /\ \A s \in V2_LIFECYCLE_STATES : LEGAL(s) \subseteq V2_LIFECYCLE_STATES
  BY DEF ShipperAuths, DisputeIds, V2_LIFECYCLE_STATES, LEGAL

USE LifecycleConstants
  DEF withTransition, IInv, TypeOK, LifecycleRecord, ValidButForLength,
      AfterSettlement, REQUIRES_DISPUTE,
      REQUIRES_CORRECTION_DEADLINE, REQUIRES_REVIEW_WINDOW, REQUIRES_POD,
      REQUIRES_LOCK, REQUIRES_WINNER, POST_AUCTION_CLOSE, BIDDING_REACHED,
      POST_ACTIVATION, POST_FUNDING, BeforeWinner, BeforePod

(* Funding fills the funding fields, for the whole budget. *)
LEMMA ESCROW_FUNDING_CONFIRMED_Step ==
  ASSUME IInv, NEW t \in Times, NEW a \in Amounts,
         ESCROW_FUNDING_CONFIRMED(t, a)
  PROVE  IInv' /\ Kept
<1> USE DEF ESCROW_FUNDING_CONFIRMED
<1>1. TypeOK'
  BY ZenonT(60), FieldTypes, FieldValues
<1>2. ValidFunding(rec)'
  BY DEF ValidFunding
<1>3. ValidAccess(rec)'
  BY DEF ValidAccess
<1>4. ValidAward(rec)' /\ ValidLock(rec)'
  BY DEF ValidAward, ValidLock
<1>5. ValidPod(rec)'
  BY DEF ValidPod
<1>6. ValidReferee(rec)' /\ ValidSettlement(rec)'
  BY DEF ValidReferee, ValidSettlement
<1>7. MoneyAccounted'
  BY DEF MoneyAccounted
<1>8. ReleaseJustified' /\ ReviewWindowWhole'
  BY DEF ReleaseJustified, ReviewWindowWhole, ValidSettlement
<1>9. Support'
  BY DEF Support
<1>10. Kept
  BY DEF Kept, DecisionKept, SettlementKept, BidsKept
<1> QED
  BY <1>1, <1>2, <1>3, <1>4, <1>5, <1>6, <1>7, <1>8, <1>9, <1>10

(* Activation records the first payment, the receipt's. *)
LEMMA TENDER_ACTIVATION_PAID_Step ==
  ASSUME IInv, NEW t \in Times, NEW tx \in Txs,
         TENDER_ACTIVATION_PAID(t, tx)
  PROVE  IInv' /\ Kept
<1> USE DEF TENDER_ACTIVATION_PAID, assertUnusedAccessSettlement
<1>1. TypeOK'
  <2>1. /\ tx \in OptionalTx
        /\ rec.accessPayments \cup {<<tx, Activation>>} \in AccessPayments
    BY DEF OptionalTx, AccessPayments
  <2>2. rec' = [rec EXCEPT !.accessReceipt = tx,
                           !.accessPayments = rec.accessPayments \cup {<<tx, Activation>>},
                           !.state = "TENDER_OPENED", !.updatedAt = t]
    OBVIOUS
  <2>3. rec \in LifecycleRecord /\ t \in Times /\ "TENDER_OPENED" \in V2_LIFECYCLE_STATES
    BY DEF V2_LIFECYCLE_STATES
  <2> QED BY ONLY <2>1, <2>2, <2>3
<1>2. ValidFunding(rec)'
  BY DEF ValidFunding
<1>3. ValidAccess(rec)'
  <2>1. rec.accessPayments = {} /\ rec.bidRegistry = {}
    BY DEF ValidAccess
  <2>2. /\ rec'.accessPayments = {<<tx, Activation>>} /\ rec'.bidRegistry = {}
        /\ rec'.accessReceipt = tx /\ rec'.state = "TENDER_OPENED"
    BY <2>1
  <2>3. tx # None
    BY DEF None
  <2> QED BY <2>2, <2>3 DEF ValidAccess, validateAccessPayments, validateBidRegistry
<1>4. ValidAward(rec)' /\ ValidLock(rec)'
  BY DEF ValidAward, ValidLock
<1>5. ValidPod(rec)'
  BY DEF ValidPod
<1>6. ValidReferee(rec)' /\ ValidSettlement(rec)'
  BY DEF ValidReferee, ValidSettlement
<1>7. MoneyAccounted'
  BY DEF MoneyAccounted
<1>8. ReleaseJustified' /\ ReviewWindowWhole'
  BY DEF ReleaseJustified, ReviewWindowWhole, ValidSettlement
<1>9. Support'
  BY DEF Support
<1>10. Kept
  BY DEF Kept, DecisionKept, SettlementKept, BidsKept, Support
<1> QED
  BY <1>1, <1>2, <1>3, <1>4, <1>5, <1>6, <1>7, <1>8, <1>9, <1>10

(* A bid adds one payment and one registry entry, of a transaction not used before. *)
LEMMA BID_SUBMISSION_PAID_Step ==
  ASSUME IInv, NEW t \in Times, NEW b \in Bids, NEW tx \in Txs,
         BID_SUBMISSION_PAID(t, b, tx)
  PROVE  IInv' /\ Kept
<1> USE DEF BID_SUBMISSION_PAID, assertUnusedAccessSettlement
<1>1. TypeOK'
  <2>1. /\ rec.bidRegistry \cup {<<tx, b>>} \in BidRegistries
        /\ rec.accessPayments \cup {<<tx, b>>} \in AccessPayments
    BY DEF BidRegistries, AccessPayments
  <2>2. rec' = [rec EXCEPT !.bidRegistry = rec.bidRegistry \cup {<<tx, b>>},
                           !.accessPayments = rec.accessPayments \cup {<<tx, b>>},
                           !.state = "BIDDING", !.updatedAt = t]
    OBVIOUS
  <2>3. rec \in LifecycleRecord /\ t \in Times /\ "BIDDING" \in V2_LIFECYCLE_STATES
    BY DEF V2_LIFECYCLE_STATES
  <2> QED BY ONLY <2>1, <2>2, <2>3
<1>2. ValidFunding(rec)'
  BY DEF ValidFunding
<1>3. ValidAccess(rec)'
  BY DEF ValidAccess, validateAccessPayments, validateBidRegistry
<1>4. ValidAward(rec)' /\ ValidLock(rec)'
  BY DEF ValidAward, ValidLock
<1>5. ValidPod(rec)'
  BY DEF ValidPod
<1>6. ValidReferee(rec)' /\ ValidSettlement(rec)'
  BY DEF ValidReferee, ValidSettlement
<1>7. MoneyAccounted'
  BY DEF MoneyAccounted
<1>8. ReleaseJustified' /\ ReviewWindowWhole'
  BY DEF ReleaseJustified, ReviewWindowWhole, ValidSettlement
<1>9. Support'
  BY DEF Support
<1>10. Kept
  BY DEF Kept, DecisionKept, SettlementKept, BidsKept, Support
<1> QED
  BY <1>1, <1>2, <1>3, <1>4, <1>5, <1>6, <1>7, <1>8, <1>9, <1>10

(* Bidding without a bid only moves the state. *)
LEMMA BIDDING_STARTED_Step ==
  ASSUME IInv, NEW t \in Times,
         BIDDING_STARTED(t)
  PROVE  IInv' /\ Kept
<1> USE DEF BIDDING_STARTED
<1>1. TypeOK'
  BY FieldTypes, FieldValues
<1>2. ValidFunding(rec)'
  BY DEF ValidFunding
<1>3. ValidAccess(rec)'
  BY DEF ValidAccess
<1>4. ValidAward(rec)' /\ ValidLock(rec)'
  BY DEF ValidAward, ValidLock
<1>5. ValidPod(rec)'
  BY DEF ValidPod
<1>6. ValidReferee(rec)' /\ ValidSettlement(rec)'
  BY DEF ValidReferee, ValidSettlement
<1>7. MoneyAccounted'
  BY DEF MoneyAccounted
<1>8. ReleaseJustified' /\ ReviewWindowWhole'
  BY DEF ReleaseJustified, ReviewWindowWhole, ValidSettlement
<1>9. Support'
  BY DEF Support
<1>10. Kept
  BY DEF Kept, DecisionKept, SettlementKept, BidsKept
<1> QED
  BY <1>1, <1>2, <1>3, <1>4, <1>5, <1>6, <1>7, <1>8, <1>9, <1>10

(* Closing records the closure proof. *)
LEMMA AUCTION_CLOSE_CONFIRMED_Step ==
  ASSUME IInv, NEW t \in Times,
         AUCTION_CLOSE_CONFIRMED(t)
  PROVE  IInv' /\ Kept
<1> USE DEF AUCTION_CLOSE_CONFIRMED
<1>1. TypeOK'
  BY FieldTypes, FieldValues
<1>2. ValidFunding(rec)'
  BY DEF ValidFunding
<1>3. ValidAccess(rec)'
  BY DEF ValidAccess
<1>4. ValidAward(rec)' /\ ValidLock(rec)'
  BY DEF ValidAward, ValidLock
<1>5. ValidPod(rec)'
  BY DEF ValidPod
<1>6. ValidReferee(rec)' /\ ValidSettlement(rec)'
  BY DEF ValidReferee, ValidSettlement
<1>7. MoneyAccounted'
  BY DEF MoneyAccounted
<1>8. ReleaseJustified' /\ ReviewWindowWhole'
  BY DEF ReleaseJustified, ReviewWindowWhole, ValidSettlement
<1>9. Support'
  BY DEF Support
<1>10. Kept
  BY DEF Kept, DecisionKept, SettlementKept, BidsKept
<1> QED
  BY <1>1, <1>2, <1>3, <1>4, <1>5, <1>6, <1>7, <1>8, <1>9, <1>10

(* No qualified bid leaves the winning amount null. *)
LEMMA NO_QUALIFIED_BID_CONFIRMED_Step ==
  ASSUME IInv, NEW t \in Times,
         NO_QUALIFIED_BID_CONFIRMED(t)
  PROVE  IInv' /\ Kept
<1> USE DEF NO_QUALIFIED_BID_CONFIRMED
<1>1. TypeOK'
  BY FieldTypes, FieldValues
<1>2. ValidFunding(rec)'
  BY DEF ValidFunding
<1>3. ValidAccess(rec)'
  BY DEF ValidAccess
<1>4. ValidAward(rec)' /\ ValidLock(rec)'
  BY DEF ValidAward, ValidLock
<1>5. ValidPod(rec)'
  BY DEF ValidPod
<1>6. ValidReferee(rec)' /\ ValidSettlement(rec)'
  BY DEF ValidReferee, ValidSettlement
<1>7. MoneyAccounted'
  BY DEF MoneyAccounted
<1>8. ReleaseJustified' /\ ReviewWindowWhole'
  BY DEF ReleaseJustified, ReviewWindowWhole, ValidSettlement
<1>9. Support'
  BY DEF Support
<1>10. Kept
  BY DEF Kept, DecisionKept, SettlementKept, BidsKept
<1> QED
  BY <1>1, <1>2, <1>3, <1>4, <1>5, <1>6, <1>7, <1>8, <1>9, <1>10

(* The winner's amount is positive and within the budget. *)
LEMMA WINNER_SELECTION_CONFIRMED_Step ==
  ASSUME IInv, NEW t \in Times, NEW a \in 0..(Budget + 1),
         WINNER_SELECTION_CONFIRMED(t, a)
  PROVE  IInv' /\ Kept
<1> USE DEF WINNER_SELECTION_CONFIRMED
<1>1. TypeOK'
  <2>1. a \in OptionalAmount
    BY FieldTypes DEF Amounts
  <2> QED BY ZenonT(60), <2>1 DEF V2_LIFECYCLE_STATES
<1>2. ValidFunding(rec)'
  BY DEF ValidFunding
<1>3. ValidAccess(rec)'
  BY DEF ValidAccess
<1>4. ValidAward(rec)' /\ ValidLock(rec)'
  BY DEF ValidAward, ValidLock, Null
<1>5. ValidPod(rec)'
  BY DEF ValidPod
<1>6. ValidReferee(rec)' /\ ValidSettlement(rec)'
  BY DEF ValidReferee, ValidSettlement
<1>7. MoneyAccounted'
  BY DEF MoneyAccounted
<1>8. ReleaseJustified' /\ ReviewWindowWhole'
  BY DEF ReleaseJustified, ReviewWindowWhole, ValidSettlement
<1>9. Support'
  BY DEF Support
<1>10. Kept
  BY DEF Kept, DecisionKept, SettlementKept, BidsKept
<1> QED
  BY <1>1, <1>2, <1>3, <1>4, <1>5, <1>6, <1>7, <1>8, <1>9, <1>10

(* Allocation splits the budget into the locked amount and the excess. *)
LEMMA WINNING_AMOUNT_ALLOCATION_CONFIRMED_Step ==
  ASSUME IInv, NEW t \in Times, NEW a \in Amounts, NEW e \in Amounts, NEW x \in BOOLEAN,
         WINNING_AMOUNT_ALLOCATION_CONFIRMED(t, a, e, x)
  PROVE  IInv' /\ Kept
<1> USE DEF WINNING_AMOUNT_ALLOCATION_CONFIRMED
<1>1. TypeOK'
  <2>1. a \in OptionalAmount /\ e \in OptionalAmount
    BY FieldTypes
  <2>2. rec' = [rec EXCEPT !.lockedAmount = a, !.excessRefund = e,
                           !.allocateTxId = TRUE, !.refundExcessTxId = x,
                           !.winningAmount = a,
                           !.state = "WINNING_AMOUNT_LOCKED", !.updatedAt = t]
    OBVIOUS
  <2>3. rec \in LifecycleRecord /\ t \in Times /\ "WINNING_AMOUNT_LOCKED" \in V2_LIFECYCLE_STATES /\ x \in BOOLEAN
    BY DEF V2_LIFECYCLE_STATES
  <2> QED BY ONLY ZenonT(60), <2>1, <2>2, <2>3
<1>2. ValidFunding(rec)'
  BY DEF ValidFunding
<1>3. ValidAccess(rec)'
  BY DEF ValidAccess
<1>4. ValidAward(rec)' /\ ValidLock(rec)'
  BY DEF ValidAward, ValidLock, Null, Amounts
<1>5. ValidPod(rec)'
  BY DEF ValidPod
<1>6. ValidReferee(rec)' /\ ValidSettlement(rec)'
  BY DEF ValidReferee, ValidSettlement
<1>7. MoneyAccounted'
  BY DEF MoneyAccounted
<1>8. ReleaseJustified' /\ ReviewWindowWhole'
  BY DEF ReleaseJustified, ReviewWindowWhole, ValidSettlement
<1>9. Support'
  BY DEF Support, Null, Amounts
<1>10. Kept
  BY DEF Kept, DecisionKept, SettlementKept, BidsKept, ValidSettlement
<1> QED
  BY <1>1, <1>2, <1>3, <1>4, <1>5, <1>6, <1>7, <1>8, <1>9, <1>10

(* Reservation touches no amount. *)
LEMMA ROUTE_RESERVATION_PUBLISHED_Step ==
  ASSUME IInv, NEW t \in Times,
         ROUTE_RESERVATION_PUBLISHED(t)
  PROVE  IInv' /\ Kept
<1> USE DEF ROUTE_RESERVATION_PUBLISHED
<1>1. TypeOK'
  BY FieldTypes, FieldValues
<1>2. ValidFunding(rec)'
  BY DEF ValidFunding
<1>3. ValidAccess(rec)'
  BY DEF ValidAccess
<1>4. ValidAward(rec)' /\ ValidLock(rec)'
  BY DEF ValidAward, ValidLock
<1>5. ValidPod(rec)'
  BY DEF ValidPod
<1>6. ValidReferee(rec)' /\ ValidSettlement(rec)'
  BY DEF ValidReferee, ValidSettlement
<1>7. MoneyAccounted'
  BY DEF MoneyAccounted
<1>8. ReleaseJustified' /\ ReviewWindowWhole'
  BY DEF ReleaseJustified, ReviewWindowWhole, ValidSettlement
<1>9. Support'
  BY DEF Support
<1>10. Kept
  BY DEF Kept, DecisionKept, SettlementKept, BidsKept
<1> QED
  BY <1>1, <1>2, <1>3, <1>4, <1>5, <1>6, <1>7, <1>8, <1>9, <1>10

(* Transit only moves the state. *)
LEMMA TRANSIT_STARTED_Step ==
  ASSUME IInv, NEW t \in Times,
         TRANSIT_STARTED(t)
  PROVE  IInv' /\ Kept
<1> USE DEF TRANSIT_STARTED
<1>1. TypeOK'
  BY FieldTypes, FieldValues
<1>2. ValidFunding(rec)'
  BY DEF ValidFunding
<1>3. ValidAccess(rec)'
  BY DEF ValidAccess
<1>4. ValidAward(rec)' /\ ValidLock(rec)'
  BY DEF ValidAward, ValidLock
<1>5. ValidPod(rec)'
  BY DEF ValidPod
<1>6. ValidReferee(rec)' /\ ValidSettlement(rec)'
  BY DEF ValidReferee, ValidSettlement
<1>7. MoneyAccounted'
  BY DEF MoneyAccounted
<1>8. ReleaseJustified' /\ ReviewWindowWhole'
  BY DEF ReleaseJustified, ReviewWindowWhole, ValidSettlement
<1>9. Support'
  BY DEF Support
<1>10. Kept
  BY DEF Kept, DecisionKept, SettlementKept, BidsKept
<1> QED
  BY <1>1, <1>2, <1>3, <1>4, <1>5, <1>6, <1>7, <1>8, <1>9, <1>10

(* A delivery report only moves the state. *)
LEMMA DELIVERY_REPORTED_Step ==
  ASSUME IInv, NEW t \in Times,
         DELIVERY_REPORTED(t)
  PROVE  IInv' /\ Kept
<1> USE DEF DELIVERY_REPORTED
<1>1. TypeOK'
  BY FieldTypes, FieldValues
<1>2. ValidFunding(rec)'
  BY DEF ValidFunding
<1>3. ValidAccess(rec)'
  BY DEF ValidAccess
<1>4. ValidAward(rec)' /\ ValidLock(rec)'
  BY DEF ValidAward, ValidLock
<1>5. ValidPod(rec)'
  BY DEF ValidPod
<1>6. ValidReferee(rec)' /\ ValidSettlement(rec)'
  BY DEF ValidReferee, ValidSettlement
<1>7. MoneyAccounted'
  BY DEF MoneyAccounted
<1>8. ReleaseJustified' /\ ReviewWindowWhole'
  BY DEF ReleaseJustified, ReviewWindowWhole, ValidSettlement
<1>9. Support'
  BY DEF Support
<1>10. Kept
  BY DEF Kept, DecisionKept, SettlementKept, BidsKept
<1> QED
  BY <1>1, <1>2, <1>3, <1>4, <1>5, <1>6, <1>7, <1>8, <1>9, <1>10

(* The first POD has version 1. *)
LEMMA POD_PACKAGE_SUBMITTED_Step ==
  ASSUME IInv, NEW t \in Times, NEW v \in 1..MaxPodVersion,
         POD_PACKAGE_SUBMITTED(t, v)
  PROVE  IInv' /\ Kept
<1> USE DEF POD_PACKAGE_SUBMITTED
<1>1. TypeOK'
  BY ZenonT(60), FieldTypes, FieldValues
<1>2. ValidFunding(rec)'
  BY DEF ValidFunding
<1>3. ValidAccess(rec)'
  BY DEF ValidAccess
<1>4. ValidAward(rec)' /\ ValidLock(rec)'
  BY DEF ValidAward, ValidLock
<1>5. ValidPod(rec)'
  BY DEF ValidPod
<1>6. ValidReferee(rec)' /\ ValidSettlement(rec)'
  BY DEF ValidReferee, ValidSettlement
<1>7. MoneyAccounted'
  BY DEF MoneyAccounted
<1>8. ReleaseJustified' /\ ReviewWindowWhole'
  BY DEF ReleaseJustified, ReviewWindowWhole, ValidSettlement
<1>9. Support'
  BY DEF Support
<1>10. Kept
  BY DEF Kept, DecisionKept, SettlementKept, BidsKept
<1> QED
  BY <1>1, <1>2, <1>3, <1>4, <1>5, <1>6, <1>7, <1>8, <1>9, <1>10

(* A review starts with its window and without a shipper action. *)
LEMMA POD_REVIEW_STARTED_Step ==
  ASSUME IInv, NEW t \in Times,
         POD_REVIEW_STARTED(t)
  PROVE  IInv' /\ Kept
<1> USE DEF POD_REVIEW_STARTED
<1>1. TypeOK'
  <2> DEFINE deadline == t + (IF rec.state = "POD_SUBMITTED"
                              THEN REVIEW_WINDOW ELSE POST_RESUBMIT_REVIEW_WINDOW)
  <2>1. deadline \in OptionalDeadline /\ Null \in OptionalDeadline
        /\ t \in OptionalTime
    BY FieldTypes DEF REVIEW_WINDOW, POST_RESUBMIT_REVIEW_WINDOW
  <2>2. rec' = [rec EXCEPT !.reviewStartedAt = t, !.reviewDeadlineAt = deadline,
                           !.shipperActionTaken = FALSE,
                           !.correctionDeadlineAt = Null,
                           !.state = "POD_UNDER_REVIEW", !.updatedAt = t]
    OBVIOUS
  <2> HIDE DEF deadline
  <2>3. rec \in LifecycleRecord /\ t \in Times /\ "POD_UNDER_REVIEW" \in V2_LIFECYCLE_STATES
    BY DEF V2_LIFECYCLE_STATES
  <2> QED BY ONLY ZenonT(60), <2>1, <2>2, <2>3
<1>2. ValidFunding(rec)'
  BY DEF ValidFunding
<1>3. ValidAccess(rec)'
  BY DEF ValidAccess
<1>4. ValidAward(rec)' /\ ValidLock(rec)'
  BY DEF ValidAward, ValidLock
<1>5. ValidPod(rec)'
  BY DEF ValidPod, Null, Times, REVIEW_WINDOW,
       POST_RESUBMIT_REVIEW_WINDOW
<1>6. ValidReferee(rec)' /\ ValidSettlement(rec)'
  BY DEF ValidReferee, ValidSettlement
<1>7. MoneyAccounted'
  BY DEF MoneyAccounted
<1>8. ReleaseJustified' /\ ReviewWindowWhole'
  BY DEF ReleaseJustified, ReviewWindowWhole, ValidSettlement, Support, Times,
       REVIEW_WINDOW, POST_RESUBMIT_REVIEW_WINDOW
<1>9. Support'
  BY DEF Support
<1>10. Kept
  BY DEF Kept, DecisionKept, SettlementKept, BidsKept
<1> QED
  BY <1>1, <1>2, <1>3, <1>4, <1>5, <1>6, <1>7, <1>8, <1>9, <1>10

(* A correction request sets the correction deadline. *)
LEMMA POD_CORRECTION_REQUESTED_Step ==
  ASSUME IInv, NEW t \in Times, NEW d \in 0..LastDeadline,
         POD_CORRECTION_REQUESTED(t, d)
  PROVE  IInv' /\ Kept
<1> USE DEF POD_CORRECTION_REQUESTED, ShipperReview
<1>1. TypeOK'
  <2>1. t + CORRECTION_WINDOW \in OptionalDeadline
    BY FieldTypes DEF CORRECTION_WINDOW
  <2> QED BY ZenonT(60), <2>1 DEF V2_LIFECYCLE_STATES, ShipperAuths
<1>2. ValidFunding(rec)'
  BY DEF ValidFunding
<1>3. ValidAccess(rec)'
  BY DEF ValidAccess
<1>4. ValidAward(rec)' /\ ValidLock(rec)'
  BY DEF ValidAward, ValidLock
<1>5. ValidPod(rec)'
  BY DEF ValidPod, Null, Times, CORRECTION_WINDOW
<1>6. ValidReferee(rec)' /\ ValidSettlement(rec)'
  BY DEF ValidReferee, ValidSettlement
<1>7. MoneyAccounted'
  BY DEF MoneyAccounted
<1>8. ReleaseJustified' /\ ReviewWindowWhole'
  BY DEF ReleaseJustified, ReviewWindowWhole, ValidSettlement
<1>9. Support'
  BY DEF Support
<1>10. Kept
  BY DEF Kept, DecisionKept, SettlementKept, BidsKept
<1> QED
  BY <1>1, <1>2, <1>3, <1>4, <1>5, <1>6, <1>7, <1>8, <1>9, <1>10

(* The shipper's acceptance is recorded as such. *)
LEMMA POD_ACCEPTED_BY_SHIPPER_Step ==
  ASSUME IInv, NEW t \in Times, NEW d \in 0..LastDeadline,
         POD_ACCEPTED_BY_SHIPPER(t, d)
  PROVE  IInv' /\ Kept
<1> USE DEF POD_ACCEPTED_BY_SHIPPER, ShipperReview
<1>1. TypeOK'
  BY FieldTypes, FieldValues
<1>2. ValidFunding(rec)'
  BY DEF ValidFunding
<1>3. ValidAccess(rec)'
  BY DEF ValidAccess
<1>4. ValidAward(rec)' /\ ValidLock(rec)'
  BY DEF ValidAward, ValidLock
<1>5. ValidPod(rec)'
  BY DEF ValidPod
<1>6. ValidReferee(rec)' /\ ValidSettlement(rec)'
  BY DEF ValidReferee, ValidSettlement
<1>7. MoneyAccounted'
  BY DEF MoneyAccounted
<1>8. ReleaseJustified' /\ ReviewWindowWhole'
  BY DEF ReleaseJustified, ReviewWindowWhole
<1>9. Support'
  BY DEF Support
<1>10. Kept
  BY DEF Kept, DecisionKept, SettlementKept, BidsKept
<1> QED
  BY <1>1, <1>2, <1>3, <1>4, <1>5, <1>6, <1>7, <1>8, <1>9, <1>10

(* A rejection names a dispute. *)
LEMMA POD_REJECTED_TO_DISPUTE_Step ==
  ASSUME IInv, NEW t \in Times, NEW d \in 0..LastDeadline,
         POD_REJECTED_TO_DISPUTE(t, d)
  PROVE  IInv' /\ Kept
<1> USE DEF POD_REJECTED_TO_DISPUTE, ShipperReview
<1>1. TypeOK'
  BY FieldTypes, FieldValues
<1>2. ValidFunding(rec)'
  BY DEF ValidFunding
<1>3. ValidAccess(rec)'
  BY DEF ValidAccess
<1>4. ValidAward(rec)' /\ ValidLock(rec)'
  BY DEF ValidAward, ValidLock
<1>5. ValidPod(rec)'
  BY DEF ValidPod, None
<1>6. ValidReferee(rec)' /\ ValidSettlement(rec)'
  BY DEF ValidReferee, ValidSettlement
<1>7. MoneyAccounted'
  BY DEF MoneyAccounted
<1>8. ReleaseJustified' /\ ReviewWindowWhole'
  BY DEF ReleaseJustified, ReviewWindowWhole, ValidSettlement
<1>9. Support'
  BY DEF Support
<1>10. Kept
  BY DEF Kept, DecisionKept, SettlementKept, BidsKept
<1> QED
  BY <1>1, <1>2, <1>3, <1>4, <1>5, <1>6, <1>7, <1>8, <1>9, <1>10

(* A resubmitted POD has a version above 1. *)
LEMMA POD_PACKAGE_RESUBMITTED_Step ==
  ASSUME IInv, NEW t \in Times, NEW v \in 1..MaxPodVersion,
         POD_PACKAGE_RESUBMITTED(t, v)
  PROVE  IInv' /\ Kept
<1> USE DEF POD_PACKAGE_RESUBMITTED
<1>1. TypeOK'
  BY FieldTypes, FieldValues
<1>2. ValidFunding(rec)'
  BY DEF ValidFunding
<1>3. ValidAccess(rec)'
  BY DEF ValidAccess
<1>4. ValidAward(rec)' /\ ValidLock(rec)'
  BY DEF ValidAward, ValidLock
<1>5. ValidPod(rec)'
  BY DEF ValidPod
<1>6. ValidReferee(rec)' /\ ValidSettlement(rec)'
  BY DEF ValidReferee, ValidSettlement
<1>7. MoneyAccounted'
  BY DEF MoneyAccounted
<1>8. ReleaseJustified' /\ ReviewWindowWhole'
  BY DEF ReleaseJustified, ReviewWindowWhole, ValidSettlement
<1>9. Support'
  BY DEF Support, ValidPod, PodVersions
<1>10. Kept
  BY DEF Kept, DecisionKept, SettlementKept, BidsKept
<1> QED
  BY <1>1, <1>2, <1>3, <1>4, <1>5, <1>6, <1>7, <1>8, <1>9, <1>10

(* Deemed acceptance needs the deadline and no shipper action. *)
LEMMA POD_REVIEW_DEADLINE_EXPIRED_Step ==
  ASSUME IInv, NEW t \in Times,
         POD_REVIEW_DEADLINE_EXPIRED(t)
  PROVE  IInv' /\ Kept
<1> USE DEF POD_REVIEW_DEADLINE_EXPIRED
<1>1. TypeOK'
  BY FieldTypes, FieldValues
<1>2. ValidFunding(rec)'
  BY DEF ValidFunding
<1>3. ValidAccess(rec)'
  BY DEF ValidAccess
<1>4. ValidAward(rec)' /\ ValidLock(rec)'
  BY DEF ValidAward, ValidLock
<1>5. ValidPod(rec)'
  BY DEF ValidPod
<1>6. ValidReferee(rec)' /\ ValidSettlement(rec)'
  BY DEF ValidReferee, ValidSettlement
<1>7. MoneyAccounted'
  BY DEF MoneyAccounted
<1>8. ReleaseJustified' /\ ReviewWindowWhole'
  BY DEF ReleaseJustified, ReviewWindowWhole
<1>9. Support'
  BY DEF Support
<1>10. Kept
  BY DEF Kept, DecisionKept, SettlementKept, BidsKept
<1> QED
  BY <1>1, <1>2, <1>3, <1>4, <1>5, <1>6, <1>7, <1>8, <1>9, <1>10

(* The timeout names a dispute after its action id. *)
LEMMA POD_CORRECTION_DEADLINE_EXPIRED_Step ==
  ASSUME IInv, NEW t \in Times, NEW l \in ActionIdLengths,
         POD_CORRECTION_DEADLINE_EXPIRED(t, l)
  PROVE  IInv' /\ Kept
<1> USE DEF POD_CORRECTION_DEADLINE_EXPIRED
<1>1. TypeOK'
  <2>1. TimeoutDisputeId(l) \in DisputeIds
    BY DEF TimeoutDisputeId, DisputeIds
  <2> QED BY ZenonT(60), <2>1 DEF V2_LIFECYCLE_STATES
<1>2. ValidFunding(rec)'
  BY DEF ValidFunding
<1>3. ValidAccess(rec)'
  BY DEF ValidAccess
<1>4. ValidAward(rec)' /\ ValidLock(rec)'
  BY DEF ValidAward, ValidLock
<1>5. ValidPod(rec)'
  BY DEF ValidPod, TimeoutDisputeId, None
<1>6. ValidReferee(rec)' /\ ValidSettlement(rec)'
  BY DEF ValidReferee, ValidSettlement
<1>7. MoneyAccounted'
  BY DEF MoneyAccounted
<1>8. ReleaseJustified' /\ ReviewWindowWhole'
  BY DEF ReleaseJustified, ReviewWindowWhole, ValidSettlement
<1>9. Support'
  BY DEF Support
<1>10. Kept
  BY DEF Kept, DecisionKept, SettlementKept, BidsKept
<1> QED
  BY <1>1, <1>2, <1>3, <1>4, <1>5, <1>6, <1>7, <1>8, <1>9, <1>10

(* The adviser's hash changes nothing else. *)
LEMMA POD_ADVISORY_ANCHORED_Step ==
  ASSUME IInv, NEW t \in Times,
         POD_ADVISORY_ANCHORED(t)
  PROVE  IInv' /\ Kept
<1> USE DEF POD_ADVISORY_ANCHORED
<1>1. TypeOK'
  BY FieldTypes, FieldValues
<1>2. ValidFunding(rec)'
  BY DEF ValidFunding
<1>3. ValidAccess(rec)'
  BY DEF ValidAccess
<1>4. ValidAward(rec)' /\ ValidLock(rec)'
  BY DEF ValidAward, ValidLock
<1>5. ValidPod(rec)'
  BY DEF ValidPod
<1>6. ValidReferee(rec)' /\ ValidSettlement(rec)'
  BY DEF ValidReferee, ValidSettlement
<1>7. MoneyAccounted'
  BY DEF MoneyAccounted
<1>8. ReleaseJustified' /\ ReviewWindowWhole'
  BY DEF ReleaseJustified, ReviewWindowWhole, Null, Times, OptionalDeadline
<1>9. Support'
  BY DEF Support, Null, Times, OptionalDeadline
<1>10. Kept
  BY DEF Kept, DecisionKept, SettlementKept, BidsKept
<1> QED
  BY <1>1, <1>2, <1>3, <1>4, <1>5, <1>6, <1>7, <1>8, <1>9, <1>10

(* The referee splits the locked amount. *)
LEMMA REFEREE_RESOLUTION_RECORDED_Step ==
  ASSUME IInv, NEW t \in Times, NEW r \in Resolutions, NEW x \in Amounts, NEW y \in Amounts,
         NEW d \in DisputeIds \ {None},
         REFEREE_RESOLUTION_RECORDED(t, r, x, y, d)
  PROVE  IInv' /\ Kept
<1> USE DEF REFEREE_RESOLUTION_RECORDED
<1>1. TypeOK'
  BY FieldTypes, FieldValues
<1>2. ValidFunding(rec)'
  BY DEF ValidFunding
<1>3. ValidAccess(rec)'
  BY DEF ValidAccess
<1>4. ValidAward(rec)' /\ ValidLock(rec)'
  BY DEF ValidAward, ValidLock
<1>5. ValidPod(rec)'
  BY DEF ValidPod
<1>6. ValidReferee(rec)' /\ ValidSettlement(rec)'
  BY DEF ValidReferee, ValidSettlement, ValidLock, Null, None, OrZero,
       Amounts, Resolutions
<1>7. MoneyAccounted'
  BY DEF MoneyAccounted
<1>8. ReleaseJustified' /\ ReviewWindowWhole'
  BY DEF ReleaseJustified, ReviewWindowWhole, ValidSettlement
<1>9. Support'
  BY DEF Support
<1>10. Kept
  BY DEF Kept, DecisionKept, SettlementKept, BidsKept, ValidReferee,
       ValidSettlement
<1> QED
  BY <1>1, <1>2, <1>3, <1>4, <1>5, <1>6, <1>7, <1>8, <1>9, <1>10

(* A release pays the locked amount. *)
LEMMA ESCROW_RELEASE_CONFIRMED_Step ==
  ASSUME IInv, NEW t \in Times, NEW x \in Amounts,
         ESCROW_RELEASE_CONFIRMED(t, x)
  PROVE  IInv' /\ Kept
<1> USE DEF ESCROW_RELEASE_CONFIRMED
<1>1. TypeOK'
  <2>1. x \in OptionalAmount /\ 0 \in OptionalAmount
    BY FieldTypes
  <2>2. rec' = [rec EXCEPT !.releaseTxId = TRUE, !.releaseAmount = x, !.refundAmount = 0,
                           !.state = "PAYMENT_RELEASED", !.updatedAt = t]
    OBVIOUS
  <2>3. rec \in LifecycleRecord /\ t \in Times /\ "PAYMENT_RELEASED" \in V2_LIFECYCLE_STATES
    BY DEF V2_LIFECYCLE_STATES
  <2> QED BY ONLY <2>1, <2>2, <2>3
<1>2. ValidFunding(rec)'
  BY DEF ValidFunding
<1>3. ValidAccess(rec)'
  BY DEF ValidAccess
<1>4. ValidAward(rec)' /\ ValidLock(rec)'
  BY DEF ValidAward, ValidLock
<1>5. ValidPod(rec)'
  BY DEF ValidPod
<1>6. ValidReferee(rec)' /\ ValidSettlement(rec)'
  BY DEF ValidReferee, ValidSettlement, ValidLock
<1>7. MoneyAccounted'
  BY DEF MoneyAccounted, ValidLock, OrZero, Amounts, OptionalAmount
<1>8. ReleaseJustified' /\ ReviewWindowWhole'
  <2>1. CASE rec.state = "REFEREE_DECISION"
    BY <2>1 DEF ReleaseJustified, ReviewWindowWhole, None
  <2>2. CASE rec.state \in {"POD_ACCEPTED", "POD_DEEMED_ACCEPTED"}
    BY <2>2 DEF ReleaseJustified, ReviewWindowWhole, ValidReferee, ValidPod, Support,
                Null, Times, OptionalDeadline, LastDeadline, REVIEW_WINDOW
  <2> QED BY <2>1, <2>2
<1>9. Support'
  BY DEF Support
<1>10. Kept
  BY DEF Kept, DecisionKept, SettlementKept, BidsKept, ValidReferee,
       ValidSettlement
<1> QED
  BY <1>1, <1>2, <1>3, <1>4, <1>5, <1>6, <1>7, <1>8, <1>9, <1>10

(* A partial release pays what the referee awarded. *)
LEMMA ESCROW_PARTIAL_RELEASE_CONFIRMED_Step ==
  ASSUME IInv, NEW t \in Times, NEW x \in Amounts, NEW y \in Amounts,
         ESCROW_PARTIAL_RELEASE_CONFIRMED(t, x, y)
  PROVE  IInv' /\ Kept
<1> USE DEF ESCROW_PARTIAL_RELEASE_CONFIRMED
<1>1. TypeOK'
  BY ZenonT(60), FieldTypes, FieldValues
<1>2. ValidFunding(rec)'
  BY DEF ValidFunding
<1>3. ValidAccess(rec)'
  BY DEF ValidAccess
<1>4. ValidAward(rec)' /\ ValidLock(rec)'
  BY DEF ValidAward, ValidLock
<1>5. ValidPod(rec)'
  BY DEF ValidPod
<1>6. ValidReferee(rec)' /\ ValidSettlement(rec)'
  BY DEF ValidReferee, ValidSettlement
<1>7. MoneyAccounted'
  BY DEF MoneyAccounted, ValidLock, Null, OrZero, Amounts, OptionalAmount
<1>8. ReleaseJustified' /\ ReviewWindowWhole'
  BY DEF ReleaseJustified, ReviewWindowWhole, ValidReferee
<1>9. Support'
  BY DEF Support
<1>10. Kept
  BY DEF Kept, DecisionKept, SettlementKept, BidsKept, ValidSettlement
<1> QED
  BY <1>1, <1>2, <1>3, <1>4, <1>5, <1>6, <1>7, <1>8, <1>9, <1>10

(* A refund returns the budget, or the locked amount after a referee. *)
LEMMA ESCROW_REFUND_CONFIRMED_Step ==
  ASSUME IInv, NEW t \in Times, NEW y \in Amounts,
         ESCROW_REFUND_CONFIRMED(t, y)
  PROVE  IInv' /\ Kept
<1> USE DEF ESCROW_REFUND_CONFIRMED
<1>1. TypeOK'
  BY ZenonT(60), FieldTypes, FieldValues
<1>2. ValidFunding(rec)'
  BY DEF ValidFunding
<1>3. ValidAccess(rec)'
  BY DEF ValidAccess
<1>4. ValidAward(rec)' /\ ValidLock(rec)'
  BY DEF ValidAward, ValidLock
<1>5. ValidPod(rec)'
  BY DEF ValidPod
<1>6. ValidReferee(rec)' /\ ValidSettlement(rec)'
  BY DEF ValidReferee, ValidSettlement, ValidLock
<1>7. MoneyAccounted'
  BY DEF MoneyAccounted, ValidLock, Support, Null, OrZero, Amounts,
       OptionalAmount
<1>8. ReleaseJustified' /\ ReviewWindowWhole'
  BY DEF ReleaseJustified, ReviewWindowWhole, ValidSettlement
<1>9. Support'
  BY DEF Support
<1>10. Kept
  BY DEF Kept, DecisionKept, SettlementKept, BidsKept, ValidReferee,
       ValidSettlement
<1> QED
  BY <1>1, <1>2, <1>3, <1>4, <1>5, <1>6, <1>7, <1>8, <1>9, <1>10

(* Completion only moves the state. *)
LEMMA TENDER_COMPLETION_CONFIRMED_Step ==
  ASSUME IInv, NEW t \in Times,
         TENDER_COMPLETION_CONFIRMED(t)
  PROVE  IInv' /\ Kept
<1> USE DEF TENDER_COMPLETION_CONFIRMED
<1>1. TypeOK'
  BY FieldTypes, FieldValues
<1>2. ValidFunding(rec)'
  BY DEF ValidFunding
<1>3. ValidAccess(rec)'
  BY DEF ValidAccess
<1>4. ValidAward(rec)' /\ ValidLock(rec)'
  BY DEF ValidAward, ValidLock
<1>5. ValidPod(rec)'
  BY DEF ValidPod
<1>6. ValidReferee(rec)' /\ ValidSettlement(rec)'
  BY DEF ValidReferee, ValidSettlement
<1>7. MoneyAccounted'
  BY DEF MoneyAccounted
<1>8. ReleaseJustified' /\ ReviewWindowWhole'
  BY DEF ReleaseJustified, ReviewWindowWhole, Null, Times, OptionalDeadline
<1>9. Support'
  BY DEF Support
<1>10. Kept
  BY DEF Kept, DecisionKept, SettlementKept, BidsKept
<1> QED
  BY <1>1, <1>2, <1>3, <1>4, <1>5, <1>6, <1>7, <1>8, <1>9, <1>10

HIDE LifecycleConstants
  DEF withTransition, IInv, TypeOK, LifecycleRecord, ValidButForLength,
      AfterSettlement, REQUIRES_DISPUTE,
      REQUIRES_CORRECTION_DEADLINE, REQUIRES_REVIEW_WINDOW, REQUIRES_POD,
      REQUIRES_LOCK, REQUIRES_WINNER, POST_AUCTION_CLOSE, BIDDING_REACHED,
      POST_ACTIVATION, POST_FUNDING, BeforeWinner, BeforePod

-----------------------------------------------------------------------------
(* The new record satisfies the invariant. *)
LEMMA InitInvariant == Init => IInv
<1> SUFFICES ASSUME Init PROVE IInv
  OBVIOUS
<1>1. rec = createLifecycleRecord
  BY DEF Init
<1>2. TypeOK
  <2>1. /\ Null \in OptionalAmount /\ Null \in OptionalTime
        /\ Null \in OptionalDeadline /\ 0 \in Times /\ 0 \in PodVersions
        /\ None \in OptionalTx /\ None \in ShipperAuths
        /\ None \in DisputeIds /\ None \in OptionalResolution
        /\ {} \in AccessPayments /\ {} \in BidRegistries
    BY LifecycleConstants
    DEF OptionalAmount, OptionalTime, OptionalDeadline, Times, PodVersions, OptionalTx,
        ShipperAuths, DisputeIds, OptionalResolution, AccessPayments,
        BidRegistries
  <2>2. "DRAFT" \in V2_LIFECYCLE_STATES
    BY DEF V2_LIFECYCLE_STATES
  <2> QED BY ONLY <1>1, <2>1, <2>2 DEF TypeOK, LifecycleRecord, createLifecycleRecord
<1>3. rec.state \notin POST_FUNDING
  BY <1>1 DEF createLifecycleRecord, POST_FUNDING, POST_ACTIVATION, BIDDING_REACHED,
       POST_AUCTION_CLOSE, REQUIRES_WINNER, REQUIRES_LOCK, REQUIRES_POD,
       REQUIRES_REVIEW_WINDOW, AfterSettlement
<1>4. ValidButForLength(rec)
  BY <1>1, <1>3
  DEF createLifecycleRecord, ValidButForLength, ValidFunding,
      ValidAccess, validateAccessPayments, validateBidRegistry,
      ValidAward, ValidLock, ValidPod, ValidReferee,
      ValidSettlement, POST_FUNDING, POST_ACTIVATION, BIDDING_REACHED,
      POST_AUCTION_CLOSE, REQUIRES_WINNER, REQUIRES_LOCK, REQUIRES_POD,
      REQUIRES_REVIEW_WINDOW, REQUIRES_CORRECTION_DEADLINE, REQUIRES_DISPUTE,
      AfterSettlement, Null, None
<1>5. MoneyAccounted /\ ReleaseJustified /\ ReviewWindowWhole
  BY <1>1 DEF createLifecycleRecord, MoneyAccounted, ReleaseJustified, ReviewWindowWhole,
              AfterSettlement
<1>6. Support
  BY <1>1 DEF createLifecycleRecord, Support, Null
<1> QED BY <1>2, <1>4, <1>5, <1>6 DEF IInv

(* Every event of the reducer preserves it, and keeps what must be kept. *)
LEMMA StepInvariant ==
  ASSUME IInv, Next
  PROVE  IInv' /\ Kept
<1> PICK t \in Times :
      AuctionEvent(t) \/ TransportEvent(t) \/ PodEvent(t) \/ SettlementEvent(t)
  BY DEF Next, reduceLifecycle
<1>1. CASE AuctionEvent(t)
  BY <1>1, ESCROW_FUNDING_CONFIRMED_Step, TENDER_ACTIVATION_PAID_Step,
     BID_SUBMISSION_PAID_Step, BIDDING_STARTED_Step, AUCTION_CLOSE_CONFIRMED_Step,
     NO_QUALIFIED_BID_CONFIRMED_Step, WINNER_SELECTION_CONFIRMED_Step,
     WINNING_AMOUNT_ALLOCATION_CONFIRMED_Step
  DEF AuctionEvent
<1>2. CASE TransportEvent(t)
  BY <1>2, ROUTE_RESERVATION_PUBLISHED_Step, TRANSIT_STARTED_Step,
     DELIVERY_REPORTED_Step
  DEF TransportEvent
<1>3. CASE PodEvent(t)
  BY <1>3, POD_PACKAGE_SUBMITTED_Step, POD_REVIEW_STARTED_Step,
     POD_CORRECTION_REQUESTED_Step, POD_ACCEPTED_BY_SHIPPER_Step,
     POD_REJECTED_TO_DISPUTE_Step, POD_PACKAGE_RESUBMITTED_Step,
     POD_REVIEW_DEADLINE_EXPIRED_Step, POD_CORRECTION_DEADLINE_EXPIRED_Step,
     POD_ADVISORY_ANCHORED_Step
  DEF PodEvent
<1>4. CASE SettlementEvent(t)
  BY <1>4, REFEREE_RESOLUTION_RECORDED_Step, ESCROW_RELEASE_CONFIRMED_Step,
     ESCROW_PARTIAL_RELEASE_CONFIRMED_Step, ESCROW_REFUND_CONFIRMED_Step,
     TENDER_COMPLETION_CONFIRMED_Step
  DEF SettlementEvent
<1> QED BY <1>1, <1>2, <1>3, <1>4

(* A step that leaves the record alone leaves the invariant alone. *)
LEMMA StutterInvariant ==
  ASSUME IInv, UNCHANGED rec
  PROVE  IInv'
BY DEF IInv, TypeOK, ValidButForLength, ValidFunding,
       ValidAccess, validateAccessPayments, validateBidRegistry,
       ValidAward, ValidLock, ValidPod, ValidReferee,
       ValidSettlement, MoneyAccounted, ReleaseJustified, ReviewWindowWhole, Support

(* The inductive invariant holds in every reachable record. *)
THEOREM InvariantAlways == Spec => []IInv
<1>1. IInv /\ [Next]_rec => IInv'
  BY StepInvariant, StutterInvariant
<1> QED BY InitInvariant, <1>1, PTL DEF Spec

(* Every field keeps its type and every amount stays within the budget. *)
THEOREM TypeCorrect == Spec => []TypeOK
<1>1. IInv => TypeOK
  BY DEF IInv
<1> QED BY InvariantAlways, <1>1, PTL

(* Only a timeout makes a disputeId that is too long, and no event is      *)
(* applied to the record that has one.                                     *)
TooLongIsNew == rec.disputeId = "timeout-long" => rec.state = "POD_DISPUTED"

(* An event keeps a disputeId that is short enough, or names a dispute. *)
LEMMA LengthStep ==
  ASSUME IInv, Next
  PROVE  TooLongIsNew'
<1> USE DEF withTransition, TooLongIsNew
<1>0. /\ rec.disputeId # "timeout-long" /\ rec \in LifecycleRecord
      /\ rec.state = "POD_DISPUTED" => rec.disputeId # None
  BY DEF Next, assertValidLifecycleRecord, ValidDisputeId, ValidPod, IInv, TypeOK,
         REQUIRES_DISPUTE
<1>1. PICK t \in Times :
      AuctionEvent(t) \/ TransportEvent(t) \/ PodEvent(t) \/ SettlementEvent(t)
  BY DEF Next, reduceLifecycle
<1>2. CASE AuctionEvent(t)
  BY <1>0, <1>2
  DEF AuctionEvent, ESCROW_FUNDING_CONFIRMED, TENDER_ACTIVATION_PAID,
      BID_SUBMISSION_PAID, BIDDING_STARTED, AUCTION_CLOSE_CONFIRMED,
      NO_QUALIFIED_BID_CONFIRMED, WINNER_SELECTION_CONFIRMED,
      WINNING_AMOUNT_ALLOCATION_CONFIRMED, LifecycleRecord
<1>3. CASE TransportEvent(t)
  BY <1>0, <1>3
  DEF TransportEvent, ROUTE_RESERVATION_PUBLISHED, TRANSIT_STARTED, DELIVERY_REPORTED,
      LifecycleRecord
<1>4. CASE PodEvent(t)
  BY <1>0, <1>4
  DEF PodEvent, POD_PACKAGE_SUBMITTED, POD_REVIEW_STARTED, POD_CORRECTION_REQUESTED,
      POD_ACCEPTED_BY_SHIPPER, POD_REJECTED_TO_DISPUTE, POD_PACKAGE_RESUBMITTED,
      POD_REVIEW_DEADLINE_EXPIRED, POD_CORRECTION_DEADLINE_EXPIRED,
      POD_ADVISORY_ANCHORED, LifecycleRecord
<1>5. CASE SettlementEvent(t)
  BY <1>0, <1>5
  DEF SettlementEvent, REFEREE_RESOLUTION_RECORDED, ESCROW_RELEASE_CONFIRMED,
      ESCROW_PARTIAL_RELEASE_CONFIRMED, ESCROW_REFUND_CONFIRMED,
      TENDER_COMPLETION_CONFIRMED, LifecycleRecord
<1> QED BY <1>1, <1>2, <1>3, <1>4, <1>5

(* With a disputeId of a shorter action id the record is valid. *)
LEMMA ShorterIsValid ==
  ASSUME IInv
  PROVE  LET r == [rec EXCEPT !.disputeId = "timeout-short"]
         IN  rec.disputeId = "timeout-long" => assertValidLifecycleRecord(r)
<1> DEFINE r == [rec EXCEPT !.disputeId = "timeout-short"]
<1> SUFFICES ASSUME rec.disputeId = "timeout-long" PROVE assertValidLifecycleRecord(r)
  OBVIOUS
<1>0. rec \in LifecycleRecord
  BY DEF IInv, TypeOK
<1>1. /\ r.state = rec.state /\ r.fundingTxId = rec.fundingTxId
      /\ r.fundedAmount = rec.fundedAmount /\ r.accessReceipt = rec.accessReceipt
      /\ r.accessPayments = rec.accessPayments /\ r.bidRegistry = rec.bidRegistry
      /\ r.closureProof = rec.closureProof /\ r.decisionManifest = rec.decisionManifest
      /\ r.winner = rec.winner /\ r.winningAmount = rec.winningAmount
      /\ r.lockedAmount = rec.lockedAmount /\ r.excessRefund = rec.excessRefund
      /\ r.allocateTxId = rec.allocateTxId /\ r.podVersion = rec.podVersion
      /\ r.reviewStartedAt = rec.reviewStartedAt
      /\ r.reviewDeadlineAt = rec.reviewDeadlineAt
      /\ r.correctionDeadlineAt = rec.correctionDeadlineAt
      /\ r.refereeResolution = rec.refereeResolution
      /\ r.releaseAmount = rec.releaseAmount /\ r.refundAmount = rec.refundAmount
      /\ r.releaseTxId = rec.releaseTxId /\ r.refundTxId = rec.refundTxId
      /\ r.disputeId = "timeout-short"
  BY <1>0 DEF LifecycleRecord
<1> HIDE DEF r
<1>2. ValidFunding(r) /\ ValidAccess(r) /\ ValidAward(r) /\ ValidLock(r)
  BY <1>1 DEF IInv, ValidButForLength, ValidFunding, ValidAccess, ValidAward, ValidLock
<1>3. ValidPod(r) /\ ValidDisputeId(r)
  BY <1>1 DEF IInv, ValidButForLength, ValidPod, ValidDisputeId, None
<1>4. ValidReferee(r) /\ ValidSettlement(r)
  BY <1>1 DEF IInv, ValidButForLength, ValidReferee, ValidSettlement, None
<1> QED BY <1>2, <1>3, <1>4 DEF assertValidLifecycleRecord

(* The stores accept every record the reducer produces, whatever the       *)
(* events, but the one of a timeout whose action id is too long, and that  *)
(* one under a shorter id.                                                 *)
THEOREM PersistableCorrect == Spec => []RecordPersistable
<1>1. Init => TooLongIsNew
  BY DEF Init, createLifecycleRecord, TooLongIsNew, None
<1>2. IInv /\ TooLongIsNew /\ [Next]_rec => TooLongIsNew'
  BY LengthStep DEF TooLongIsNew
<1>3. IInv /\ TooLongIsNew => RecordPersistable
  BY ShorterIsValid
  DEF IInv, TooLongIsNew, ValidButForLength, RecordPersistable, assertValidLifecycleRecord,
      ValidDisputeId
<1> QED BY InvariantAlways, <1>1, <1>2, <1>3, PTL DEF Spec

(* What a settled tender returned, released and refunded is its budget. *)
THEOREM MoneyCorrect == Spec => []MoneyAccounted
<1>1. IInv => MoneyAccounted
  BY DEF IInv
<1> QED BY InvariantAlways, <1>1, PTL

(* A carrier is paid without a referee only on the shipper's acceptance or *)
(* silence to the deadline.                                                *)
THEOREM ReleaseCorrect == Spec => []ReleaseJustified
<1>1. IInv => ReleaseJustified
  BY DEF IInv
<1> QED BY InvariantAlways, <1>1, PTL

(* Every review has its whole window. *)
THEOREM WindowCorrect == Spec => []ReviewWindowWhole
<1>1. IInv => ReviewWindowWhole
  BY DEF IInv
<1> QED BY InvariantAlways, <1>1, PTL

(* Referee decisions, settlements and closed bid sets are never changed. *)
THEOREM DecisionCorrect ==
  Spec => RefereeDecisionBinding /\ SettlementFinal /\ BidSetFrozen
<1>1. IInv /\ [Next]_rec => [DecisionKept]_rec /\ [SettlementKept]_rec /\ [BidsKept]_rec
  BY StepInvariant DEF Kept
<1> QED
  BY InvariantAlways, <1>1, PTL DEF Spec, RefereeDecisionBinding, SettlementFinal, BidSetFrozen

-----------------------------------------------------------------------------
(***************************************************************************)
(* The record implements TenderMoney.  The mapping reads the state and     *)
(* five amounts; an event that leaves those alone is a stuttering step.    *)
(***************************************************************************)
MoneyRecord ==
  [phase: {"OPEN", "FUNDED", "LOCKED", "SETTLED"}, held: Int, back: Int, paid: Int]

(* The abstract books of a record r. *)
MoneyOf(r) ==
  [phase |-> IF r.state \in AfterSettlement THEN "SETTLED"
             ELSE IF r.lockedAmount # Null THEN "LOCKED"
             ELSE IF r.fundedAmount # Null THEN "FUNDED"
             ELSE "OPEN",
   held |-> IF r.state \in AfterSettlement THEN 0
            ELSE IF r.lockedAmount # Null THEN r.lockedAmount
            ELSE OrZero(r.fundedAmount),
   back |-> OrZero(r.excessRefund)
              + (IF r.state \in AfterSettlement THEN OrZero(r.refundAmount) ELSE 0),
   paid |-> IF r.state \in AfterSettlement THEN OrZero(r.releaseAmount) ELSE 0]

(* The amounts of a record, each an amount or Null. *)
AmountsOf(r) ==
  /\ r.fundedAmount \in OptionalAmount /\ r.lockedAmount \in OptionalAmount
  /\ r.excessRefund \in OptionalAmount /\ r.releaseAmount \in OptionalAmount
  /\ r.refundAmount \in OptionalAmount

(* What the abstract books say, by the phase of the record. *)
LEMMA MoneyFields ==
  ASSUME NEW r, AmountsOf(r)
  PROVE  /\ MoneyOf(r) \in MoneyRecord
         /\ r.state \in AfterSettlement =>
              /\ MoneyOf(r).phase = "SETTLED" /\ MoneyOf(r).held = 0
              /\ MoneyOf(r).back = OrZero(r.excessRefund) + OrZero(r.refundAmount)
              /\ MoneyOf(r).paid = OrZero(r.releaseAmount)
         /\ r.state \notin AfterSettlement /\ r.lockedAmount # Null =>
              /\ MoneyOf(r).phase = "LOCKED" /\ MoneyOf(r).held = r.lockedAmount
              /\ MoneyOf(r).back = OrZero(r.excessRefund) /\ MoneyOf(r).paid = 0
         /\ r.state \notin AfterSettlement /\ r.lockedAmount = Null =>
              /\ MoneyOf(r).phase = (IF r.fundedAmount # Null THEN "FUNDED" ELSE "OPEN")
              /\ MoneyOf(r).held = OrZero(r.fundedAmount)
              /\ MoneyOf(r).back = OrZero(r.excessRefund) /\ MoneyOf(r).paid = 0
<1>1. /\ OrZero(r.fundedAmount) \in Int /\ OrZero(r.excessRefund) \in Int
      /\ OrZero(r.refundAmount) \in Int /\ OrZero(r.releaseAmount) \in Int
      /\ r.lockedAmount \in Int
  BY LifecycleConstants DEF AmountsOf, OptionalAmount, Amounts, OrZero, Null
<1>2. MoneyOf(r) \in MoneyRecord
  BY <1>1 DEF MoneyOf, MoneyRecord
<1>3. CASE r.state \in AfterSettlement
  <2>1. MoneyOf(r) = [phase |-> "SETTLED", held |-> 0,
                      back |-> OrZero(r.excessRefund) + OrZero(r.refundAmount),
                      paid |-> OrZero(r.releaseAmount)]
    BY <1>3 DEF MoneyOf
  <2> QED BY <1>2, <1>3, <2>1
<1>4. CASE r.state \notin AfterSettlement /\ r.lockedAmount # Null
  <2>1. OrZero(r.excessRefund) + 0 = OrZero(r.excessRefund)
    BY <1>1
  <2>2. MoneyOf(r) = [phase |-> "LOCKED", held |-> r.lockedAmount,
                      back |-> OrZero(r.excessRefund), paid |-> 0]
    BY <1>4, <2>1 DEF MoneyOf
  <2> QED BY <1>2, <1>4, <2>2
<1>5. CASE r.state \notin AfterSettlement /\ r.lockedAmount = Null
  <2>1. OrZero(r.excessRefund) + 0 = OrZero(r.excessRefund)
    BY <1>1
  <2> QED BY <1>2, <1>5, <2>1 DEF MoneyOf
<1> QED BY <1>3, <1>4, <1>5

(* The mapping, in terms of the record before and after a step. *)
LEMMA MoneyMapping ==
  /\ recordedMoney = [k \in {1} |-> MoneyOf(rec)]
  /\ recordedMoney' = [k \in {1} |-> MoneyOf(rec')]
  BY DEF recordedMoney, settled, MoneyOf

(* The parts of the invariant that speak about money. *)
LEMMA MoneyInvariant ==
  ASSUME IInv
  PROVE  /\ AmountsOf(rec)
         /\ rec.state = "DRAFT" => rec.fundedAmount = Null
         /\ rec.state \in {"WINNER_SELECTED", "NO_QUALIFIED_BID"} =>
              rec.fundedAmount = Budget
         /\ rec.state \in {"DRAFT", "WINNER_SELECTED", "NO_QUALIFIED_BID"} =>
              rec.lockedAmount = Null /\ rec.excessRefund = Null
         /\ rec.state \in {"POD_ACCEPTED", "POD_DEEMED_ACCEPTED", "REFEREE_DECISION"} =>
              rec.lockedAmount # Null
<1>1. AmountsOf(rec)
  BY DEF IInv, TypeOK, LifecycleRecord, AmountsOf
<1>2. /\ rec.state = "DRAFT" => rec.fundedAmount = Null
      /\ rec.state \in {"WINNER_SELECTED", "NO_QUALIFIED_BID"} =>
           rec.fundedAmount = Budget
  BY DEF IInv, ValidButForLength, ValidFunding,
         POST_FUNDING, POST_ACTIVATION, BIDDING_REACHED, POST_AUCTION_CLOSE,
         REQUIRES_WINNER, REQUIRES_LOCK, REQUIRES_POD, REQUIRES_REVIEW_WINDOW,
         AfterSettlement
<1>3. /\ rec.state \in {"DRAFT", "WINNER_SELECTED", "NO_QUALIFIED_BID"} =>
           rec.lockedAmount = Null
      /\ rec.state \in {"POD_ACCEPTED", "POD_DEEMED_ACCEPTED", "REFEREE_DECISION"} =>
           rec.lockedAmount # Null
  BY DEF IInv, ValidButForLength, ValidLock,
         REQUIRES_LOCK, REQUIRES_POD, REQUIRES_REVIEW_WINDOW, AfterSettlement
<1>4. (rec.lockedAmount = Null) <=> (rec.excessRefund = Null)
  BY DEF IInv, Support
<1> QED BY <1>1, <1>2, <1>3, <1>4

(* An event that moves no money is a stuttering step of TenderMoney. *)
Quiet ==
  /\ rec'.fundedAmount = rec.fundedAmount /\ rec'.lockedAmount = rec.lockedAmount
  /\ rec'.excessRefund = rec.excessRefund
  /\ \/ rec.state \notin AfterSettlement /\ rec'.state \notin AfterSettlement
     \/ /\ rec.state \in AfterSettlement /\ rec'.state \in AfterSettlement
        /\ rec'.releaseAmount = rec.releaseAmount
        /\ rec'.refundAmount = rec.refundAmount

(* A quiet event leaves the abstract books alone. *)
LEMMA QuietStutters ==
  ASSUME Quiet
  PROVE  recordedMoney' = recordedMoney
<1>1. MoneyOf(rec') = MoneyOf(rec)
  BY DEF Quiet, MoneyOf
<1> QED BY <1>1, MoneyMapping

(* The four events that move money are TenderMoney's four actions. *)
LEMMA MoneyStep ==
  ASSUME IInv, IInv', NEW t \in Times, NEW x \in Amounts, NEW y \in Amounts, NEW e,
         \/ ESCROW_FUNDING_CONFIRMED(t, x)
         \/ WINNING_AMOUNT_ALLOCATION_CONFIRMED(t, x, y, e)
         \/ ESCROW_RELEASE_CONFIRMED(t, x)
         \/ ESCROW_PARTIAL_RELEASE_CONFIRMED(t, x, y)
         \/ ESCROW_REFUND_CONFIRMED(t, y)
  PROVE  Money!Next
<1> DEFINE m == MoneyOf(rec)
           n == MoneyOf(rec')
<1>0. /\ rec \in LifecycleRecord /\ AmountsOf(rec) /\ AmountsOf(rec')
      /\ m \in MoneyRecord /\ n \in MoneyRecord
      /\ x \in 0..Budget /\ y \in 0..Budget /\ Budget \in Nat \ {0}
  <2>1. AmountsOf(rec')
    BY DEF IInv, TypeOK, LifecycleRecord, AmountsOf
  <2> QED BY <2>1, MoneyFields, MoneyInvariant, LifecycleConstants
          DEF IInv, TypeOK, Amounts
<1>1. /\ recordedMoney[1] = m
      /\ recordedMoney' = [recordedMoney EXCEPT ![1] = n]
  BY MoneyMapping
<1>a. Budget # Null /\ OrZero(Budget) = Budget /\ OrZero(Null) = 0
  BY <1>0 DEF Null, OrZero
<1> HIDE DEF m, n
<1>2. ASSUME ESCROW_FUNDING_CONFIRMED(t, x) PROVE Money!Next
  <2>1. /\ rec.state = "DRAFT" /\ x = Budget
        /\ rec' = [rec EXCEPT !.fundingTxId = TRUE, !.fundedAmount = x,
                              !.state = "ESCROW_FUNDED", !.updatedAt = t]
    BY <1>2 DEF ESCROW_FUNDING_CONFIRMED, withTransition
  <2>2. /\ rec'.state = "ESCROW_FUNDED" /\ rec'.fundedAmount = Budget
        /\ rec'.lockedAmount = rec.lockedAmount
        /\ rec'.excessRefund = rec.excessRefund
    BY ONLY <1>0, <2>1 DEF LifecycleRecord
  <2>3. /\ m.phase = "OPEN" /\ m.back = 0 /\ m.paid = 0
        /\ n.phase = "FUNDED" /\ n.held = Budget /\ n.back = 0 /\ n.paid = 0
    <3>1. /\ rec.fundedAmount = Null /\ rec.lockedAmount = Null
          /\ rec.excessRefund = Null
          /\ rec.state \notin AfterSettlement /\ rec'.state \notin AfterSettlement
      BY <2>1, <2>2, MoneyInvariant DEF AfterSettlement
    <3> QED BY <1>0, <1>a, <2>2, <3>1, MoneyFields DEF m, n
  <2>4. n = [m EXCEPT !.phase = "FUNDED", !.held = Budget]
    BY <1>0, <2>3 DEF MoneyRecord
  <2>5. Money!Deposit(1)
    <3>1. recordedMoney' = [recordedMoney EXCEPT ![1].phase = "FUNDED", ![1].held = Budget]
      BY <1>1, <2>4
    <3>2. Budget \in 1..Budget /\ recordedMoney[1].phase = "OPEN"
      BY <1>0, <1>1, <2>3
    <3> QED BY <3>1, <3>2 DEF Money!Deposit
  <2> QED BY <2>5 DEF Money!Next
<1>3. ASSUME WINNING_AMOUNT_ALLOCATION_CONFIRMED(t, x, y, e) PROVE Money!Next
  <2>1. /\ rec.state = "WINNER_SELECTED" /\ x > 0 /\ x + y = Budget
        /\ rec' = [rec EXCEPT !.lockedAmount = x, !.excessRefund = y,
                              !.allocateTxId = TRUE, !.refundExcessTxId = e,
                              !.winningAmount = x,
                              !.state = "WINNING_AMOUNT_LOCKED", !.updatedAt = t]
    BY <1>3 DEF WINNING_AMOUNT_ALLOCATION_CONFIRMED, withTransition
  <2>2. /\ rec'.state = "WINNING_AMOUNT_LOCKED"
        /\ rec'.lockedAmount = x /\ rec'.excessRefund = y
    BY ONLY <1>0, <2>1 DEF LifecycleRecord
  <2>3. /\ m.phase = "FUNDED" /\ m.held = Budget /\ m.back = 0 /\ m.paid = 0
        /\ n.phase = "LOCKED" /\ n.held = x /\ n.back = Budget - x /\ n.paid = 0
    <3>1. /\ rec.fundedAmount = Budget /\ rec.lockedAmount = Null
          /\ rec.excessRefund = Null
          /\ rec.state \notin AfterSettlement /\ rec'.state \notin AfterSettlement
      BY <2>1, <2>2, MoneyInvariant DEF AfterSettlement
    <3>2. x # Null /\ OrZero(y) = y /\ y = Budget - x
      BY <1>0, <2>1 DEF Null, OrZero
    <3> QED BY <1>0, <1>a, <2>2, <3>1, <3>2, MoneyFields DEF m, n
  <2>4. n = [m EXCEPT !.phase = "LOCKED", !.held = x, !.back = m.held - x]
    BY <1>0, <2>3 DEF MoneyRecord
  <2>5. x \in 1..m.held
    BY <1>0, <2>1, <2>3
  <2>6. Money!Lock(1)
    <3>1. recordedMoney' = [recordedMoney EXCEPT ![1].phase = "LOCKED", ![1].held = x,
                                                 ![1].back = recordedMoney[1].held - x]
      BY <1>1, <2>4
    <3>2. x \in 1..recordedMoney[1].held /\ recordedMoney[1].phase = "FUNDED"
      BY <1>1, <2>3, <2>5
    <3> QED BY <3>1, <3>2 DEF Money!Lock
  <2> QED BY <2>6 DEF Money!Next
<1>4. ASSUME NEW rel \in 0..Budget, NEW ref \in 0..Budget,
             rec.state \notin AfterSettlement, rec.lockedAmount # Null,
             rel + ref = rec.lockedAmount,
             rec'.state \in AfterSettlement, rec'.excessRefund = rec.excessRefund,
             rec'.releaseAmount = rel, rec'.refundAmount = ref
      PROVE  Money!Next
  <2>1. OrZero(rel) = rel /\ OrZero(ref) = ref /\ OrZero(rec.excessRefund) \in Int
    BY <1>0 DEF OrZero, Null, AmountsOf, OptionalAmount, Amounts
  <2>2. /\ m.phase = "LOCKED" /\ m.held = rel + ref
        /\ m.back = OrZero(rec.excessRefund) /\ m.paid = 0
        /\ n.phase = "SETTLED" /\ n.held = 0 /\ n.paid = rel
        /\ n.back = OrZero(rec.excessRefund) + ref
    BY <1>0, <1>4, <2>1, MoneyFields DEF m, n
  <2>3. rel \in 0..m.held /\ n.back = m.back + m.held - rel
    BY <1>0, <2>1, <2>2
  <2>4. n = [m EXCEPT !.phase = "SETTLED", !.held = 0,
                      !.back = m.back + m.held - rel, !.paid = rel]
    BY <1>0, <2>2, <2>3 DEF MoneyRecord
  <2>5. Money!Settle(1)
    <3>1. recordedMoney' = [recordedMoney EXCEPT ![1].phase = "SETTLED", ![1].held = 0,
               ![1].back = recordedMoney[1].back + recordedMoney[1].held - rel,
               ![1].paid = rel]
      BY <1>1, <2>4
    <3>2. rel \in 0..recordedMoney[1].held /\ recordedMoney[1].phase = "LOCKED"
      BY <1>1, <2>2, <2>3
    <3> QED BY <3>1, <3>2 DEF Money!Settle
  <2> QED BY <2>5 DEF Money!Next
<1>5. ASSUME ESCROW_RELEASE_CONFIRMED(t, x) PROVE Money!Next
  <2>1. /\ rec.state \in {"POD_ACCEPTED", "POD_DEEMED_ACCEPTED", "REFEREE_DECISION"}
        /\ rec.lockedAmount # Null => x = rec.lockedAmount
        /\ rec' = [rec EXCEPT !.releaseTxId = TRUE, !.releaseAmount = x,
                     !.refundAmount = 0, !.state = "PAYMENT_RELEASED", !.updatedAt = t]
    BY <1>5 DEF ESCROW_RELEASE_CONFIRMED, withTransition
  <2>2. /\ rec'.state = "PAYMENT_RELEASED" /\ rec'.excessRefund = rec.excessRefund
        /\ rec'.releaseAmount = x /\ rec'.refundAmount = 0
    BY ONLY <1>0, <2>1 DEF LifecycleRecord
  <2>3. x + 0 = rec.lockedAmount /\ 0 \in 0..Budget /\ rec.lockedAmount # Null
    BY <1>0, <2>1, MoneyInvariant
  <2> QED BY <1>0, <1>4, <2>1, <2>2, <2>3 DEF AfterSettlement
<1>6. ASSUME ESCROW_PARTIAL_RELEASE_CONFIRMED(t, x, y) PROVE Money!Next
  <2>1. /\ rec.state = "REFEREE_DECISION" /\ x + y = OrZero(rec.lockedAmount)
        /\ rec' = [rec EXCEPT !.releaseTxId = TRUE, !.refundTxId = TRUE,
                     !.releaseAmount = x, !.refundAmount = y,
                     !.state = "PARTIAL_RELEASE", !.updatedAt = t]
    BY <1>6 DEF ESCROW_PARTIAL_RELEASE_CONFIRMED, withTransition
  <2>2. /\ rec'.state = "PARTIAL_RELEASE" /\ rec'.excessRefund = rec.excessRefund
        /\ rec'.releaseAmount = x /\ rec'.refundAmount = y
    BY ONLY <1>0, <2>1 DEF LifecycleRecord
  <2>3. x + y = rec.lockedAmount /\ rec.lockedAmount # Null
    BY <2>1, MoneyInvariant DEF OrZero
  <2> QED BY <1>0, <1>4, <2>1, <2>2, <2>3 DEF AfterSettlement
<1>7. ASSUME ESCROW_REFUND_CONFIRMED(t, y) PROVE Money!Next
  <2>1. /\ rec' = [rec EXCEPT !.refundTxId = TRUE, !.refundAmount = y,
                     !.releaseAmount = 0, !.state = "REFUNDED", !.updatedAt = t]
        /\ \/ rec.state = "NO_QUALIFIED_BID" /\ y = Budget
           \/ /\ rec.state = "REFEREE_DECISION"
              /\ rec.lockedAmount # Null => y = rec.lockedAmount
    BY <1>7 DEF ESCROW_REFUND_CONFIRMED, withTransition
  <2>2. /\ rec'.state = "REFUNDED" /\ rec'.excessRefund = rec.excessRefund
        /\ rec'.releaseAmount = 0 /\ rec'.refundAmount = y
    BY ONLY <1>0, <2>1 DEF LifecycleRecord
  <2>3. CASE rec.state = "REFEREE_DECISION"
    <3>1. 0 + y = rec.lockedAmount /\ 0 \in 0..Budget /\ rec.lockedAmount # Null
      BY <1>0, <2>1, <2>3, MoneyInvariant
    <3> QED BY <1>0, <1>4, <2>2, <2>3, <3>1 DEF AfterSettlement
  <2>4. CASE rec.state = "NO_QUALIFIED_BID"
    <3>1. /\ m.phase = "FUNDED" /\ m.held = Budget /\ m.back = 0 /\ m.paid = 0
          /\ n.phase = "SETTLED" /\ n.held = 0 /\ n.back = Budget /\ n.paid = 0
      <4>1. /\ rec.fundedAmount = Budget /\ rec.lockedAmount = Null
            /\ rec.excessRefund = Null
            /\ rec.state \notin AfterSettlement /\ rec'.state \in AfterSettlement
        BY <2>2, <2>4, MoneyInvariant DEF AfterSettlement
      <4>2. y = Budget /\ OrZero(0) = 0 /\ 0 + Budget = Budget
        BY <1>0, <2>1, <2>4 DEF Null, OrZero
      <4> QED BY <1>0, <1>a, <2>2, <4>1, <4>2, MoneyFields DEF m, n
    <3>2. n = [m EXCEPT !.phase = "SETTLED", !.held = 0, !.back = m.held]
      BY <1>0, <3>1 DEF MoneyRecord
    <3>3. Money!GiveBack(1)
      BY <1>1, <3>1, <3>2 DEF Money!GiveBack
    <3> QED BY <3>3 DEF Money!Next
  <2> QED BY <2>1, <2>3, <2>4
<1> QED BY <1>2, <1>3, <1>5, <1>6, <1>7

(* Every event of the reducer is an abstract step or moves no money. *)
LEMMA StepRefines ==
  ASSUME IInv, IInv', Next
  PROVE  [Money!Next]_recordedMoney
<1>0. rec \in LifecycleRecord
  BY DEF IInv, TypeOK
<1> PICK t \in Times :
      AuctionEvent(t) \/ TransportEvent(t) \/ PodEvent(t) \/ SettlementEvent(t)
  BY DEF Next, reduceLifecycle
<1>1. ASSUME BIDDING_STARTED(t) \/ AUCTION_CLOSE_CONFIRMED(t) \/ NO_QUALIFIED_BID_CONFIRMED(t)
      PROVE  Quiet
  BY ZenonT(60), <1>0, <1>1 DEF BIDDING_STARTED, AUCTION_CLOSE_CONFIRMED, NO_QUALIFIED_BID_CONFIRMED,
         withTransition, Quiet, AfterSettlement, LifecycleRecord
<1>2. ASSUME NEW tx, TENDER_ACTIVATION_PAID(t, tx)
      PROVE  Quiet
  BY <1>0, <1>2 DEF TENDER_ACTIVATION_PAID,
         withTransition, Quiet, AfterSettlement, LifecycleRecord
<1>3. ASSUME NEW b, NEW tx, BID_SUBMISSION_PAID(t, b, tx)
      PROVE  Quiet
  BY <1>0, <1>3 DEF BID_SUBMISSION_PAID,
         withTransition, Quiet, AfterSettlement, LifecycleRecord
<1>4. ASSUME NEW a, WINNER_SELECTION_CONFIRMED(t, a)
      PROVE  Quiet
  BY <1>0, <1>4 DEF WINNER_SELECTION_CONFIRMED,
         withTransition, Quiet, AfterSettlement, LifecycleRecord
<1>5. ASSUME TransportEvent(t)
      PROVE  Quiet
  BY ZenonT(60), <1>0, <1>5 DEF TransportEvent, ROUTE_RESERVATION_PUBLISHED, TRANSIT_STARTED,
         DELIVERY_REPORTED,
         withTransition, Quiet, AfterSettlement, LifecycleRecord
<1>6. ASSUME NEW v, POD_PACKAGE_SUBMITTED(t, v) \/ POD_PACKAGE_RESUBMITTED(t, v)
      PROVE  Quiet
  BY ZenonT(60), <1>0, <1>6 DEF POD_PACKAGE_SUBMITTED, POD_PACKAGE_RESUBMITTED,
         withTransition, Quiet, AfterSettlement, LifecycleRecord
<1>7. ASSUME POD_REVIEW_STARTED(t) \/ POD_REVIEW_DEADLINE_EXPIRED(t)
      PROVE  Quiet
  BY ZenonT(60), <1>0, <1>7 DEF POD_REVIEW_STARTED, POD_REVIEW_DEADLINE_EXPIRED,
         withTransition, Quiet, AfterSettlement, LifecycleRecord
<1>8. ASSUME NEW d, POD_CORRECTION_REQUESTED(t, d)
      PROVE  Quiet
  BY <1>0, <1>8 DEF POD_CORRECTION_REQUESTED, ShipperReview,
         withTransition, Quiet, AfterSettlement, LifecycleRecord
<1>9. ASSUME NEW d, POD_ACCEPTED_BY_SHIPPER(t, d)
      PROVE  Quiet
  BY <1>0, <1>9 DEF POD_ACCEPTED_BY_SHIPPER, ShipperReview,
         withTransition, Quiet, AfterSettlement, LifecycleRecord
<1>10. ASSUME NEW d, POD_REJECTED_TO_DISPUTE(t, d)
      PROVE  Quiet
  BY <1>0, <1>10 DEF POD_REJECTED_TO_DISPUTE, ShipperReview,
         withTransition, Quiet, AfterSettlement, LifecycleRecord
<1>11. ASSUME NEW l, POD_CORRECTION_DEADLINE_EXPIRED(t, l)
      PROVE  Quiet
  BY <1>0, <1>11 DEF POD_CORRECTION_DEADLINE_EXPIRED,
         withTransition, Quiet, AfterSettlement, LifecycleRecord
<1>12. ASSUME POD_ADVISORY_ANCHORED(t)
      PROVE  Quiet
  BY <1>0, <1>12 DEF POD_ADVISORY_ANCHORED,
         withTransition, Quiet, AfterSettlement, LifecycleRecord
<1>13. ASSUME NEW r, NEW x, NEW y, NEW d, 
             REFEREE_RESOLUTION_RECORDED(t, r, x, y, d)
      PROVE  Quiet
  BY <1>0, <1>13 DEF REFEREE_RESOLUTION_RECORDED,
         withTransition, Quiet, AfterSettlement, LifecycleRecord
<1>14. ASSUME TENDER_COMPLETION_CONFIRMED(t)
      PROVE  Quiet
  BY <1>0, <1>14 DEF TENDER_COMPLETION_CONFIRMED,
         withTransition, Quiet, AfterSettlement, LifecycleRecord
<1>15. CASE Quiet
  BY <1>15, QuietStutters
<1>16. CASE ~Quiet
  <2>1. \E x, y \in Amounts, e \in BOOLEAN :
          \/ ESCROW_FUNDING_CONFIRMED(t, x)
          \/ WINNING_AMOUNT_ALLOCATION_CONFIRMED(t, x, y, e)
          \/ ESCROW_RELEASE_CONFIRMED(t, x)
          \/ ESCROW_PARTIAL_RELEASE_CONFIRMED(t, x, y)
          \/ ESCROW_REFUND_CONFIRMED(t, y)
    <3>1. CASE AuctionEvent(t)
      BY <3>1, <1>16, <1>1, <1>2, <1>3, <1>4 DEF AuctionEvent
    <3>2. CASE TransportEvent(t)
      BY <3>2, <1>16, <1>5
    <3>3. CASE PodEvent(t)
      BY <3>3, <1>16, <1>6, <1>7, <1>8, <1>9, <1>10, <1>11, <1>12 DEF PodEvent
    <3>4. CASE SettlementEvent(t)
      BY <3>4, <1>16, <1>13, <1>14 DEF SettlementEvent
    <3> QED BY <3>1, <3>2, <3>3, <3>4
  <2> QED BY <2>1, MoneyStep
<1> QED BY <1>15, <1>16

(* The lifecycle record keeps the books of TenderMoney, for any budget:    *)
(* the record and the contract (FreightEscrowProofs) implement one and the *)
(* same specification of a tender's money.                                 *)
THEOREM MoneyRefined == Spec => ImplementsTenderMoney
<1>1. Init => Money!Init
  <2> SUFFICES ASSUME Init PROVE Money!Init
    OBVIOUS
  <2>1. MoneyOf(rec) = [phase |-> "OPEN", held |-> 0, back |-> 0, paid |-> 0]
    BY DEF Init, createLifecycleRecord, MoneyOf, OrZero, Null, AfterSettlement
  <2> QED BY <2>1, MoneyMapping DEF Money!Init, Money!Fresh
<1>2. IInv /\ IInv' /\ [Next]_rec => [Money!Next]_recordedMoney
  <2>1. rec' = rec => recordedMoney' = recordedMoney
    BY MoneyMapping
  <2> QED BY <2>1, StepRefines
<1> QED BY <1>1, <1>2, InvariantAlways, PTL DEF Spec, ImplementsTenderMoney, Money!Spec
==============================================================================
