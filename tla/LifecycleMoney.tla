--------------------------- MODULE LifecycleMoney ----------------------------
(***************************************************************************)
(* The lifecycle record of a tender implements TenderMoney for one tender: *)
(* what the record says was funded, locked, refunded and released is what  *)
(* the abstract escrow holds and pays, so the record's books and the       *)
(* contract's are kept by the same rules.                                  *)
(***************************************************************************)
EXTENDS TenderLifecycle

settled == rec.state \in AfterSettlement

recordedMoney ==
  [k \in {1} |->
     [phase |-> IF settled THEN "SETTLED"
                ELSE IF rec.lockedAmount # Null THEN "LOCKED"
                ELSE IF rec.fundedAmount # Null THEN "FUNDED"
                ELSE "OPEN",
      held |-> IF settled THEN 0
               ELSE IF rec.lockedAmount # Null THEN rec.lockedAmount
               ELSE OrZero(rec.fundedAmount),
      back |-> OrZero(rec.excessRefund) + (IF settled THEN OrZero(rec.refundAmount) ELSE 0),
      paid |-> IF settled THEN OrZero(rec.releaseAmount) ELSE 0]]

Money == INSTANCE TenderMoney WITH Tenders <- {1}, MaxAmount <- Budget,
                                   money <- recordedMoney

(* Every event the reducer applies is a step of TenderMoney or none: the   *)
(* record never books a settlement that the escrow could not have paid, a  *)
(* second one, or one before the lock.                                     *)
ImplementsTenderMoney == Money!Spec
==============================================================================
