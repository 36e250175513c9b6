------------------------- MODULE ReservationService -------------------------
(***************************************************************************)
(* The reservation fee of the winning carrier: src/reservation.  One       *)
(* reservation record lives in a store whose only write is compareAndSet   *)
(* on the record version; every operation of ReservationService is an      *)
(* asynchronous function that reads the record, awaits transports and      *)
(* commits what it derived from the version it read.  A worker is one such *)
(* invocation, in this process or in another; a step of a worker is the    *)
(* code between two awaits.                                                *)
(*                                                                         *)
(* Versions are abstracted: wk[w].fresh says that the version worker w     *)
(* holds is still the stored one, so that every write makes every other    *)
(* worker stale.  What a fresh worker holds is the stored record itself,   *)
(* and what a stale one holds matters only through its pc, because its     *)
(* commit fails whatever it wrote.                                         *)
(***************************************************************************)
EXTENDS Naturals, FiniteSets

CONSTANTS
  Worker,      \* invocations that may be under way at once
  Tx,          \* client-frozen transactions, each with its signed payload
  Option,      \* the options of the offer, among "USDC" and "HBAR"
  None,        \* no value
  MaxCrashes   \* how many invocations may die or throw at an await

ASSUME ReservationAssumption ==
  /\ Option \subseteq {"USDC", "HBAR"}
  /\ None \notin Tx \cup Option
  /\ MaxCrashes \in Nat

VARIABLES
  rec,        \* the durable ReservationRecord, or None before it is created
  wk,         \* what each worker is about to do
  sent,       \* transactions the facilitator has been given
  ledger,     \* what the network did with each transaction
  window,     \* validity window of each transaction: valid, expired, past
  late,       \* the record's confirmationDeadline has passed
  expired,    \* the offer's expiresAt has passed
  settles,    \* settle calls for each transaction while it could still land
  publishes,  \* publish calls made for this reservation
  topic,      \* ROUTE_RESERVED messages of this reservation on the topic
  crashes,
  denied      \* the lock was refused to a commit of PAYMENT_CONFIRMED

vars == <<rec, wk, sent, ledger, window, late, expired, settles, publishes,
          topic, crashes, denied>>

PostReservation ==
  {"ROUTE_RESERVED", "WEBHOOKS_DISPATCHED", "WEBHOOK_DELIVERY_FAILED",
   "HCS_EVIDENCE_RECORDED", "HCS_EVIDENCE_FAILED", "COMPLETED"}

PaymentFailure ==
  {"PAYMENT_REJECTED", "SETTLEMENT_FAILED", "CONFIRMATION_TIMED_OUT",
   "CONFIRMATION_FAILED", "MANUAL_REVIEW_REQUIRED"}

(* EXPIRED has no writer in the code and is left out of every state set.   *)
State ==
  {"OFFER_CREATED", "OPTION_SELECTED", "PAYMENT_CHALLENGE_ISSUED",
   "PAYMENT_SUBMISSION_STARTED", "FACILITATOR_VERIFIED",
   "FACILITATOR_SETTLE_CLAIMED", "FACILITATOR_SETTLED",
   "MIRROR_CONFIRMATION_PENDING", "PAYMENT_CONFIRMED"}
  \cup PostReservation \cup PaymentFailure

(* LEGAL of state-machine.ts, with the guarded recovery transitions.       *)
LegalFrom(s) ==
  CASE s = "OFFER_CREATED" -> {"OPTION_SELECTED"}
    [] s = "OPTION_SELECTED" -> {"PAYMENT_CHALLENGE_ISSUED"}
    [] s = "PAYMENT_CHALLENGE_ISSUED" ->
         {"PAYMENT_SUBMISSION_STARTED", "PAYMENT_REJECTED"}
    [] s = "PAYMENT_SUBMISSION_STARTED" ->
         {"FACILITATOR_VERIFIED", "PAYMENT_REJECTED", "SETTLEMENT_FAILED",
          "MANUAL_REVIEW_REQUIRED"}
    [] s = "FACILITATOR_VERIFIED" ->
         {"FACILITATOR_SETTLE_CLAIMED", "SETTLEMENT_FAILED",
          "MANUAL_REVIEW_REQUIRED"}
    [] s = "FACILITATOR_SETTLE_CLAIMED" ->
         {"FACILITATOR_SETTLED", "SETTLEMENT_FAILED", "MANUAL_REVIEW_REQUIRED"}
    [] s = "FACILITATOR_SETTLED" -> {"MIRROR_CONFIRMATION_PENDING"}
    [] s = "MIRROR_CONFIRMATION_PENDING" ->
         {"PAYMENT_CONFIRMED", "CONFIRMATION_TIMED_OUT",
          "CONFIRMATION_FAILED", "MANUAL_REVIEW_REQUIRED"}
    [] s = "PAYMENT_CONFIRMED" -> {"ROUTE_RESERVED"}
    [] s = "ROUTE_RESERVED" ->
         {"WEBHOOKS_DISPATCHED", "WEBHOOK_DELIVERY_FAILED",
          "HCS_EVIDENCE_RECORDED", "HCS_EVIDENCE_FAILED"}
    [] s = "WEBHOOKS_DISPATCHED" ->
         {"HCS_EVIDENCE_RECORDED", "HCS_EVIDENCE_FAILED"}
    [] s = "WEBHOOK_DELIVERY_FAILED" ->
         {"WEBHOOKS_DISPATCHED", "HCS_EVIDENCE_RECORDED", "HCS_EVIDENCE_FAILED"}
    [] s = "HCS_EVIDENCE_RECORDED" -> {"COMPLETED"}
    [] s = "HCS_EVIDENCE_FAILED" -> {"HCS_EVIDENCE_RECORDED", "COMPLETED"}
    [] s \in {"PAYMENT_REJECTED", "SETTLEMENT_FAILED"} -> {"OFFER_CREATED"}
    [] s = "CONFIRMATION_TIMED_OUT" ->
         {"MIRROR_CONFIRMATION_PENDING", "MANUAL_REVIEW_REQUIRED"}
    [] OTHER -> {}

(* assertLegalTransition does not throw.                                   *)
Legal(from, to) == from = to \/ to \in LegalFrom(from)

-----------------------------------------------------------------------------
(* The durable record and the validator every write and read goes through. *)

Record ==
  [state   : State,
   sel     : Option \cup {None},             \* selected option
   chal    : BOOLEAN,                        \* paymentChallenge issued
   pay     : Tx \cup {None},                 \* paymentPayloadHash, clientTransaction
   verify  : {"none", "ok", "bad"},          \* facilitatorVerify
   claim   : Tx \cup {None},                 \* settleClaim
   settle  : {"none", "ok", "bad"},          \* facilitatorSettle
   tx      : Tx \cup {None},                 \* transactionId
   mirror  : {"none", "SUCCESS", "other"},   \* mirrorConfirmation
   poll    : BOOLEAN,                        \* mirrorPoll, confirmationDeadline
   reserved: BOOLEAN,                        \* routeReserved
   events  : BOOLEAN,                        \* both webhook events persisted
   hcs     : {"none", "CLAIMED", "RESOLVING", "PUBLISHED",
              "MANUAL_REVIEW_REQUIRED", "FAILED_CONCLUSIVE"},
   failure : {"none", "CONCLUSIVELY_FAILED", "other"}]

ASSUME NoRecordAssumption == None \notin Record

NewRecord ==
  [state |-> "OFFER_CREATED", sel |-> None, chal |-> FALSE, pay |-> None,
   verify |-> "none", claim |-> None, settle |-> "none", tx |-> None,
   mirror |-> "none", poll |-> FALSE, reserved |-> FALSE, events |-> FALSE,
   hcs |-> "none", failure |-> "none"]

RequiresMirrorSuccess == PostReservation \cup {"PAYMENT_CONFIRMED"}

RequiresMirrorPoll ==
  RequiresMirrorSuccess \cup
  {"MIRROR_CONFIRMATION_PENDING", "CONFIRMATION_TIMED_OUT", "CONFIRMATION_FAILED"}

RequiresSettledTx == RequiresMirrorPoll \cup {"FACILITATOR_SETTLED"}

RequiresSettleClaim ==
  RequiresSettledTx \cup {"FACILITATOR_SETTLE_CLAIMED", "SETTLEMENT_FAILED"}

RequiresVerifyOk == RequiresSettleClaim \cup {"FACILITATOR_VERIFIED"}

RequiresPayload == RequiresVerifyOk \cup {"PAYMENT_SUBMISSION_STARTED"}

RequiresChallenge ==
  RequiresPayload \cup {"PAYMENT_CHALLENGE_ISSUED", "PAYMENT_REJECTED"}

ValidSelection(r) ==
  /\ r.state \in RequiresChallenge \cup {"OPTION_SELECTED"} => r.sel # None
  /\ r.state \in RequiresChallenge => r.chal
  /\ r.chal => r.sel # None

ValidPayment(r) ==
  /\ r.state \in RequiresPayload => r.pay # None
  /\ r.pay # None /\ r.tx # None => r.tx = r.pay
  /\ r.state \in RequiresVerifyOk => r.verify = "ok"

ValidClaim(r) ==
  /\ r.state \in RequiresSettleClaim => r.claim # None
  /\ r.claim # None => /\ r.sel # None /\ r.chal
                       /\ r.claim = r.pay
                       /\ r.tx # None => r.tx = r.claim

ValidSettlement(r) ==
  /\ r.state \in RequiresSettledTx => r.tx # None
  /\ r.state = "FACILITATOR_SETTLED" => r.settle = "ok"
  /\ r.state \in RequiresMirrorPoll => r.poll
  /\ r.state \in RequiresMirrorSuccess => r.mirror = "SUCCESS"

ValidReservation(r) ==
  /\ r.reserved <=> r.state \in PostReservation
  /\ r.events => r.reserved

ValidOutbox(r) == r.hcs # "none" => r.reserved

(* assertValidPersistedReservationRecord does not throw.                   *)
Valid(r) ==
  /\ ValidSelection(r)
  /\ ValidPayment(r)
  /\ ValidClaim(r)
  /\ ValidSettlement(r)
  /\ ValidReservation(r)
  /\ ValidOutbox(r)

To(r, s) == [r EXCEPT !.state = s]
Fail(r, s, code) == [r EXCEPT !.state = s, !.failure = code]

-----------------------------------------------------------------------------
(* Workers and the store.                                                  *)

Idle == [pc |-> "idle", fresh |-> FALSE, t |-> None, full |-> FALSE,
         hs |-> "none"]

(* The worker holds the stored record and goes on at pc.                   *)
At(w, pc) == [wk[w] EXCEPT !.pc = pc, !.fresh = TRUE]

Begin(w, t, pc) == [Idle EXCEPT !.pc = pc, !.fresh = TRUE, !.t = t]

Go(w, k) == wk' = [wk EXCEPT ![w] = k] /\ UNCHANGED rec

(* compareAndSet with the current version: everyone else becomes stale.    *)
Write(w, next, k) ==
  /\ rec' = next
  /\ wk' = [v \in Worker |-> IF v = w THEN k
                             ELSE [wk[v] EXCEPT !.fresh = FALSE]]

(* commit: throws on a version conflict and on a record that is not valid. *)
(* It throws too when the lock file of the record is there, LOCK_HELD or   *)
(* LOCK_AMBIGUOUS after one try; wherever nothing catches that, it ends    *)
(* the invocation with the record as it was, and Crash stands for it.      *)
Commit(w, next, k) ==
  IF wk[w].fresh /\ Valid(next) THEN Write(w, next, k) ELSE Go(w, Idle)

(* commitOrConflict: a conflict continues with the latest record instead.  *)
CommitOrConflict(w, next, k, onConflict) ==
  IF wk[w].fresh THEN Commit(w, next, k) ELSE Go(w, onConflict)

world == <<sent, ledger, window, late, expired, settles, publishes, topic,
           crashes, denied>>

-----------------------------------------------------------------------------
(* Creation, selection and challenge.                                      *)

Reads(w) == wk[w].pc = "idle" /\ rec # None

(* createReservation: an existing record with the same fingerprint is      *)
(* returned, another one is a CONFLICT; only the first create writes.      *)
Create(w) ==
  /\ rec = None
  /\ rec' = NewRecord
  /\ UNCHANGED <<wk, world>>

(* selectOption: locked states and an existing selection never get here.   *)
SelectRead(w, o) ==
  /\ Reads(w)
  /\ rec.state = "OFFER_CREATED" /\ rec.sel = None /\ ~expired
  /\ Go(w, Begin(w, None, IF o = "USDC" THEN "selectUsdc" ELSE "selectHbar"))
  /\ UNCHANGED world

SelectCommit(w) ==
  /\ wk[w].pc \in {"selectUsdc", "selectHbar"}
  /\ LET o == IF wk[w].pc = "selectUsdc" THEN "USDC" ELSE "HBAR"
     IN  Commit(w, [rec EXCEPT !.sel = o, !.state = "OPTION_SELECTED"], Idle)
  /\ UNCHANGED world

(* issueChallenge: a durable challenge is returned and never issued again. *)
ChallengeRead(w) ==
  /\ Reads(w)
  /\ rec.sel # None /\ ~rec.chal
  /\ Go(w, Begin(w, None, "challenge"))
  /\ UNCHANGED world

ChallengeCommit(w) ==
  /\ wk[w].pc = "challenge"
  /\ CommitOrConflict(w, [rec EXCEPT !.chal = TRUE,
                                     !.state = "PAYMENT_CHALLENGE_ISSUED"],
                      Idle, Idle)
  /\ UNCHANGED world

-----------------------------------------------------------------------------
(* submitPayment up to the settlement.                                     *)

(* The call of facilitator.verify hands over the signed payload.           *)
Transmit(t) == sent' = sent \cup {t}

(* Everything submitPayment checks before its first await.  A state        *)
(* FACILITATOR_VERIFIED is not compared with the payload that was verified *)
(* and reaches the claim with the caller's transaction.                    *)
SubmitRead(w, t) ==
  /\ Reads(w)
  /\ rec.state \notin PaymentFailure /\ ~rec.reserved
  /\ rec.chal /\ rec.claim \in {None, t}
  /\ \/ /\ rec.state = "PAYMENT_CHALLENGE_ISSUED"
        /\ Go(w, Begin(w, t, "start"))
        /\ UNCHANGED sent
     \/ /\ rec.state = "PAYMENT_SUBMISSION_STARTED" /\ rec.pay = t
        /\ Go(w, Begin(w, t, "verify"))
        /\ Transmit(t)
     \/ /\ rec.state = "FACILITATOR_VERIFIED"
        /\ Go(w, Begin(w, t, "claim"))
        /\ UNCHANGED sent
     \/ /\ rec.settle = "ok"
        /\ rec.state \in {"FACILITATOR_SETTLED", "MIRROR_CONFIRMATION_PENDING"}
        /\ Go(w, Begin(w, t, IF rec.state = "FACILITATOR_SETTLED"
                             THEN "open" ELSE "loop"))
        /\ UNCHANGED sent
  /\ UNCHANGED <<ledger, window, late, expired, settles, publishes, topic, crashes, denied>>

(* PAYMENT_SUBMISSION_STARTED is durable before anything is transmitted.   *)
StartCommit(w) ==
  /\ wk[w].pc = "start"
  /\ LET t == wk[w].t
         next == [rec EXCEPT !.pay = t, !.state = "PAYMENT_SUBMISSION_STARTED"]
     IN  /\ CommitOrConflict(w, next, At(w, "verify"), Idle)
         /\ IF wk[w].fresh THEN Transmit(t) ELSE UNCHANGED sent
  /\ UNCHANGED <<ledger, window, late, expired, settles, publishes, topic, crashes, denied>>

VerifyReturn(w) ==
  /\ wk[w].pc = "verify"
  /\ \/ CommitOrConflict(w, [rec EXCEPT !.verify = "ok",
                                        !.state = "FACILITATOR_VERIFIED"],
                         At(w, "claim"), Idle)
     \/ Commit(w, [rec EXCEPT !.verify = "bad", !.failure = "other",
                              !.state = "PAYMENT_REJECTED"], Idle)
  /\ UNCHANGED world

(* Mutant: the loser of the claim settles too.                             *)
ClaimLoserSettles(w) ==
  /\ wk[w].pc = "claim"
  /\ CommitOrConflict(w, [rec EXCEPT !.claim = wk[w].t,
                                     !.state = "FACILITATOR_SETTLE_CLAIMED"],
                      At(w, "settle"), At(w, "settle"))
  /\ UNCHANGED world

(* The durable settle claim: whoever writes it, and nobody else, settles.  *)
ClaimCommit(w) ==
  /\ wk[w].pc = "claim"
  /\ CommitOrConflict(w, [rec EXCEPT !.claim = wk[w].t,
                                     !.state = "FACILITATOR_SETTLE_CLAIMED"],
                      At(w, "settle"), Idle)
  /\ UNCHANGED world

SettleCall(w) ==
  /\ wk[w].pc = "settle"
  /\ settles' = [settles EXCEPT ![wk[w].t] = IF window[wk[w].t] = "past" THEN @ ELSE @ + 1]
  /\ Transmit(wk[w].t)
  /\ wk' = [wk EXCEPT ![w].pc = "settling"]
  /\ UNCHANGED <<rec, ledger, window, late, expired, publishes, topic, crashes, denied>>

(* The facilitator's answer: refused, of another transaction, of another   *)
(* network or payer, or a success that names the claimed transaction or    *)
(* none.  A thrown error is a crash of the worker.                         *)
SettleReturn(w) ==
  /\ wk[w].pc = "settling"
  /\ \/ Commit(w, Fail([rec EXCEPT !.settle = "bad"], "SETTLEMENT_FAILED",
                       "other"), Idle)
     \/ Commit(w, Fail([rec EXCEPT !.settle = "ok"], "MANUAL_REVIEW_REQUIRED",
                       "other"), Idle)
     \/ Commit(w, Fail([rec EXCEPT !.settle = "ok"], "SETTLEMENT_FAILED",
                       "other"), Idle)
     \/ Commit(w, [rec EXCEPT !.settle = "ok", !.tx = wk[w].t,
                              !.state = "FACILITATOR_SETTLED"], At(w, "open"))
  /\ UNCHANGED world

-----------------------------------------------------------------------------
(* Mirror confirmation and the reservation itself.                         *)

(* The durable deadline, set once when the state is still FACILITATOR_     *)
(* SETTLED and reused by whoever resumes.                                  *)
MirrorOpen(w) ==
  /\ wk[w].pc = "open"
  /\ CommitOrConflict(w, [rec EXCEPT !.poll = TRUE,
                                     !.state = "MIRROR_CONFIRMATION_PENDING"],
                      At(w, "loop"), At(w, "loop"))
  /\ late' = IF wk[w].fresh THEN FALSE ELSE late
  /\ UNCHANGED <<sent, ledger, window, expired, settles, publishes, topic, crashes, denied>>

(* The head of the loop re-reads the record and stops when another worker  *)
(* has taken it further or the transaction is no longer this one.          *)
LoopRead(w) ==
  /\ wk[w].pc = "loop"
  /\ IF /\ rec.tx = wk[w].t
        /\ rec.state \in {"MIRROR_CONFIRMATION_PENDING", "FACILITATOR_SETTLED"}
     THEN Go(w, At(w, "poll")) ELSE Go(w, Idle)
  /\ UNCHANGED world

OnLedger == {"success", "extraLeg", "short"}

MirrorStatus(t) ==
  IF ledger[t] \in OnLedger THEN "SUCCESS"
  ELSE IF ledger[t] = "failed" THEN "FAILED" ELSE "NOT_FOUND"

(* verifyHbar tolerates HBAR legs of other accounts, which it takes for    *)
(* fees; verifyUsdc tolerates no third leg of the token.  Both want one    *)
(* exact leg for the payer and one for the carrier.                        *)
VerifyHbar(t) == ledger[t] \in {"success", "extraLeg"}
VerifyUsdc(t) == ledger[t] = "success"

VerifyMirrorPayment(o, t) == IF o = "HBAR" THEN VerifyHbar(t) ELSE VerifyUsdc(t)

(* Mutant: a Mirror SUCCESS confirms whatever was transferred.             *)
AfterPollUnverified(w, r, s) ==
  IF s = "SUCCESS" /\ Legal(r.state, "PAYMENT_CONFIRMED") THEN At(w, "confirm")
  ELSE IF late /\ Legal(r.state, "CONFIRMATION_TIMED_OUT") THEN At(w, "timeout")
  ELSE IF late THEN Idle ELSE At(w, "loop")

(* Where the loop goes with status s once its poll is recorded and it      *)
(* holds record r: an illegal transition throws.  A transaction the Mirror *)
(* shows has its consensus timestamp: the refusal of one without it has    *)
(* nothing to refuse.                                                      *)
AfterPoll(w, r, s) ==
  LET failed == IF r.reserved \/ ~Legal(r.state, "CONFIRMATION_FAILED")
                THEN Idle ELSE At(w, "mfail")
  IN  CASE s = "FAILED" -> failed
        [] s = "SUCCESS" ->
             IF VerifyMirrorPayment(r.sel, wk[w].t) /\ Legal(r.state, "PAYMENT_CONFIRMED")
             THEN At(w, "confirm") ELSE failed
        [] OTHER ->
             IF ~late THEN At(w, "loop")
             ELSE IF Legal(r.state, "CONFIRMATION_TIMED_OUT")
                  THEN At(w, "timeout") ELSE Idle

(* One Mirror lookup and the commit of its poll record; a transport error  *)
(* counts as an inconclusive status.                                       *)
PollReturn(w) ==
  /\ wk[w].pc = "poll"
  /\ \E s \in {MirrorStatus(wk[w].t), "TRANSPORT_ERROR"} :
       LET m == IF s = "SUCCESS" THEN "SUCCESS" ELSE "other"
           next == IF s = "TRANSPORT_ERROR" THEN rec ELSE [rec EXCEPT !.mirror = m]
       IN  CommitOrConflict(w, next, AfterPoll(w, next, s), AfterPoll(w, rec, s))
  /\ UNCHANGED world

ConfirmCommit(w) ==
  /\ wk[w].pc = "confirm"
  /\ Commit(w, [rec EXCEPT !.mirror = "SUCCESS", !.state = "PAYMENT_CONFIRMED"],
            At(w, "reserve"))
  /\ UNCHANGED world

(* The lock of the record is refused to that commit: another process is    *)
(* inside compareAndSet, or left its lock file.  The commit stands in the  *)
(* try block of the verification, so the error is taken for a payment that *)
(* does not verify, and the next commit says so where that is legal.       *)
ConfirmDenied(w) ==
  /\ wk[w].pc = "confirm"
  /\ wk' = [wk EXCEPT ![w] = IF Legal(rec.state, "CONFIRMATION_FAILED")
                             THEN [@ EXCEPT !.pc = "mfail"] ELSE Idle]
  /\ denied' = TRUE
  /\ UNCHANGED <<rec, sent, ledger, window, late, expired, settles, publishes, topic, crashes>>

(* A conflict thrown inside the try block is rewritten as a failed         *)
(* confirmation of the version the worker holds, which is stale.           *)
ConfirmationFailed(w) ==
  /\ wk[w].pc = "mfail"
  /\ Commit(w, Fail(rec, "CONFIRMATION_FAILED", "other"), Idle)
  /\ UNCHANGED world

TimeoutCommit(w) ==
  /\ wk[w].pc = "timeout"
  /\ Commit(w, Fail(rec, "CONFIRMATION_TIMED_OUT", "other"), Idle)
  /\ UNCHANGED world

(* routeReserved and ROUTE_RESERVED in one commit of their own, after the  *)
(* commit of PAYMENT_CONFIRMED.                                            *)
ReserveCommit(w) ==
  /\ wk[w].pc = "reserve"
  /\ Commit(w, [rec EXCEPT !.reserved = TRUE, !.state = "ROUTE_RESERVED"],
            [At(w, "events") EXCEPT !.full = TRUE])
  /\ UNCHANGED world

-----------------------------------------------------------------------------
(* Resuming, reconciling, and replacing a payment.                         *)

(* assessTimedOutConfirmationRecovery: an adopted payment, which has no    *)
(* facilitator settlement on record, does not pass.                        *)
RecoverableTimeout(r) ==
  r.tx # None /\ r.sel # None /\ r.claim # None /\ r.settle = "ok" /\ r.claim = r.pay

(* Where a worker goes that asks for the payment of record r to be         *)
(* resumed or reconciled; "idle" where the code returns or throws.         *)
ResumePc(r) ==
  IF r.reserved THEN "idle"
  ELSE CASE r.state = "FACILITATOR_SETTLE_CLAIMED" -> "lookup"
         [] r.state = "CONFIRMATION_TIMED_OUT" -> "retry"
         [] r.state = "FACILITATOR_SETTLED" -> "open"
         [] r.state = "MIRROR_CONFIRMATION_PENDING" -> "loop"
         [] OTHER -> "idle"

ResumeAs(w, pc) == IF pc = "idle" THEN Idle ELSE Begin(w, rec.pay, pc)

(* resumePaymentConfirmation; reconcilePayment takes these states here too.*)
ResumeRead(w) ==
  /\ Reads(w)
  /\ ResumePc(rec) # "idle"
  /\ Go(w, ResumeAs(w, ResumePc(rec)))
  /\ UNCHANGED world

(* reconcilePayment of a payload that was sent but has no settle claim.    *)
ReconcileRead(w) ==
  /\ Reads(w)
  /\ rec.state \in {"PAYMENT_SUBMISSION_STARTED", "FACILITATOR_VERIFIED"}
  /\ Go(w, Begin(w, rec.pay, "lookup"))
  /\ UNCHANGED world

(* reconcilePayment has adopted the transaction and resumes.               *)
ResumeAgain(w) ==
  /\ wk[w].pc = "resume"
  /\ Go(w, ResumeAs(w, ResumePc(rec)))
  /\ UNCHANGED world

(* recoverTimedOutConfirmation: a new deadline for the same transaction.   *)
RetryCommit(w) ==
  /\ wk[w].pc = "retry"
  /\ IF RecoverableTimeout(rec)
     THEN /\ Commit(w, Fail(rec, "MIRROR_CONFIRMATION_PENDING", "none"), At(w, "loop"))
          /\ late' = IF wk[w].fresh THEN FALSE ELSE late
     ELSE /\ Commit(w, Fail(rec, "MANUAL_REVIEW_REQUIRED", "other"), Idle)
          /\ UNCHANGED late
  /\ UNCHANGED <<sent, ledger, window, expired, settles, publishes, topic, crashes, denied>>

(* recoverInProgressState with the transaction found on the ledger.        *)
Adopt(r) ==
  [r EXCEPT !.tx = r.claim, !.poll = TRUE, !.state = "MIRROR_CONFIRMATION_PENDING"]

(* Mutant: the safety buffer is left out.                                  *)
BoundaryWithoutBuffer(t) == window[t] # "valid"

(* The last instant at which the network may take t, plus the buffer, has  *)
(* gone by: conclusiveFailureBoundaryMs.                                   *)
BoundaryElapsed(t) == window[t] = "past"

FailureState(r) ==
  IF r.state = "PAYMENT_SUBMISSION_STARTED" THEN "PAYMENT_REJECTED" ELSE "SETTLEMENT_FAILED"

(* What an exact lookup of the transaction concludes in the states that    *)
(* reconcilePayment accepts.  After FACILITATOR_VERIFIED the failure state *)
(* needs a settle claim that is not there, and the write throws.           *)
LookupReturn(w) ==
  /\ wk[w].pc = "lookup"
  /\ LET t == wk[w].t
         s == MirrorStatus(t)
         claimed == rec.state = "FACILITATOR_SETTLE_CLAIMED"
     IN  \/ /\ s = "SUCCESS" /\ claimed
            /\ Commit(w, Adopt(rec), At(w, "resume"))
            /\ late' = IF wk[w].fresh THEN FALSE ELSE late
         \/ /\ s = "SUCCESS" /\ ~claimed
            /\ Commit(w, Fail(rec, "MANUAL_REVIEW_REQUIRED", "other"), Idle)
            /\ UNCHANGED late
         \/ /\ s = "FAILED"
            /\ Commit(w, Fail([rec EXCEPT !.mirror = IF claimed THEN "other" ELSE @],
                              FailureState(rec), "other"), Idle)
            /\ UNCHANGED late
         \/ /\ s = "NOT_FOUND"
            /\ IF BoundaryElapsed(t)
               THEN Commit(w, Fail(rec, FailureState(rec), "CONCLUSIVELY_FAILED"), Idle)
               ELSE Go(w, Idle)
            /\ UNCHANGED late
  /\ UNCHANGED <<sent, ledger, window, expired, settles, publishes, topic, crashes, denied>>

(* reconcile-payment.ts --apply: the same lookup in every state that has a *)
(* payload and no reservation, and its outcome is written whether or not   *)
(* the state machine has the transition.                                   *)
ScriptRead(w) ==
  /\ Reads(w)
  /\ ~rec.reserved /\ rec.pay # None
  /\ Go(w, Begin(w, rec.pay, "script"))
  /\ UNCHANGED world

ScriptReturn(w) ==
  /\ wk[w].pc = "script"
  /\ LET t == wk[w].t
         s == MirrorStatus(t)
         adopts == s = "SUCCESS" /\ VerifyMirrorPayment(rec.sel, t)
                   /\ rec.tx = None /\ rec.state = "FACILITATOR_SETTLE_CLAIMED"
     IN  /\ CASE adopts -> Commit(w, Adopt(rec), Idle)
              [] s = "FAILED" -> Commit(w, Fail(rec, FailureState(rec), "other"), Idle)
              [] s = "NOT_FOUND" /\ BoundaryElapsed(t) ->
                   Commit(w, Fail(rec, FailureState(rec), "CONCLUSIVELY_FAILED"), Idle)
              [] OTHER -> Go(w, Idle)
         /\ late' = IF adopts /\ wk[w].fresh THEN FALSE ELSE late
  /\ UNCHANGED <<sent, ledger, window, expired, settles, publishes, topic, crashes, denied>>

(* authorizeReplacementAttempt: back to OFFER_CREATED with no payment.     *)
ReplaceRead(w) ==
  /\ Reads(w)
  /\ rec.state \in {"SETTLEMENT_FAILED", "PAYMENT_REJECTED"}
  /\ rec.failure = "CONCLUSIVELY_FAILED" /\ ~expired
  /\ Go(w, Begin(w, None, "replace"))
  /\ UNCHANGED world

ReplaceCommit(w) ==
  /\ wk[w].pc = "replace"
  /\ Commit(w, NewRecord, Idle)
  /\ UNCHANGED world

-----------------------------------------------------------------------------
(* After the reservation: webhooks.                                        *)

Dispatchable == {"ROUTE_RESERVED", "WEBHOOK_DELIVERY_FAILED"}
EvidencePending == {"ROUTE_RESERVED", "WEBHOOKS_DISPATCHED", "WEBHOOK_DELIVERY_FAILED"}
Recordable == EvidencePending \cup {"HCS_EVIDENCE_FAILED"}

(* The rest of a confirmation that got this far with record r: COMPLETED   *)
(* closes a run that began with the payment, and no other.                 *)
After(w, r) ==
  IF wk[w].full /\ r.state \in {"HCS_EVIDENCE_RECORDED", "HCS_EVIDENCE_FAILED"}
  THEN At(w, "complete") ELSE Idle

(* publishHcsEvidence up to its first await, with record r.  A published   *)
(* record has its state already (persistHcsPublished writes both), so that *)
(* ensureHcsRecordedState finds nothing to do.                             *)
HcsGo(w, r) ==
  CASE r.hcs = "PUBLISHED" -> After(w, r)
    [] r.hcs = "none" -> At(w, "hclaim")
    [] r.hcs \in {"MANUAL_REVIEW_REQUIRED", "FAILED_CONCLUSIVE"} ->
         [At(w, "hfail") EXCEPT !.hs = r.hcs]
    [] r.hcs = "RESOLVING" -> At(w, "resolver")
    [] r.hcs = "CLAIMED" -> At(w, "hresolving")

(* ensureWebhookEventsPersisted: both events before any delivery.          *)
EventsCommit(w) ==
  /\ wk[w].pc = "events"
  /\ CommitOrConflict(w, [rec EXCEPT !.events = TRUE], At(w, "deliver"),
                      IF rec.events THEN At(w, "deliver") ELSE Idle)
  /\ UNCHANGED world

(* deliverPersistedWebhooks: the calls may fail, the loser of the commit   *)
(* goes on with what the winner stored.                                    *)
Delivered(r, ok) ==
  IF ok /\ r.state \in Dispatchable THEN To(r, "WEBHOOKS_DISPATCHED")
  ELSE IF ~ok /\ r.state = "ROUTE_RESERVED" THEN To(r, "WEBHOOK_DELIVERY_FAILED")
  ELSE r

DeliverReturn(w) ==
  /\ wk[w].pc = "deliver"
  /\ \E ok \in BOOLEAN :
       LET next == Delivered(rec, ok)
           then(r) == IF wk[w].full THEN HcsGo(w, r) ELSE Idle
       IN  CommitOrConflict(w, next, then(next), then(rec))
  /\ UNCHANGED world

(* resumeWebhookDispatch and retryWebhooks.                                *)
WebhooksRead(w) ==
  /\ Reads(w)
  /\ rec.reserved
  /\ Go(w, Begin(w, None, IF rec.events THEN "deliver" ELSE "events"))
  /\ UNCHANGED world

-----------------------------------------------------------------------------
(* After the reservation: the HCS outbox.                                  *)

(* resumeHcsPublication.                                                   *)
HcsRead(w) ==
  /\ Reads(w)
  /\ rec.reserved
  /\ Go(w, HcsGo(w, rec))
  /\ UNCHANGED world

HcsFailed(r, hs) ==
  [r EXCEPT !.hcs = IF hs = "none" THEN @ ELSE hs,
            !.state = IF @ \in EvidencePending THEN "HCS_EVIDENCE_FAILED" ELSE @]

(* finishHcsFailed.                                                        *)
FinishHcsFailed(w, hs) ==
  LET next == HcsFailed(rec, hs)
  IN  CommitOrConflict(w, next, After(w, next), After(w, rec))

(* claimAndPublishHcs: the claim is durable before the call, and the loser *)
(* of the claim neither publishes nor resolves.                            *)
HcsClaim(w) ==
  /\ wk[w].pc = "hclaim"
  /\ \/ CommitOrConflict(w, [rec EXCEPT !.hcs = "CLAIMED"], At(w, "publish"),
                         IF rec.hcs = "PUBLISHED" THEN HcsGo(w, rec) ELSE After(w, rec))
     \/ FinishHcsFailed(w, "none")
  /\ UNCHANGED world

HcsPublish(w) ==
  /\ wk[w].pc = "publish"
  /\ publishes' = publishes + 1
  /\ wk' = [wk EXCEPT ![w].pc = "publishing"]
  /\ UNCHANGED <<rec, sent, ledger, window, late, expired, settles, topic, crashes, denied>>

(* The publisher answers with a receipt once the Mirror shows the message; *)
(* anything else, a timeout of that wait too, is thrown.                   *)
publish == {"THROWN"} \cup (IF topic > 0 THEN {"RECEIPT"} ELSE {})

(* A receipt is recorded unless it does not validate; what is thrown       *)
(* leaves the outcome unknown.                                             *)
HcsPublishReturn(w) ==
  /\ wk[w].pc = "publishing"
  /\ \/ "RECEIPT" \in publish /\ wk' = [wk EXCEPT ![w].pc = "hpub"]
     \/ /\ "RECEIPT" \in publish
        /\ wk' = [wk EXCEPT ![w].pc = "hfail", ![w].hs = "FAILED_CONCLUSIVE"]
     \/ "THROWN" \in publish /\ wk' = [wk EXCEPT ![w].pc = "hresolving"]
  /\ UNCHANGED <<rec, world>>

(* persistHcsPublished.                                                    *)
HcsPublished(w) ==
  /\ wk[w].pc = "hpub"
  /\ LET next == [rec EXCEPT !.hcs = "PUBLISHED",
                             !.state = IF @ \in Recordable THEN "HCS_EVIDENCE_RECORDED"
                                       ELSE @]
     IN  CommitOrConflict(w, next, After(w, next), After(w, rec))
  /\ UNCHANGED world

(* resolveAmbiguousHcsClaim: whoever meets a conflict starts over with the *)
(* latest record, and nobody publishes again.                              *)
HcsResolving(w) ==
  /\ wk[w].pc = "hresolving"
  /\ CommitOrConflict(w, [rec EXCEPT !.hcs = "RESOLVING"], At(w, "resolver"),
                      HcsGo(w, rec))
  /\ UNCHANGED world

(* The resolver reads the topic through the Mirror, which may be behind or *)
(* not answer; its verdict that nothing is there is called conclusive.     *)
resolvePublication ==
  {"NOT_FOUND_CONCLUSIVE", "AMBIGUOUS"} \cup (IF topic > 0 THEN {"FOUND"} ELSE {})

(* A message that was found is recorded, unless its data do not validate.  *)
HcsResolved(w) ==
  LET failed(hs) == wk' = [wk EXCEPT ![w].pc = "hfail", ![w].hs = hs]
  IN /\ wk[w].pc = "resolver"
     /\ \/ "FOUND" \in resolvePublication /\ wk' = [wk EXCEPT ![w].pc = "hpub"]
        \/ "FOUND" \in resolvePublication /\ failed("FAILED_CONCLUSIVE")
        \/ "AMBIGUOUS" \in resolvePublication /\ failed("MANUAL_REVIEW_REQUIRED")
        \/ "NOT_FOUND_CONCLUSIVE" \in resolvePublication /\ failed("CLAIMED")
     /\ UNCHANGED <<rec, world>>

HcsFail(w) ==
  /\ wk[w].pc = "hfail"
  /\ FinishHcsFailed(w, wk[w].hs)
  /\ UNCHANGED world

CompleteCommit(w) ==
  /\ wk[w].pc = "complete"
  /\ Commit(w, To(rec, "COMPLETED"), Idle)
  /\ UNCHANGED world

-----------------------------------------------------------------------------
(* The network, the clock and crashes.                                     *)

(* A transaction that was handed over is executed at most once and only    *)
(* within its validity window, whoever submits it.                         *)
Execute(t) ==
  /\ t \in sent /\ window[t] = "valid" /\ ledger[t] = "absent"
  /\ \E r \in {"landed", "failed"} : ledger' = [ledger EXCEPT ![t] = r]
  /\ UNCHANGED <<rec, wk, sent, window, late, expired, settles, publishes, topic, crashes, denied>>

(* The Mirror shows it, with the legs it had.                              *)
Show(t) ==
  /\ ledger[t] = "landed"
  /\ \E r \in OnLedger : ledger' = [ledger EXCEPT ![t] = r]
  /\ UNCHANGED <<rec, wk, sent, window, late, expired, settles, publishes, topic, crashes, denied>>

(* The buffer of 60 seconds is taken to cover what the Mirror lags behind. *)
WindowPasses(t) ==
  /\ t \in sent
  /\ \/ window[t] = "valid" /\ window' = [window EXCEPT ![t] = "expired"]
     \/ window[t] = "expired" /\ ledger[t] # "landed"
        /\ window' = [window EXCEPT ![t] = "past"]
  /\ UNCHANGED <<rec, wk, sent, ledger, late, expired, settles, publishes, topic, crashes, denied>>

DeadlinePasses ==
  /\ rec # None /\ rec.state = "MIRROR_CONFIRMATION_PENDING" /\ ~late
  /\ late' = TRUE
  /\ UNCHANGED <<rec, wk, sent, ledger, window, expired, settles, publishes, topic, crashes, denied>>

(* Only selectOption and authorizeReplacementAttempt ask whether the offer *)
(* has expired, and they do nothing if so: it expires between two calls,   *)
(* where one of these could be the next.                                   *)
OfferExpires ==
  /\ ~expired /\ rec # None /\ \A w \in Worker : wk[w].pc = "idle"
  /\ rec.state \in {"OFFER_CREATED", "SETTLEMENT_FAILED", "PAYMENT_REJECTED"}
  /\ expired' = TRUE
  /\ UNCHANGED <<rec, wk, sent, ledger, window, late, settles, publishes, topic, crashes, denied>>

TopicShows ==
  /\ topic < publishes
  /\ topic' = topic + 1
  /\ UNCHANGED <<rec, wk, sent, ledger, window, late, expired, settles, publishes, crashes, denied>>

(* A process dies, or a transport throws where the code has no catch: the  *)
(* invocation is over and the record stays as it was.                      *)
Crash(w) ==
  /\ wk[w].pc # "idle" /\ crashes < MaxCrashes
  /\ wk' = [wk EXCEPT ![w] = Idle]
  /\ crashes' = crashes + 1
  /\ UNCHANGED <<rec, sent, ledger, window, late, expired, settles, publishes, topic, denied>>

-----------------------------------------------------------------------------
Init ==
  /\ rec = None
  /\ wk = [w \in Worker |-> Idle]
  /\ sent = {}
  /\ ledger = [t \in Tx |-> "absent"]
  /\ window = [t \in Tx |-> "valid"]
  /\ late = FALSE
  /\ expired = FALSE
  /\ settles = [t \in Tx |-> 0]
  /\ publishes = 0
  /\ topic = 0
  /\ crashes = 0
  /\ denied = FALSE

(* The calls a client, an operator or a restart makes.                     *)
Call(w) ==
  \/ Create(w)
  \/ \E o \in Option : SelectRead(w, o)
  \/ ChallengeRead(w)
  \/ \E t \in Tx : SubmitRead(w, t)
  \/ ResumeRead(w)
  \/ ReconcileRead(w)
  \/ ScriptRead(w)
  \/ ReplaceRead(w)
  \/ WebhooksRead(w)
  \/ HcsRead(w)

(* What a call goes on to do by itself.                                    *)
Step(w) ==
  \/ SelectCommit(w) \/ ChallengeCommit(w)
  \/ StartCommit(w) \/ VerifyReturn(w) \/ ClaimCommit(w)
  \/ SettleCall(w) \/ SettleReturn(w)
  \/ MirrorOpen(w) \/ LoopRead(w) \/ PollReturn(w)
  \/ ConfirmCommit(w) \/ ConfirmDenied(w) \/ ConfirmationFailed(w) \/ TimeoutCommit(w)
  \/ ReserveCommit(w)
  \/ ResumeAgain(w) \/ RetryCommit(w) \/ LookupReturn(w) \/ ScriptReturn(w)
  \/ ReplaceCommit(w)
  \/ EventsCommit(w) \/ DeliverReturn(w)
  \/ HcsClaim(w) \/ HcsPublish(w) \/ HcsPublishReturn(w) \/ HcsPublished(w)
  \/ HcsResolving(w) \/ HcsResolved(w) \/ HcsFail(w)
  \/ CompleteCommit(w)

Environment ==
  \/ \E t \in Tx : Execute(t) \/ Show(t) \/ WindowPasses(t)
  \/ DeadlinePasses \/ OfferExpires \/ TopicShows

Next ==
  \/ \E w \in Worker : Call(w) \/ Step(w) \/ Crash(w)
  \/ Environment

Spec == Init /\ [][Next]_vars

-----------------------------------------------------------------------------
(* Properties.                                                             *)

Paid(t) == ledger[t] \in OnLedger \cup {"landed"}

(* A payment the network has taken is the payment of the record, however   *)
(* many callers submit, crash, reconcile and replace.  So a reservation    *)
(* is never paid for twice: the replacement of reconcilePayment's          *)
(* CONCLUSIVELY_FAILED comes only when the first payment can no longer     *)
(* land.                                                                   *)
PaidIsRecorded == \A t \in Tx : Paid(t) => rec.pay = t

(* The settle claim and the HCS claim make what cannot be taken back       *)
(* happen once: one settlement of a transaction that can still land, one   *)
(* call that reaches the publisher, across concurrent calls and restarts;  *)
(* and evidence recorded as published is on the topic.                     *)
OnlyOnce ==
  /\ \A t \in Tx : settles[t] <= 1
  /\ publishes <= 1
  /\ rec # None /\ rec.hcs = "PUBLISHED" => topic = 1

(* What the record says of its payment is right.  A reserved route has     *)
(* been paid, to the carrier and in full, in the asset that was selected,  *)
(* with another leg of the transfer only where it may be a fee; and        *)
(* CONFIRMATION_FAILED, from which there is no way back, is written over a *)
(* payment that would have verified in one case only: the store refused    *)
(* its lock to a commit of PAYMENT_CONFIRMED.  A Mirror that is behind or  *)
(* unreachable, or a lost commit, does not count as a failed payment.      *)
VerdictIsRight ==
  rec # None =>
    /\ rec.reserved =>
         \/ ledger[rec.tx] = "success"
         \/ ledger[rec.tx] = "extraLeg" /\ rec.sel = "HBAR"
    /\ rec.state = "CONFIRMATION_FAILED" =>
         \/ denied
         \/ ledger[rec.tx] \in {"failed", "short"}
         \/ ledger[rec.tx] = "extraLeg" /\ rec.sel = "USDC"
=============================================================================
