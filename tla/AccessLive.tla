----------------------------- MODULE AccessLive ------------------------------
(***************************************************************************)
(* Phase B2b: scripts/run-v2-access-live.ts.  Pays the two access fees,    *)
(* of the tender's activation and of a carrier's bid, to the access server *)
(* it hosts itself.  It keeps no progress file: a run begins under a new   *)
(* run id unless the server's claim journal holds a committed activation,  *)
(* and then goes on with the bid of that tender.                           *)
(*                                                                         *)
(* The bid is made with a fresh salt and signing time in every run, so its *)
(* request is never the one an earlier run made under the same action id   *)
(* (assertClaimMatches), and its body never the one that run stored        *)
(* (FileBidBodyStore.put).  The accounts hold the fees.                    *)
(***************************************************************************)
EXTENDS LiveNetwork

VARIABLES
  apc,            \* where the process is
  aRun,           \* the data directory, as far as a later run looks at it
  aHand,          \* position of a settlement not yet committed, or 0
  aSummary        \* 1 once run-summary.json says SUCCESS

accessVars == <<apc, aRun, aHand, aSummary>>

AccessWrites == {"access_activation", "access_bid"}
ClaimStates == {"NONE", "SETTLING", "SETTLED_PENDING_COMMIT", "COMMITTED", "FAILED"}

(* A run under a new id, its tender and funded record: the claims of its   *)
(* two actions, the settlement the activation was committed with, and      *)
(* whether a bid body is stored.                                           *)
NewRun == [activation |-> "NONE", tx |-> 0, bid |-> "NONE", body |-> FALSE]

AccessInit ==
  /\ apc = "idle"
  /\ aRun = NewRun
  /\ aHand = 0
  /\ aSummary = 0

AccessGoTo(pc) == apc' = pc /\ UNCHANGED <<aRun, aHand, aSummary, networkVars>>

-----------------------------------------------------------------------------
(* Mutant: every run begins under a new run id. *)
NeverResumed == FALSE

(* The run is taken up only where its activation is committed. *)
resume == aRun.activation = "COMMITTED"

(* main: the guards, the run's identity, the synthetic escrow record.  The *)
(* claims of a run that is not taken up are never looked at again.         *)
AccessStart ==
  /\ apc = "idle"
  /\ aSummary = 0
  /\ aRun' = IF resume THEN aRun ELSE NewRun
  /\ apc' = IF resume THEN "resume" ELSE "activate"
  /\ UNCHANGED <<aHand, aSummary, networkVars>>

(* The transfer of the settlement, as the Mirror Node shows it: SUCCESS, one *)
(* leg out of the payer's account and one of the same amount to the treasury. *)
verifyUsdcAccessPaymentOnMirror(i) ==
  mirrorVerifyTransaction(i) /\ ledger[i].op \in AccessWrites

(* The recorded activation is looked up once, and replayed without payment. *)
ResumeActivation ==
  /\ apc = "resume"
  /\ AccessGoTo(IF verifyUsdcAccessPaymentOnMirror(aRun.tx) THEN "bid" ELSE "idle")

(* The unpaid request is answered 402, the paid one claims the payment. *)
ActivationClaimed ==
  /\ apc = "activate"
  /\ aRun' = [aRun EXCEPT !.activation = "SETTLING"]
  /\ apc' = "settleActivation"
  /\ UNCHANGED <<aHand, aSummary, networkVars>>

(* The payment is signed, and the facilitator of the access server settles it. *)
PaymentSettled(pc, op, next) ==
  /\ apc = pc
  /\ Reach(Call(op, 0, 0))
  /\ aHand' = Len(ledger')
  /\ apc' = next
  /\ UNCHANGED <<aRun, aSummary>>

ActivationSettled ==
  PaymentSettled("settleActivation", "access_activation", "activationSettled")

ActivationRecorded ==
  /\ apc = "activationSettled"
  /\ aRun' = [aRun EXCEPT !.activation = "SETTLED_PENDING_COMMIT", !.tx = aHand]
  /\ apc' = "commitActivation"
  /\ UNCHANGED <<aHand, aSummary, networkVars>>

(* The tender is open and the claim committed: the answer is 200. *)
ActivationCommitted ==
  /\ apc = "commitActivation"
  /\ aRun' = [aRun EXCEPT !.activation = "COMMITTED"]
  /\ aHand' = 0
  /\ apc' = "verifyActivation"
  /\ UNCHANGED <<aSummary, networkVars>>

(* Shown by the Mirror Node; the replay is answered from the claim. *)
ActivationVerified ==
  /\ apc = "verifyActivation"
  /\ verifyUsdcAccessPaymentOnMirror(aRun.tx)
  /\ AccessGoTo("bid")

-----------------------------------------------------------------------------
(* The unpaid bid: 402, unless the action has a claim (of an earlier run: *)
(* ACTION_ID_CONFLICT), which ends the script.                            *)
BidUnpaid ==
  /\ apc = "bid"
  /\ AccessGoTo(IF aRun.bid = "NONE" THEN "putBody" ELSE "idle")

(* The paid bid: its body is stored, unless another one is. *)
BidStored ==
  /\ apc = "putBody"
  /\ aRun' = [aRun EXCEPT !.body = TRUE]
  /\ apc' = IF aRun.body THEN "idle" ELSE "claimBid"
  /\ UNCHANGED <<aHand, aSummary, networkVars>>

BidClaimed ==
  /\ apc = "claimBid"
  /\ aRun' = [aRun EXCEPT !.bid = "SETTLING"]
  /\ apc' = "settleBid"
  /\ UNCHANGED <<aHand, aSummary, networkVars>>

BidSettled == PaymentSettled("settleBid", "access_bid", "bidSettled")

BidRecorded ==
  /\ apc = "bidSettled"
  /\ aRun' = [aRun EXCEPT !.bid = "SETTLED_PENDING_COMMIT"]
  /\ apc' = "commitBid"
  /\ UNCHANGED <<aHand, aSummary, networkVars>>

BidCommitted ==
  /\ apc = "commitBid"
  /\ aRun' = [aRun EXCEPT !.bid = "COMMITTED"]
  /\ apc' = "verifyBid"
  /\ UNCHANGED <<aHand, aSummary, networkVars>>

(* Shown by the Mirror Node, replayed, and the evidence written. *)
AccessEvidence ==
  /\ apc = "verifyBid"
  /\ verifyUsdcAccessPaymentOnMirror(aHand)
  /\ aSummary' = 1
  /\ aHand' = 0
  /\ apc' = "idle"
  /\ UNCHANGED <<aRun, networkVars>>

-----------------------------------------------------------------------------
(* The payment is refused, and the script with it. *)
SettlementRefused ==
  /\ apc \in {"settleActivation", "settleBid"}
  /\ Halt("access", 0, FALSE)
  /\ aRun' = IF apc = "settleBid" THEN [aRun EXCEPT !.bid = "FAILED"]
                                  ELSE [aRun EXCEPT !.activation = "FAILED"]
  /\ apc' = "idle"
  /\ UNCHANGED <<aHand, aSummary>>

(* A kill, an answer that is lost, a Mirror lookup that times out. *)
AccessStops ==
  /\ apc # "idle"
  /\ Halt("access", aHand, FALSE)
  /\ apc' = "idle"
  /\ aHand' = 0
  /\ UNCHANGED <<aRun, aSummary>>

AccessProgress ==
  \/ AccessStart \/ ResumeActivation
  \/ ActivationClaimed \/ ActivationSettled \/ ActivationRecorded
  \/ ActivationCommitted \/ ActivationVerified
  \/ BidUnpaid \/ BidStored \/ BidClaimed \/ BidSettled \/ BidRecorded
  \/ BidCommitted \/ AccessEvidence

AccessNext == AccessProgress \/ SettlementRefused \/ AccessStops
==============================================================================
