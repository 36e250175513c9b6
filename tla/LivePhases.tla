----------------------------- MODULE LivePhases ------------------------------
(***************************************************************************)
(* The four live scripts run one after the other against one ledger.       *)
(* Phase B2b comes first because the operator runs it first; the evidence  *)
(* Phases C2 and D2 leave (eSummary, pSummary) is what the next one reads, *)
(* and the lifecycle file of Phase D2 is the one Phase E1 moves on.        *)
(***************************************************************************)
EXTENDS ReleaseLive, AccessLive

podLocal == <<ppc, pMem, pFile, pHand, pDry, pRuns, podStore, advisory, pSummary>>
laterVars == <<escrowVars, podVars, releaseVars>>
vars == <<networkVars, accessVars, laterVars, pinned>>

Init == NetworkInit /\ AccessInit /\ EscrowInit /\ PodInit /\ ReleaseInit

MirrorStep == MirrorShows /\ UNCHANGED <<accessVars, laterVars, pinned>>

(* An action of one script leaves the variables of the others alone. *)
OfAccess(A) == A /\ UNCHANGED <<laterVars, pinned>>
OfEscrow(A) ==
  aSummary = 1 /\ A /\ UNCHANGED <<accessVars, podVars, releaseVars, pinned>>
OfPod(A) == A /\ UNCHANGED <<accessVars, escrowVars, releaseVars, pinned>>
OfRelease(A) == A /\ UNCHANGED <<accessVars, escrowVars, podLocal, pinned>>

Next ==
  \/ OfAccess(AccessNext)
  \/ OfEscrow(EscrowNext)
  \/ OfPod(PodNext)
  \/ OfRelease(ReleaseNext)
  \/ MirrorStep

Spec == Init /\ [][Next]_vars

(* The operator runs each script again after a stop, does not rehearse    *)
(* for ever, and the Mirror Node catches up.                              *)
FairSpec ==
  /\ Spec
  /\ WF_vars(OfAccess(AccessProgress))
  /\ WF_vars(OfEscrow(EscrowProgress))
  /\ WF_vars(OfPod(PodProgress))
  /\ SF_vars(OfPod(PodStart(FALSE)))
  /\ WF_vars(OfRelease(ReleaseProgress))
  /\ WF_vars(MirrorStep)

Positions == 1..Len(ledger)
Ops == {ledger[i].op : i \in Positions}
Owner(op) == CASE op \in AccessWrites -> "access"
               [] op \in PodWrites -> "pod"
               [] op \in ReleaseWrites -> "release"
               [] OTHER -> "escrow"

(* The shape of the state. *)
TypeOK ==
  /\ shown \in 0..Len(ledger)
  /\ lost \subseteq Positions
  /\ stops \in 0..MaxStops
  /\ torn \subseteq Phases
  /\ {aRun.activation, aRun.bid} \subseteq ClaimStates
  /\ {aHand, eHand, pHand, rHand} \subseteq {0} \cup Positions
  /\ eSummary \in {0} \cup Positions
  /\ lifecycle.state \in {"NONE"} \cup PodStates \cup Released
       \cup {BootStates[i] : i \in 1..Len(BootStates)}
  /\ {aSummary, rSummary} \subseteq {0, 1}
  /\ failed \in BOOLEAN /\ pinned \subseteq {"contract", "topic"}

(* A write is repeated only if an earlier one of its kind was in hand when *)
(* its script stopped, or the script's progress file was torn: recording   *)
(* (markStep) is what keeps a resumed run from submitting again.  Money is *)
(* better kept: the escrow is funded twice only after a torn file, the fee *)
(* of a bid is never charged twice, and releaseFull is not even asked for  *)
(* again unless an earlier submission was lost with its process or failed  *)
(* on its own account, which the script does not record.                   *)
RepeatedOnlyIfLost ==
  /\ \A i, j \in Positions :
       i < j /\ ledger[i].op = ledger[j].op /\ ledger[i].chunk = ledger[j].chunk =>
         /\ i \in lost \/ Owner(ledger[i].op) \in torn
         /\ ledger[i].op = "funding" => "escrow" \in torn
         /\ ledger[i].op # "access_bid"
  /\ asked > 1 => failed \/ \E i \in lost : ledger[i].op = "release_full"

(* The record says paid only when the Mirror Node shows the release, and   *)
(* the freight is released only on an accepted POD.                        *)
PaidIsReleased ==
  /\ lifecycle.state \in Released => Released_(shown)
  /\ Released_(Len(ledger)) => lifecycle.state \in {"POD_ACCEPTED"} \cup Released

(* What is reported is so.  On the topic: a review action follows the      *)
(* acceptance in the durable record, ESCROW_RELEASED the payment, TENDER_  *)
(* COMPLETED the completion, in whatever process each was done.  In the    *)
(* evidence: the two fees are settled and committed; the contract runs the *)
(* compiled code and the freight was allocated on it; one release, the     *)
(* five messages and nothing else on the topic, the tender completed.      *)
ReportedIsTrue ==
  /\ "POD_REVIEW_ACTION" \in Ops => lifecycle.state \in {"POD_ACCEPTED"} \cup Released
  /\ "ESCROW_RELEASED" \in Ops => "release_full" \in Ops /\ lifecycle.state \in Released
  /\ "TENDER_COMPLETED" \in Ops => lifecycle.state = "TENDER_COMPLETED"
  /\ aSummary = 1 => /\ AccessWrites \subseteq Ops
                     /\ aRun.activation = "COMMITTED" /\ aRun.bid = "COMMITTED"
  /\ eSummary # 0 =>
       /\ Sound(eSummary)
       /\ ContractState(eSummary, Len(ledger)) \in {"ALLOCATED", "RELEASED"}
  /\ rSummary = 1 =>
       /\ Messages(Topic, Len(ledger)) = ExpectedOrder
       /\ Cardinality({i \in Positions : ledger[i].op = "release_full"}) = 1
       /\ lifecycle.state = "TENDER_COMPLETED"

(* Unless a script stops before its end, the tender is completed: beside   *)
(* the ids they name, no guard of a later phase refuses what the earlier   *)
(* one leaves, and a rehearsal of Phase D2 does not stand in its way.      *)
(* With the contract or the topic of another deployment written into it,   *)
(* the script of Phase D2, or of Phase E1, is reached and refuses to run.  *)
RunsFinish ==
  <>(\/ stops > 0
     \/ rSummary = 1
     \/ eSummary # 0 /\ "contract" \notin pinned
     \/ pSummary.run # 0 /\ "topic" \notin pinned)
==============================================================================
