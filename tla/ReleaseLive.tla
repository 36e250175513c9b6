----------------------------- MODULE ReleaseLive -----------------------------
(***************************************************************************)
(* Phase E1: scripts/run-v2-release-live.ts.  Executes releaseFull once,   *)
(* checks it on the Mirror Node, moves the lifecycle record and anchors    *)
(* ESCROW_RELEASED and TENDER_COMPLETED to the topic of Phase D2.  Its     *)
(* preflight tells a first run from a resumed one by the progress file.    *)
(***************************************************************************)
EXTENDS PodLive

CONSTANTS
  EXPECTED_PRIOR_SEQUENCES    \* messages Phase D2 left on the topic

ASSUME ReleaseLiveConstants == EXPECTED_PRIOR_SEQUENCES \in Nat

VARIABLES
  rpc, rMem, rFile, rHand,
  asked,          \* how many times releaseFull was submitted (2: or more)
  failed,         \* a submission of releaseFull failed on its own
  rSummary        \* the evidence package of a successful run

releaseVars == <<rpc, rMem, rFile, rHand, asked, failed, rSummary>>

ReleaseWrites == {"release_full", "ESCROW_RELEASED", "TENDER_COMPLETED"}
ExpectedOrder == MESSAGE_STEPS \o <<"ESCROW_RELEASED", "TENDER_COMPLETED">>

(* Mutant: the sequence numbers of the topic are counted from 0. *)
ExpectedSequenceFromZero(s) ==
  EXPECTED_PRIOR_SEQUENCES + (IF s = "ESCROW_RELEASED" THEN 0 ELSE 1)

(* The sequence number a message must land at. *)
ExpectedSequence(s) == EXPECTED_PRIOR_SEQUENCES + (IF s = "ESCROW_RELEASED" THEN 1 ELSE 2)

NoRelease == [status |-> "NONE", at |-> [s \in ReleaseWrites |-> 0], seen |-> {}]
Executed(p) == {s \in ReleaseWrites : p.at[s] # 0}

Topic == pSummary.topic
Released_(n) == ContractState(eSummary, n) = "RELEASED"

ReleaseSave(p) == rMem' = p /\ rFile' = p
ReleaseDies ==
  /\ rpc' = "idle"
  /\ rMem' = NoRelease
  /\ rHand' = 0

(* readBindings: the evidence of the earlier phases, of the contract and  *)
(* the topic the script names, with the sequence numbers Phase D2         *)
(* recorded.                                                              *)
readBindings ==
  /\ eSummary # 0
  /\ pinned = {"contract", "topic"}
  /\ pSummary.run # 0
  /\ \A i \in 1..3 : pSummary.number[MESSAGE_STEPS[i]] = i

(* The preconditions on the escrow, by what the progress file says. *)
EscrowAsExpected(p) ==
  readContractState =
    IF "release_full" \in Executed(p) THEN "RELEASED" ELSE "ALLOCATED"

(* The acceptance of Phase D2, proved again from its evidence. *)
reverifyShipperAcceptance ==
  /\ pSummary.accepted
  /\ lifecycle.state \in {"POD_ACCEPTED"} \cup Released

(* The topic as the Mirror Node lists it. *)
listTopicMessages == Messages(Topic, shown)

(* The guard on the topic of the preflight. *)
TopicAsExpected ==
  LET count == Len(listTopicMessages)
  IN count = EXPECTED_PRIOR_SEQUENCES \/ count >= 5

CanStartRelease ==
  /\ rpc = "idle"
  /\ rSummary = 0
  /\ rFile.status # "SUCCESS"
  /\ readBindings
  /\ reverifyShipperAcceptance
  /\ EscrowAsExpected(rFile)
  /\ TopicAsExpected

ReleaseStart ==
  /\ CanStartRelease
  /\ ReleaseSave([rFile EXCEPT !.status = "IN_PROGRESS"])
  /\ rpc' = "release_full"
  /\ UNCHANGED <<rHand, asked, failed, rSummary, lifecycle, networkVars>>

(* A completed run whose evidence was not written. *)
ReleaseEvidenceOnly ==
  /\ rpc = "idle"
  /\ rSummary = 0
  /\ rFile.status = "SUCCESS"
  /\ readBindings /\ EscrowAsExpected(rFile) /\ TopicAsExpected
  /\ rSummary' = 1
  /\ UNCHANGED <<rpc, rMem, rFile, rHand, asked, failed, lifecycle, networkVars>>

(* A submission fails on its own account: the network is busy, the gas     *)
(* runs out, the token service reverts the transfer.  execute or           *)
(* getReceipt throws, before the lines that record the attempt.            *)
ReleaseFails ==
  /\ Halt("release", 0, FALSE)
  /\ ReleaseDies
  /\ failed' = TRUE

(* stepReleaseFull and submitEnvelope: the write.  What consensus refuses  *)
(* ends the run with nothing recorded; of a message that ReleaseStops      *)
(* says as well.                                                           *)
ReleaseSubmit(s) ==
  /\ rpc = s
  /\ s \notin Executed(rMem)
  /\ rHand = 0
  /\ Cardinality(Executed(rMem)) < Cardinality(ReleaseWrites)
  /\ asked' = IF s = "release_full" /\ asked < 2 THEN asked + 1 ELSE asked
  /\ LET x == IF s = "release_full" THEN eSummary ELSE Topic
     IN \/ /\ Accepts(s, x)
           /\ Reach(Call(s, x, 0))
           /\ rHand' = Len(ledger')
           /\ UNCHANGED <<rpc, rMem, failed>>
        \/ /\ ~Accepts(s, x)
           /\ ReleaseDies
           /\ UNCHANGED <<failed, networkVars>>
        \/ s = "release_full" /\ ReleaseFails
  /\ UNCHANGED <<rFile, rSummary, lifecycle>>

(* Recorded before any assertion can throw; a message that landed at      *)
(* another sequence number than expected ends the run.                    *)
ReleaseRecord(s) ==
  /\ rpc = s
  /\ rHand # 0
  /\ LET p == [rMem EXCEPT !.at[s] = rHand]
         landed == SequenceNumber(Topic, rHand)
     IN /\ rFile' = p
        /\ IF s = "release_full" \/ landed = ExpectedSequence(s)
             THEN rMem' = p /\ rHand' = 0 /\ UNCHANGED rpc
             ELSE ReleaseDies
  /\ UNCHANGED <<asked, failed, rSummary, lifecycle, networkVars>>

(* Mutant: the message goes out before the record is moved. *)
NextPointUnpaid(s) ==
  CASE s = "release_full"     -> "ESCROW_RELEASED"
    [] s = "ESCROW_RELEASED"  -> "complete"
    [] s = "TENDER_COMPLETED" -> "finish"

(* Where a verified write leads. *)
NextPoint(s) ==
  CASE s = "release_full"     -> "paid"
    [] s = "ESCROW_RELEASED"  -> "complete"
    [] s = "TENDER_COMPLETED" -> "finish"

(* The call is shown, with the transfer of the locked amount and its event. *)
verifyReleaseOnMirror(p) ==
  "release_full" \in p.seen \/ mirrorVerifyTransaction(p.at["release_full"])

(* The message is shown, byte for byte, at the sequence of its receipt. *)
verifyMessageOnMirror(p, s) ==
  \/ s \in p.seen
  \/ /\ mirrorVerifyTransaction(p.at[s])
     /\ listTopicMessages[SequenceNumber(Topic, p.at[s])] = s

(* What is not shown in time ends the run; what was, is saved. *)
ReleaseVerify(s) ==
  /\ rpc = s
  /\ s \in Executed(rMem)
  /\ IF s = "release_full" THEN verifyReleaseOnMirror(rMem)
                           ELSE verifyMessageOnMirror(rMem, s)
  /\ ReleaseSave([rMem EXCEPT !.seen = @ \cup {s}])
  /\ rpc' = NextPoint(s)
  /\ UNCHANGED <<rHand, asked, failed, rSummary, lifecycle, networkVars>>

(* The balances and the contract agree: POD_ACCEPTED -> PAYMENT_RELEASED. *)
ReleasePaid ==
  /\ rpc = "paid"
  /\ Released_(shown)
  /\ lifecycle' = IF lifecycle.state = "POD_ACCEPTED"
                    THEN [lifecycle EXCEPT !.state = "PAYMENT_RELEASED"]
                    ELSE lifecycle
  /\ rpc' = "ESCROW_RELEASED"
  /\ UNCHANGED <<rMem, rFile, rHand, asked, failed, rSummary, networkVars>>

ReleaseComplete ==
  /\ rpc = "complete"
  /\ lifecycle' = IF lifecycle.state = "PAYMENT_RELEASED"
                    THEN [lifecycle EXCEPT !.state = "TENDER_COMPLETED"]
                    ELSE lifecycle
  /\ rpc' = "TENDER_COMPLETED"
  /\ UNCHANGED <<rMem, rFile, rHand, asked, failed, rSummary, networkVars>>

(* Mutant: the run's own records are enough, the topic is not listed. *)
ReleaseSuccessUnordered ==
  /\ rpc = "finish"
  /\ Executed(rMem) = ReleaseWrites
  /\ ReleaseSave([rMem EXCEPT !.status = "SUCCESS"])
  /\ rpc' = "evidence"
  /\ UNCHANGED <<rHand, asked, failed, rSummary, lifecycle, networkVars>>

(* The whole topic, as the Mirror Node lists it, in the expected order. *)
ReleaseSuccess ==
  /\ rpc = "finish"
  /\ \/ /\ listTopicMessages = ExpectedOrder
        /\ Executed(rMem) = ReleaseWrites
        /\ ReleaseSave([rMem EXCEPT !.status = "SUCCESS"])
        /\ rpc' = "evidence"
        /\ UNCHANGED rHand
     \/ /\ listTopicMessages # ExpectedOrder
        /\ ReleaseDies
        /\ UNCHANGED rFile
  /\ UNCHANGED <<asked, failed, rSummary, lifecycle, networkVars>>

ReleaseEvidence ==
  /\ rpc = "evidence"
  /\ rSummary' = 1
  /\ ReleaseDies
  /\ UNCHANGED <<rFile, asked, failed, lifecycle, networkVars>>

ReleaseSaving ==
  \/ rHand # 0
  \/ rpc \in Executed(rMem) \ rMem.seen /\ rMem.at[rpc] <= shown
  \/ rpc = "finish"

ReleaseStops(tears) ==
  /\ rpc # "idle"
  /\ tears => ReleaseSaving
  /\ Halt("release", rHand, tears)
  /\ ReleaseDies
  /\ rFile' = IF tears THEN NoRelease ELSE rFile
  /\ UNCHANGED <<asked, failed, rSummary, lifecycle>>

ReleaseInit ==
  /\ rpc = "idle"
  /\ rMem = NoRelease
  /\ rFile = NoRelease
  /\ rHand = 0
  /\ asked = 0 /\ failed = FALSE
  /\ rSummary = 0

ReleaseProgress ==
  \/ ReleaseStart \/ ReleaseEvidenceOnly
  \/ \E s \in ReleaseWrites : ReleaseSubmit(s) \/ ReleaseRecord(s) \/ ReleaseVerify(s)
  \/ ReleasePaid \/ ReleaseComplete \/ ReleaseSuccess \/ ReleaseEvidence

ReleaseNext == ReleaseProgress \/ (\E tears \in BOOLEAN : ReleaseStops(tears))
==============================================================================
