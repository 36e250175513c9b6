------------------------------- MODULE PodLive -------------------------------
(***************************************************************************)
(* Phase D2: scripts/run-v2-pod-live.ts.  Brings the lifecycle record up   *)
(* to the delivery, stores the encrypted POD, creates the evidence topic,  *)
(* anchors three messages and takes the shipper's acceptance, leaving the  *)
(* escrow alone.  A network write is recorded in the progress file before  *)
(* it is looked up on the Mirror Node; the local services (lifecycle file, *)
(* POD store) are written before the progress file is.  A dry run takes    *)
(* every local step and submits nothing.                                   *)
(***************************************************************************)
EXTENDS EscrowLive

CONSTANTS
  MaxRuns         \* bound: how many run ids the script may draw

ASSUME PodLiveConstants == MaxRuns \in Nat

VARIABLES
  ppc, pMem, pFile, pHand,
  pDry,           \* the process rehearses
  pRuns,          \* run ids drawn
  lifecycle,      \* the durable record: its state, and the run whose ids it holds
  podStore,       \* runs whose encrypted package is in the POD store
  advisory,       \* the advisory report file exists
  pSummary,       \* the evidence package of a successful run
  pinned          \* which of the ids written into the scripts of Phases D2
                  \* and E1, the contract's and the topic's, are this
                  \* deployment's; only a source edit changes them

podVars == <<ppc, pMem, pFile, pHand, pDry, pRuns, lifecycle, podStore,
             advisory, pSummary>>

PodWrites == {"topic_create", "POD_SUBMITTED", "POD_ADVISORY_ANCHORED",
              "POD_REVIEW_ACTION"}
MESSAGE_STEPS == <<"POD_SUBMITTED", "POD_ADVISORY_ANCHORED", "POD_REVIEW_ACTION">>

(* The points of main, in order. *)
PodPoints == <<"escrow", "lifecycle", "store", "proof", "topic_create",
               "POD_SUBMITTED", "review", "POD_ADVISORY_ANCHORED", "accept",
               "accepted", "POD_REVIEW_ACTION", "finish">>
After(pt) == PodPoints[1 + CHOOSE i \in 1..Len(PodPoints) : PodPoints[i] = pt]

(* lifecycleSteps: the states the nine synthetic events lead through. *)
BootStates == <<"DRAFT", "ESCROW_FUNDED", "TENDER_OPENED", "BIDDING",
                "AUCTION_CLOSED", "WINNER_SELECTED", "WINNING_AMOUNT_LOCKED",
                "ROUTE_RESERVED", "IN_TRANSIT", "DELIVERY_REPORTED">>
PodStates == {"POD_SUBMITTED", "POD_UNDER_REVIEW", "POD_ACCEPTED"}
Released == {"PAYMENT_RELEASED", "TENDER_COMPLETED"}

NoPodRun == [status |-> "NONE", run |-> 0, pod |-> FALSE, advised |-> FALSE,
             accepted |-> FALSE, topic |-> 0,
             at |-> [s \in PodWrites |-> 0],       \* recorded ledger positions
             number |-> [s \in PodWrites |-> 0],   \* recorded sequence numbers
             seen |-> {}]                          \* confirmed on the Mirror Node
completedSteps(p) == {s \in PodWrites : p.at[s] # 0}

PodHere(pt) == ppc = pt
PodGo(pt) == ppc' = pt
PodSave(p) == pMem' = p /\ pFile' = p
PodDies ==
  /\ ppc' = "idle"
  /\ pMem' = NoPodRun
  /\ pHand' = 0
  /\ UNCHANGED <<pFile, pDry, pRuns, lifecycle, podStore, advisory, pSummary>>

(* The escrow's evidence is there, written with the tender ALLOCATED, and *)
(* of the contract the script names (PHASE_C2_ESCROW_CONTRACT_ID).        *)
readEscrowFacts == eSummary # 0 /\ "contract" \in pinned

(* main: guards, then a new run id or the recorded one. *)
PodStart(dry) ==
  /\ PodHere("idle")
  /\ readEscrowFacts
  /\ pSummary.run = 0
  /\ pFile.status # "SUCCESS"
  /\ \/ /\ pFile.status = "NONE"
        /\ pRuns < MaxRuns
        /\ pRuns' = pRuns + 1
        /\ PodSave([NoPodRun EXCEPT !.status = "IN_PROGRESS", !.run = pRuns'])
     \/ /\ pFile.status = "IN_PROGRESS"
        /\ PodSave(pFile)
        /\ UNCHANGED pRuns
  /\ pDry' = dry
  /\ PodGo("escrow")
  /\ UNCHANGED <<pHand, lifecycle, podStore, advisory, pSummary, networkVars>>

(* The contract as the Mirror Node shows it. *)
readContractState == ContractState(eSummary, shown)

(* A run that succeeded and lost its evidence: main checks the escrow     *)
(* again and writes the package.                                          *)
PodEvidenceOnly ==
  /\ PodHere("idle")
  /\ readEscrowFacts
  /\ pFile.status = "SUCCESS"
  /\ pSummary.run \in {0, pFile.run}
  /\ readContractState = "ALLOCATED"
  /\ pSummary' = pFile
  /\ pSummary' # pSummary
  /\ UNCHANGED <<ppc, pMem, pFile, pHand, pDry, pRuns, lifecycle, podStore,
                 advisory, networkVars>>

(* The contract is read before anything else; nothing moves it on before  *)
(* this phase has left its evidence.                                      *)
assertEscrowUntouched ==
  /\ PodHere("escrow")
  /\ readContractState = "ALLOCATED"
  /\ PodGo("lifecycle")
  /\ UNCHANGED <<pMem, pFile, pHand, pDry, pRuns, lifecycle, podStore,
                 advisory, pSummary, networkVars>>

(* One event of the bootstrap, each a durable write of the record. *)
BootIndex == CHOOSE i \in 1..Len(BootStates) : BootStates[i] = lifecycle.state
Booted == lifecycle.state \in PodStates \cup Released \cup {"DELIVERY_REPORTED"}

ensureLifecycleRecord ==
  /\ PodHere("lifecycle")
  /\ \/ /\ lifecycle.state = "NONE"
        /\ lifecycle' = [state |-> "DRAFT", run |-> pMem.run]
        /\ UNCHANGED <<ppc, pMem, pFile, pHand, pDry, pRuns, podStore, advisory, pSummary>>
     \/ /\ lifecycle.run = pMem.run
        /\ ~Booted
        /\ lifecycle.state # "NONE"
        /\ lifecycle' = [lifecycle EXCEPT !.state = BootStates[BootIndex + 1]]
        /\ UNCHANGED <<ppc, pMem, pFile, pHand, pDry, pRuns, podStore, advisory, pSummary>>
     \/ /\ \/ lifecycle.run = pMem.run /\ Booted
           \/ lifecycle.state \in PodStates
        /\ PodGo("store")
        /\ UNCHANGED <<pMem, pFile, pHand, pDry, pRuns, lifecycle, podStore,
                       advisory, pSummary>>
     \/ /\ lifecycle.state \notin PodStates \cup {"NONE"}
        /\ lifecycle.run # pMem.run
        /\ PodDies
  /\ UNCHANGED networkVars

(* ensurePodStored up to the package's put: an envelope that is there      *)
(* without its proof in the progress is not overwritten.                   *)
PodStorePut ==
  /\ PodHere("store")
  /\ \/ /\ pMem.run \in podStore
        /\ pMem.pod
        /\ PodGo("topic_create")
        /\ UNCHANGED <<pMem, pFile, pHand, pDry, pRuns, lifecycle, podStore,
                       advisory, pSummary>>
     \/ /\ pMem.run \notin podStore
        /\ lifecycle.state \in {"DELIVERY_REPORTED", "POD_SUBMITTED"}
        /\ podStore' = podStore \cup {pMem.run}
        /\ PodGo("proof")
        /\ UNCHANGED <<pMem, pFile, pHand, pDry, pRuns, lifecycle, advisory, pSummary>>
     \/ /\ \/ pMem.run \in podStore /\ ~pMem.pod
           \/ /\ pMem.run \notin podStore
              /\ lifecycle.state \notin {"DELIVERY_REPORTED", "POD_SUBMITTED"}
        /\ PodDies
  /\ UNCHANGED networkVars

(* submitPod applies the event; then the proof is saved. *)
PodSubmitApply ==
  /\ PodHere("proof")
  /\ \/ /\ lifecycle.state = "DELIVERY_REPORTED"
        /\ lifecycle' = [lifecycle EXCEPT !.state = "POD_SUBMITTED"]
        /\ UNCHANGED <<ppc, pMem, pFile, pHand, pDry, pRuns, podStore, advisory, pSummary>>
     \/ /\ lifecycle = [state |-> "POD_SUBMITTED", run |-> pMem.run]
        /\ PodSave([pMem EXCEPT !.pod = TRUE])
        /\ PodGo("topic_create")
        /\ UNCHANGED <<pHand, pDry, pRuns, lifecycle, podStore, advisory, pSummary>>
     \/ /\ lifecycle.run # pMem.run
        /\ lifecycle.state # "DELIVERY_REPORTED"
        /\ PodDies
  /\ UNCHANGED networkVars

(* stepCreateTopic and submitEnvelope: the write itself. *)
PodSubmit(s) ==
  /\ PodHere(s)
  /\ ~pDry
  /\ s \notin completedSteps(pMem)
  /\ pHand = 0
  /\ Cardinality(completedSteps(pMem)) < Cardinality(PodWrites)
  /\ Reach(Call(s, pMem.topic, 0))
  /\ pHand' = Len(ledger')
  /\ UNCHANGED <<ppc, pMem, pFile, pDry, pRuns, lifecycle, podStore, advisory, pSummary>>

(* Mutant: the receipt is kept in memory and saved only when verified. *)
PodRecordUnsaved(s) ==
  /\ PodHere(s)
  /\ pHand # 0
  /\ pMem' = [pMem EXCEPT
       !.at[s] = pHand,
       !.topic = IF s = "topic_create" THEN pHand ELSE @,
       !.number[s] = IF s = "topic_create" THEN 0 ELSE SequenceNumber(pMem.topic, pHand)]
  /\ pHand' = 0
  /\ UNCHANGED <<ppc, pFile, pDry, pRuns, lifecycle, podStore, advisory, pSummary,
                 networkVars>>

(* The receipt is in: recorded, with the step, before any verification. *)
PodRecord(s) ==
  /\ PodHere(s)
  /\ pHand # 0
  /\ PodSave([pMem EXCEPT
       !.at[s] = pHand,
       !.topic = IF s = "topic_create" THEN pHand ELSE @,
       !.number[s] = IF s = "topic_create" THEN 0 ELSE SequenceNumber(pMem.topic, pHand)])
  /\ pHand' = 0
  /\ UNCHANGED <<ppc, pDry, pRuns, lifecycle, podStore, advisory, pSummary, networkVars>>

(* verifyTopicCreateOnMirror, verifyMessageOnMirror: once, then remembered; *)
(* a dry run passes without a write.                                        *)
PodVerify(s) ==
  /\ PodHere(s)
  /\ \/ /\ s \in completedSteps(pMem)
        /\ pDry \/ s \in pMem.seen \/ mirrorVerifyTransaction(pMem.at[s])
        /\ PodSave(IF pDry THEN pMem ELSE [pMem EXCEPT !.seen = @ \cup {s}])
     \/ /\ pDry
        /\ s \notin completedSteps(pMem)
        /\ PodSave(pMem)
  /\ PodGo(After(s))
  /\ UNCHANGED <<pHand, pDry, pRuns, lifecycle, podStore, advisory, pSummary, networkVars>>

(* startReview (idempotent while the record is under review), the report  *)
(* file, and then the progress.                                           *)
PodReview ==
  /\ PodHere("review")
  /\ \/ /\ pMem.advised /\ advisory
        /\ PodGo("POD_ADVISORY_ANCHORED")
        /\ UNCHANGED <<pMem, pFile, pHand, lifecycle, advisory>>
     \/ /\ ~(pMem.advised /\ advisory)
        /\ lifecycle.state = "POD_SUBMITTED"
        /\ lifecycle' = [lifecycle EXCEPT !.state = "POD_UNDER_REVIEW"]
        /\ UNCHANGED <<ppc, pMem, pFile, pHand, advisory>>
     \/ /\ ~(pMem.advised /\ advisory)
        /\ lifecycle.state = "POD_UNDER_REVIEW"
        /\ advisory' = TRUE
        /\ IF advisory
             THEN PodSave([pMem EXCEPT !.advised = TRUE])
             ELSE UNCHANGED <<pMem, pFile>>
        /\ UNCHANGED <<ppc, pHand, lifecycle>>
  /\ UNCHANGED <<pDry, pRuns, podStore, pSummary, networkVars>>

(* Mutant: the acceptance is taken for the payment. *)
PodAcceptPays ==
  /\ PodHere("accept")
  /\ \/ /\ pMem.accepted
        /\ PodGo("POD_REVIEW_ACTION")
        /\ UNCHANGED lifecycle
     \/ /\ ~pMem.accepted
        /\ lifecycle.state = "POD_UNDER_REVIEW"
        /\ lifecycle' = [lifecycle EXCEPT !.state = "PAYMENT_RELEASED"]
        /\ PodGo("accepted")
  /\ UNCHANGED <<pMem, pFile, pHand, pDry, pRuns, podStore, advisory, pSummary, networkVars>>

(* The shipper's acceptance is applied only to a record under review. *)
PodAccept ==
  /\ PodHere("accept")
  /\ \/ /\ pMem.accepted
        /\ PodGo("POD_REVIEW_ACTION")
        /\ UNCHANGED <<pMem, pFile, pHand, pDry, pRuns, lifecycle, podStore,
                       advisory, pSummary>>
     \/ /\ ~pMem.accepted
        /\ lifecycle.state = "POD_UNDER_REVIEW"
        /\ lifecycle' = [lifecycle EXCEPT !.state = "POD_ACCEPTED"]
        /\ PodGo("accepted")
        /\ UNCHANGED <<pMem, pFile, pHand, pDry, pRuns, podStore, advisory, pSummary>>
     \/ ~pMem.accepted /\ lifecycle.state # "POD_UNDER_REVIEW" /\ PodDies
  /\ UNCHANGED networkVars

PodAcceptedSave ==
  /\ PodHere("accepted")
  /\ PodSave([pMem EXCEPT !.accepted = TRUE])
  /\ PodGo("POD_REVIEW_ACTION")
  /\ UNCHANGED <<pHand, pDry, pRuns, lifecycle, podStore, advisory, pSummary, networkVars>>

(* The recorded sequence numbers rise, the escrow is untouched and every  *)
(* projected write is counted.                                            *)
PodSuccess ==
  /\ PodHere("finish")
  /\ ~pDry
  /\ readContractState = "ALLOCATED"
  /\ pMem.number[MESSAGE_STEPS[1]] > 0
  /\ \A i \in 1..2 : pMem.number[MESSAGE_STEPS[i]] < pMem.number[MESSAGE_STEPS[i + 1]]
  /\ completedSteps(pMem) = PodWrites
  /\ PodSave([pMem EXCEPT !.status = "SUCCESS"])
  /\ PodGo("evidence")
  /\ UNCHANGED <<pHand, pDry, pRuns, lifecycle, podStore, advisory, pSummary, networkVars>>

PodEvidence ==
  /\ PodHere("evidence")
  /\ pSummary' = pMem
  /\ ppc' = "idle"
  /\ pMem' = NoPodRun
  /\ UNCHANGED <<pFile, pHand, pDry, pRuns, lifecycle, podStore, advisory, networkVars>>

(* A rehearsal ends before the first write. *)
PodDryEnd ==
  /\ PodHere("finish")
  /\ pDry
  /\ PodDies
  /\ UNCHANGED networkVars

PodSaving ==
  \/ pHand # 0
  \/ ppc \in completedSteps(pMem) \ pMem.seen /\ pMem.at[ppc] <= shown
  \/ ppc \in {"proof", "accepted", "finish"}

PodStops(tears) ==
  /\ ppc # "idle"
  /\ tears => PodSaving
  /\ Halt("pod", pHand, tears)
  /\ ppc' = "idle"
  /\ pMem' = NoPodRun
  /\ pHand' = 0
  /\ pFile' = IF tears THEN NoPodRun ELSE pFile
  /\ UNCHANGED <<pDry, pRuns, lifecycle, podStore, advisory, pSummary>>

PodInit ==
  /\ ppc = "idle"
  /\ pMem = NoPodRun
  /\ pFile = NoPodRun
  /\ pHand = 0
  /\ pDry = FALSE
  /\ pRuns = 0
  /\ lifecycle = [state |-> "NONE", run |-> 0]
  /\ podStore = {}
  /\ advisory = FALSE
  /\ pSummary = NoPodRun
  /\ pinned \in {{}, {"contract"}, {"contract", "topic"}}

PodProgress ==
  \/ PodStart(FALSE) \/ PodEvidenceOnly
  \/ assertEscrowUntouched \/ ensureLifecycleRecord
  \/ PodStorePut \/ PodSubmitApply
  \/ \E s \in PodWrites : PodSubmit(s) \/ PodRecord(s) \/ PodVerify(s)
  \/ PodReview \/ PodAccept \/ PodAcceptedSave
  \/ PodSuccess \/ PodEvidence \/ PodDryEnd

PodNext ==
  PodProgress \/ PodStart(TRUE) \/ (\E tears \in BOOLEAN : PodStops(tears))
==============================================================================
