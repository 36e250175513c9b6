--------------------------- MODULE OperationsDemo ----------------------------
(***************************************************************************)
(* One LIVE session of the Operations Demo (src/operations-demo): the      *)
(* orchestrator's actions, the receipt journal they go through, and the    *)
(* live composition that submits their twelve writes.                      *)
(*                                                                         *)
(* Callers may send any action at any time, again and in parallel, under   *)
(* the action id the session's plan has for it or under another one: the   *)
(* API takes any.  A file mutation is atomic (OperationsDemoStore.mutate   *)
(* holds the session's lock), but the file that names the active session   *)
(* is written after the session's.  The tender, its POD and its access     *)
(* fees are seen through the lifecycle state: TenderLifecycle, PodService  *)
(* and AccessPayments are the models of their services.                    *)
(***************************************************************************)
EXTENDS Naturals, Sequences, SequencesExt, FiniteSets, FiniteSetsExt

CONSTANTS
  Client,         \* requests served at a time
  None,
  DailyCeiling,   \* writeBudget.dailyCeiling
  MaxWrites,      \* bound: writes the network is shown taking
  MaxFaults       \* bound: answers lost, Mirror timeouts, failed file writes,
                  \* requests under another action id, restarts of the
                  \* process, midnights, and the end of the session's time

ASSUME OperationsAssumption ==
  /\ None \notin STRING
  /\ DailyCeiling \in Nat /\ MaxWrites \in Nat /\ MaxFaults \in Nat

VARIABLES
  session,    \* the session's file
  active,     \* the file of the active session names this one
  today,      \* the UTC date
  daily,      \* successfulWrites of each date; the ledger's file keeps the last
  clients,    \* what each request in hand is doing
  planInMemory, \* PodService.releasePlans holds the plan of the acceptance
  life,       \* state of the lifecycle record
  actor,      \* the action id under which the POD service took a step
  fee,        \* payment claim of each access step and action id: none, claimed,
              \* settled, or committed to the lifecycle record
  closed,     \* the tender's auctionEndsAt has passed
  ledger,     \* successful writes, by sub-step, in consensus order
  lost,       \* writes of each sub-step that were not journaled by their call
  late,       \* the session's time is over
  faults,
  halfSaved,  \* a kill between the two files of the completing commit
  stranger,   \* an action has been asked for under another id
  calm        \* nothing has happened yet that a retry does not get over

file == <<session, active>>
tender == <<planInMemory, life, actor, fee>>
calendar == <<today, daily, closed, late>>
odd == <<halfSaved, stranger, calm>>
vars == <<file, tender, calendar, odd, clients, ledger, lost, faults>>
world == <<tender, calendar, odd, ledger, lost, faults>>

-----------------------------------------------------------------------------
(* The actions and what they do.                                           *)

ACTION_TRANSITIONS ==
  [FUND_ESCROW     |-> <<"CREATED", "ESCROW_FUNDED">>,
   OPEN_TENDER     |-> <<"ESCROW_FUNDED", "ACCESS_ACTIVATED">>,
   SUBMIT_OFFER    |-> <<"ACCESS_ACTIVATED", "OFFER_ACCEPTED">>,
   SELECT_WINNER   |-> <<"OFFER_ACCEPTED", "WINNER_ALLOCATED">>,
   SUBMIT_POD      |-> <<"WINNER_ALLOCATED", "POD_SUBMITTED">>,
   RUN_ADVISORY    |-> <<"POD_SUBMITTED", "ADVISORY_ANCHORED">>,
   ACCEPT_POD      |-> <<"ADVISORY_ANCHORED", "POD_ACCEPTED">>,
   RELEASE_FREIGHT |-> <<"POD_ACCEPTED", "COMPLETED">>]

Action == DOMAIN ACTION_TRANSITIONS

(* Whose id: the one of the session's plan, or one a caller made up.       *)
Id == {"plan", "other"}
Day == 1..2

LIVE_SUCCESSFUL_PATH ==
  <<"FUND_ESCROW", "OPEN_TENDER", "SUBMIT_OFFER", "SELECT_WINNER",
    "SUBMIT_POD", "RUN_ADVISORY", "ACCEPT_POD", "RELEASE_FREIGHT">>

(* What an action goes through: sub-steps that write to the network, and   *)
(* steps on the lifecycle, those of the POD service coming first.          *)
executeLive ==
  [FUND_ESCROW     |-> <<"register-tender", "approve-exact-allowance",
                         "fund-escrow", "FUNDING_CONFIRMED">>,
   OPEN_TENDER     |-> <<"x402-tender-access">>,
   SUBMIT_OFFER    |-> <<"x402-carrier-offer">>,
   SELECT_WINNER   |-> <<"WINNER_SELECTED", "allocate-winner", "DELIVERY_REPORTED">>,
   SUBMIT_POD      |-> <<"submitPod", "pod-submitted-hcs">>,
   RUN_ADVISORY    |-> <<"startReview", "pod-advisory-hcs">>,
   ACCEPT_POD      |-> <<"shipperReview", "pod-review-action-hcs">>,
   RELEASE_FREIGHT |-> <<"getReleasePlan", "release-full", "RELEASE_CONFIRMED",
                         "escrow-released-hcs", "COMPLETION_CONFIRMED",
                         "tender-completed-hcs">>]

ContractStep == {"register-tender", "fund-escrow", "allocate-winner", "release-full"}
AccessStep == {"x402-tender-access", "x402-carrier-offer"}

(* In the order of the sequence numbers hcsStep expects of them. *)
HcsSteps ==
  <<"pod-submitted-hcs", "pod-advisory-hcs", "pod-review-action-hcs",
    "escrow-released-hcs", "tender-completed-hcs">>
HcsStep == ToSet(HcsSteps)
expectedSequence(s) == CHOOSE i \in DOMAIN HcsSteps : HcsSteps[i] = s
SubStep == ContractStep \cup AccessStep \cup HcsStep \cup {"approve-exact-allowance"}
SubSteps(a) == ToSet(executeLive[a]) \cap SubStep

(* Their envelopes are made anew, with the time of day, in every call. *)
FreshEnvelope == {"escrow-released-hcs", "tender-completed-hcs"}

(* The lifecycle state a step starts from and the one it leads to. *)
LifecycleStep ==
  ("FUNDING_CONFIRMED"    :> <<"DRAFT", "ESCROW_FUNDED">>) @@
  ("x402-tender-access"   :> <<"ESCROW_FUNDED", "TENDER_OPENED">>) @@
  ("x402-carrier-offer"   :> <<"TENDER_OPENED", "BIDDING">>) @@
  ("WINNER_SELECTED"      :> <<"BIDDING", "WINNER_SELECTED">>) @@
  ("DELIVERY_REPORTED"    :> <<"WINNER_SELECTED", "DELIVERY_REPORTED">>) @@
  ("submitPod"            :> <<"DELIVERY_REPORTED", "POD_SUBMITTED">>) @@
  ("startReview"          :> <<"POD_SUBMITTED", "POD_UNDER_REVIEW">>) @@
  ("shipperReview"        :> <<"POD_UNDER_REVIEW", "POD_ACCEPTED">>) @@
  ("RELEASE_CONFIRMED"    :> <<"POD_ACCEPTED", "PAYMENT_RELEASED">>) @@
  ("COMPLETION_CONFIRMED" :> <<"PAYMENT_RELEASED", "TENDER_COMPLETED">>)

topic == SelectSeq(ledger, LAMBDA s : s \in HcsStep)
Writes(s) == Len(SelectSeq(ledger, LAMBDA t : t = s))

-----------------------------------------------------------------------------
(* The session's file.                                                     *)

Terminal == {"COMPLETED", "EXPIRED"}
NoStep == [status |-> "NONE", sequence |-> 0]

initialSession ==
  [workflowState |-> "CREATED", lastConfirmedState |-> "CREATED",
   inFlightActionId |-> None, steps |-> [i \in Id |-> [s \in SubStep |-> NoStep]],
   writesUsed |-> 0, hcsSequences |-> <<>>, actionResults |-> {}]

Idle == [pc |-> "idle", act |-> None, id |-> "plan", at |-> 0, sequence |-> 0,
         wrote |-> FALSE]

(* mutate: the file of the active session follows the session's.           *)
mutate(next) ==
  /\ session' = next
  /\ active' = (next.workflowState \notin Terminal)

Init ==
  /\ session = initialSession
  /\ active = TRUE
  /\ today = 1
  /\ daily = [d \in Day |-> 0]
  /\ clients = [c \in Client |-> Idle]
  /\ planInMemory = FALSE
  /\ life = "DRAFT"
  /\ actor = [s \in {"startReview", "shipperReview"} |-> None]
  /\ fee = [s \in AccessStep |-> [i \in Id |-> "none"]]
  /\ closed = FALSE
  /\ ledger = <<>>
  /\ lost = [s \in SubStep |-> 0]
  /\ late = FALSE
  /\ faults = 0
  /\ halfSaved = FALSE
  /\ stranger = FALSE
  /\ calm = TRUE

Step(c) == executeLive[clients[c].act][clients[c].at]
AtStep(c, pc, steps) == clients[c].pc = pc /\ Step(c) \in steps

GoTo(c, pc) == clients' = [clients EXCEPT ![c].pc = pc]
NextStep(c) ==
  LET w == clients[c]
  IN  clients' = [clients EXCEPT ![c].at = w.at + 1, ![c].wrote = FALSE,
        ![c].pc = IF w.at = Len(executeLive[w.act]) THEN "commit" ELSE "step"]

Receipted(i, s) == session.steps[i][s].status \in {"RECEIPT_CONFIRMED", "VERIFIED"}
Fault == faults < MaxFaults /\ faults' = faults + 1

-----------------------------------------------------------------------------
(* OperationsDemoOrchestrator.act.                                         *)

transitionFor(state, a) == state \notin Terminal /\ ACTION_TRANSITIONS[a][1] = state

(* A committed action is answered from the file, and one that its state    *)
(* does not allow is refused; getSession comes first, so a session whose   *)
(* time is over is EXPIRED by now.                                         *)
act(c, a, i) ==
  /\ clients[c].pc = "idle"
  /\ late => session.workflowState \in Terminal
  /\ <<a, i>> \notin session.actionResults
  /\ transitionFor(IF session.workflowState = "FAILED" THEN session.lastConfirmedState
                   ELSE session.workflowState, a)
  /\ clients' = [clients EXCEPT ![c] = [Idle EXCEPT !.pc = "claim", !.act = a, !.id = i]]
  /\ IF i = "plan" THEN UNCHANGED <<faults, stranger, calm>>
                   ELSE Fault /\ stranger' = TRUE /\ calm' = FALSE
  /\ UNCHANGED <<file, tender, calendar, halfSaved, ledger, lost>>

Claimed(c) == <<clients[c].act, clients[c].id>>

(* Mutant: the claim does not look at the results again. *)
claimAnyway(c) ==
  /\ clients[c].pc = "claim"
  /\ IF session.inFlightActionId # None
     THEN clients' = [clients EXCEPT ![c] = Idle] /\ UNCHANGED file
     ELSE /\ clients' = [clients EXCEPT ![c].pc = "step", ![c].at = 1]
          /\ mutate([session EXCEPT !.inFlightActionId = Claimed(c)])
  /\ UNCHANGED world

(* Exactly one action is in flight: it owns the session until it has been  *)
(* committed or has failed.  The results are looked at again, under the    *)
(* caller's own id; the state is not.                                      *)
claim(c) ==
  /\ clients[c].pc = "claim"
  /\ \/ /\ Claimed(c) \in session.actionResults
        /\ clients' = [clients EXCEPT ![c] = Idle]
        /\ mutate(session)
     \/ /\ Claimed(c) \notin session.actionResults /\ session.inFlightActionId # None
        /\ clients' = [clients EXCEPT ![c] = Idle]
        /\ UNCHANGED file
     \/ /\ Claimed(c) \notin session.actionResults /\ session.inFlightActionId = None
        /\ clients' = [clients EXCEPT ![c].pc = "step", ![c].at = 1]
        /\ mutate([session EXCEPT !.inFlightActionId = Claimed(c)])
  /\ UNCHANGED world

(* The state an action leads to, and the sequence numbers of its messages. *)
committed(c) ==
  LET a == clients[c].act
      i == clients[c].id
      to == ACTION_TRANSITIONS[a][2]
      messages == SelectSeq(executeLive[a], LAMBDA s : s \in HcsStep)
  IN  [session EXCEPT !.workflowState = to, !.lastConfirmedState = to,
         !.inFlightActionId = None, !.actionResults = @ \cup {<<a, i>>},
         !.hcsSequences = @ \o [n \in 1..Len(messages) |->
                                  session.steps[i][messages[n]].sequence]]

commit(c) ==
  /\ clients[c].pc = "commit"
  /\ mutate(committed(c))
  /\ clients' = [clients EXCEPT ![c] = Idle]
  /\ UNCHANGED world

(* Mutant: an action that fails keeps the session. *)
failedKeepsSession(a, i, s) == [s EXCEPT !.workflowState = s.lastConfirmedState]

(* The catch of act: RECOVERABLE when a write of the action is journaled   *)
(* under its id, FAILED otherwise.                                         *)
failed(a, i, s) ==
  [s EXCEPT !.inFlightActionId = None,
            !.workflowState =
              IF \E t \in SubSteps(a) :
                   s.steps[i][t].status \in {"RECEIPT_CONFIRMED", "VERIFIED"}
              THEN s.lastConfirmedState ELSE "FAILED"]

Throw(c) ==
  /\ mutate(failed(clients[c].act, clients[c].id, session))
  /\ clients' = [clients EXCEPT ![c] = Idle]

-----------------------------------------------------------------------------
(* Steps on the lifecycle.  The lifecycle events of one step are taken     *)
(* together: nobody else moves the record, and a kill between two of them  *)
(* leaves the action in flight for good.                                   *)

PodStep == {"startReview", "shipperReview"}
Moves(s) == life = LifecycleStep[s][1]

(* Steps that ask for the state they start from and skip it otherwise.     *)
(* The winner is selected when the auction's time is over: the call waits. *)
applyLifecycle(c) ==
  /\ AtStep(c, "step", DOMAIN LifecycleStep \ (SubStep \cup PodStep \cup {"submitPod"}))
  /\ Step(c) = "WINNER_SELECTED" /\ Moves(Step(c)) => closed
  /\ life' = IF Moves(Step(c)) THEN LifecycleStep[Step(c)][2] ELSE life
  /\ NextStep(c)
  /\ UNCHANGED <<file, planInMemory, actor, fee, calendar, odd, ledger, lost, faults>>

(* Steps of the POD service: replayed under the id that took them, refused *)
(* under another.  The plan of an acceptance is kept under its id, and the *)
(* release asks for the one of the session's plan.                         *)
podWorkflow(c) ==
  /\ AtStep(c, "step", PodStep)
  /\ LET s == Step(c)
         i == clients[c].id
     IN  IF Moves(s) \/ actor[s] = i
         THEN /\ life' = IF Moves(s) THEN LifecycleStep[s][2] ELSE life
              /\ actor' = [actor EXCEPT ![s] = i]
              /\ planInMemory' = (planInMemory \/ (s = "shipperReview" /\ i = "plan"))
              /\ NextStep(c)
              /\ UNCHANGED file
         ELSE Throw(c) /\ UNCHANGED <<life, actor, planInMemory>>
  /\ UNCHANGED <<fee, calendar, odd, ledger, lost, faults>>

(* The submission is signed with the time of day: a second one is another  *)
(* package under the same action id, an ACTION_ID_CONFLICT, or another     *)
(* action in a state that does not take it.                                *)
buildSubmission(c) ==
  /\ AtStep(c, "step", {"submitPod"})
  /\ IF Moves("submitPod")
     THEN life' = LifecycleStep["submitPod"][2] /\ NextStep(c) /\ UNCHANGED file
     ELSE Throw(c) /\ UNCHANGED life
  /\ UNCHANGED <<planInMemory, actor, fee, calendar, odd, ledger, lost, faults>>

(* The plan of the acceptance lives in the PodService that made it. *)
getReleasePlan(c) ==
  /\ AtStep(c, "step", {"getReleasePlan"})
  /\ IF planInMemory THEN NextStep(c) /\ UNCHANGED file ELSE Throw(c)
  /\ UNCHANGED world

-----------------------------------------------------------------------------
(* The receipt journal.                                                    *)

(* Mutant: only a verified step is found in the journal. *)
findVerifiedReceipt(i, s) == session.steps[i][s].status = "VERIFIED"

findSuccessfulReceipt(i, s) == Receipted(i, s)

(* A verified step is done, a receipt is verified and never submitted      *)
(* again, anything else is planned and submitted.                          *)
journaled(c) ==
  /\ AtStep(c, "step", SubStep)
  /\ LET s == Step(c)
         i == clients[c].id
         verified == session.steps[i][s].status = "VERIFIED"
     IN  \/ /\ findSuccessfulReceipt(i, s) /\ verified
            /\ NextStep(c)
            /\ UNCHANGED file
         \/ /\ findSuccessfulReceipt(i, s) /\ ~verified
            /\ GoTo(c, "verify")
            /\ UNCHANGED file
         \/ /\ ~findSuccessfulReceipt(i, s)
            /\ mutate([session EXCEPT !.steps[i][s].status = "PLANNED"])
            /\ GoTo(c, "submit")
  /\ UNCHANGED world

(* The network takes the write of a sub-step. *)
Taken(s) ==
  /\ Len(ledger) < MaxWrites
  /\ ledger' = Append(ledger, s)

Fee(c) == fee[Step(c)][clients[c].id]

(* What the route does with a fee of this step: it opens the tender or     *)
(* registers the bid, or leaves it settled for a later request to commit.  *)
Charge(c, state) ==
  /\ fee' = [fee EXCEPT ![Step(c)][clients[c].id] = state]
  /\ life' = IF state = "committed" THEN LifecycleStep[Step(c)][2] ELSE life

(* The route takes the request: the record is in its state, and a bid      *)
(* comes before auctionEndsAt.                                             *)
Accessible(s) == Moves(s) /\ ~(s = "x402-carrier-offer" /\ closed)

(* The network and the services accept this write now. *)
Accepts(c) ==
  /\ Step(c) \in ContractStep => Writes(Step(c)) = 0
  /\ Step(c) \in AccessStep => Fee(c) = "none" /\ Accessible(Step(c))

submit(c) ==
  /\ AtStep(c, "submit", SubStep)
  /\ Accepts(c)
  /\ Taken(Step(c))
  /\ IF Step(c) \in AccessStep THEN Charge(c, "committed") ELSE UNCHANGED <<fee, life>>
  /\ clients' = [clients EXCEPT ![c].pc = "receipt", ![c].wrote = TRUE,
                    ![c].sequence = IF Step(c) \in HcsStep THEN Len(topic) + 1 ELSE 0]
  /\ UNCHANGED <<file, planInMemory, actor, calendar, odd, lost, faults>>

(* An access payment of this id that the lifecycle record already holds. *)
submitRecovered(c) ==
  /\ AtStep(c, "submit", AccessStep)
  /\ Fee(c) = "committed"
  /\ clients' = [clients EXCEPT ![c].pc = "receipt", ![c].sequence = 0]
  /\ UNCHANGED <<file, world>>

(* The unpaid request of X402Payer.pay meets the claim of an earlier call. *)
(* If its settlement is on record the route completes it; a claim without  *)
(* one it cannot tell the fate of.  pay wanted a challenge: it throws.     *)
submitResumed(c) ==
  /\ AtStep(c, "submit", AccessStep)
  /\ Fee(c) \in {"claimed", "settled"}
  /\ \/ Fee(c) = "settled" /\ Accessible(Step(c)) /\ Charge(c, "committed")
     \/ UNCHANGED <<fee, life>>
  /\ Throw(c)
  /\ UNCHANGED <<planInMemory, actor, calendar, odd, ledger, lost, faults>>

(* The contract reverts what it has done before; the route refuses, before *)
(* it charges, a tender that is open, a bid it has and one that is late.   *)
submitRefused(c) ==
  /\ AtStep(c, "submit", ContractStep \cup AccessStep)
  /\ ~Accepts(c)
  /\ Step(c) \in AccessStep => Fee(c) = "none"
  /\ Throw(c)
  /\ UNCHANGED world

(* The answer is lost: the write may have been taken or not; of a fee that *)
(* was not there may be a claim, and one that was settled may have been    *)
(* committed or not.                                                       *)
submitLost(c) ==
  /\ AtStep(c, "submit", SubStep)
  /\ Accepts(c)
  /\ Fault
  /\ \/ UNCHANGED <<ledger, life, fee, lost>>
     \/ Step(c) \in AccessStep /\ Charge(c, "claimed") /\ UNCHANGED <<ledger, lost>>
     \/ /\ Taken(Step(c))
        /\ lost' = [lost EXCEPT ![Step(c)] = @ + 1]
        /\ IF Step(c) \in AccessStep
           THEN \E state \in {"settled", "committed"} : Charge(c, state)
           ELSE UNCHANGED <<life, fee>>
  /\ calm' = FALSE
  /\ Throw(c)
  /\ UNCHANGED <<planInMemory, actor, calendar, halfSaved, stranger>>

Unjournaled(c) ==
  lost' = IF clients[c].wrote THEN [lost EXCEPT ![Step(c)] = @ + 1] ELSE lost

(* The ceilings are looked at when the write has been made. *)
LimitReached ==
  \/ session.writesUsed + 1 > Cardinality(SubStep)
  \/ daily[today] + 1 > DailyCeiling

limitReached(c) ==
  /\ AtStep(c, "receipt", SubStep)
  /\ LimitReached
  /\ Unjournaled(c)
  /\ Throw(c)
  /\ UNCHANGED <<tender, calendar, odd, ledger, faults>>

(* Counted first, on the date it is, then recorded: the two files are      *)
(* written one by one.  A new date starts from nothing.                    *)
recordDailyWriteSuccess(c) ==
  /\ AtStep(c, "receipt", SubStep)
  /\ ~LimitReached
  /\ daily' = [daily EXCEPT ![today] = @ + 1]
  /\ GoTo(c, "record")
  /\ UNCHANGED <<file, tender, today, closed, late, odd, ledger, lost, faults>>

receipt(c) ==
  /\ AtStep(c, "record", SubStep)
  /\ mutate([session EXCEPT !.writesUsed = @ + 1,
       !.steps[clients[c].id][Step(c)] =
          [status |-> "RECEIPT_CONFIRMED", sequence |-> clients[c].sequence]])
  /\ GoTo(c, "verify")
  /\ UNCHANGED world

receiptFails(c) ==
  /\ AtStep(c, "record", SubStep)
  /\ Fault
  /\ Unjournaled(c)
  /\ calm' = FALSE
  /\ Throw(c)
  /\ UNCHANGED <<tender, calendar, halfSaved, stranger, ledger>>

(* Mutant: the sequence number of a message is not compared. *)
envelopeVerifies(c, s) ==
  s \in FreshEnvelope => clients[c].wrote

(* hcsStep: the message has the sequence number that is expected of it and *)
(* is, to the byte, the envelope this call has built.                      *)
mirrorVerifies(c, s) ==
  s \in HcsStep =>
    /\ session.steps[clients[c].id][s].sequence = expectedSequence(s)
    /\ s \in FreshEnvelope => clients[c].wrote

verify(c) ==
  /\ AtStep(c, "verify", SubStep)
  /\ IF mirrorVerifies(c, Step(c))
     THEN /\ mutate([session EXCEPT !.steps[clients[c].id][Step(c)].status = "VERIFIED"])
          /\ NextStep(c)
     ELSE Throw(c)
  /\ UNCHANGED world

(* The Mirror Node is behind for longer than the call polls it.  A retry   *)
(* verifies the journaled receipt, unless it makes another envelope or     *)
(* another package.                                                        *)
verifyTimesOut(c) ==
  /\ AtStep(c, "verify", SubStep)
  /\ Fault
  /\ calm' = (calm /\ Step(c) \notin FreshEnvelope \cup {"pod-submitted-hcs"})
  /\ Throw(c)
  /\ UNCHANGED <<tender, calendar, halfSaved, stranger, ledger, lost>>

-----------------------------------------------------------------------------
(* Time and the process.                                                   *)

(* The idle or the absolute limit. *)
TimePasses ==
  /\ ~late
  /\ Fault
  /\ late' = TRUE
  /\ calm' = FALSE
  /\ UNCHANGED <<file, tender, today, daily, closed, halfSaved, stranger, clients, ledger,
                 lost>>

(* auctionEndsAt, fixed before the first write and looked at only when the *)
(* tender is open.  A carrier offer that is not in by now will never be.   *)
AuctionEnds ==
  /\ ~closed
  /\ life \in {"TENDER_OPENED", "BIDDING"}
  /\ closed' = TRUE
  /\ calm' = (calm /\ life # "TENDER_OPENED")
  /\ UNCHANGED <<file, tender, today, daily, late, halfSaved, stranger, clients, ledger,
                 lost, faults>>

(* The date is looked at when a write is counted, and only then.           *)
Midnight ==
  /\ today + 1 \in Day
  /\ \E c \in Client : clients[c].pc = "receipt"
  /\ Fault
  /\ today' = today + 1
  /\ UNCHANGED <<file, tender, daily, closed, late, odd, clients, ledger, lost>>

(* Whoever reads the session when its time is over writes EXPIRED, under   *)
(* the feet of an action that may be in flight.                            *)
getSession ==
  /\ late /\ session.workflowState \notin Terminal
  /\ mutate([session EXCEPT !.workflowState = "EXPIRED"])
  /\ UNCHANGED <<clients, world>>

(* Whoever asks for the capabilities, or for a new session, looks at the   *)
(* file of the active one: past its time, the session it names is written  *)
(* EXPIRED whatever it was, and the file is removed.                       *)
activeLive ==
  /\ late /\ active
  /\ session' = [session EXCEPT !.workflowState = "EXPIRED"]
  /\ active' = FALSE
  /\ UNCHANGED <<clients, world>>

(* The process dies and another one takes its place; it may die when the   *)
(* commit has written COMPLETED and not yet released the active session.   *)
Restart ==
  /\ Fault
  /\ clients' = [c \in Client |-> Idle]
  /\ planInMemory' = FALSE
  /\ lost' = [s \in SubStep |->
                IF \E c \in Client : /\ AtStep(c, "receipt", {s}) \/ AtStep(c, "record", {s})
                                     /\ clients[c].wrote
                THEN lost[s] + 1 ELSE lost[s]]
  /\ \/ UNCHANGED <<file, halfSaved>>
     \/ /\ \E c \in Client :
             /\ clients[c].pc = "commit" /\ clients[c].act = "RELEASE_FREIGHT"
             /\ session' = committed(c)
        /\ halfSaved' = TRUE
        /\ UNCHANGED active
  /\ calm' = FALSE
  /\ UNCHANGED <<life, actor, fee, calendar, stranger, ledger>>

Journal(c) ==
  \/ journaled(c)
  \/ submit(c) \/ submitRecovered(c) \/ submitResumed(c) \/ submitRefused(c)
  \/ limitReached(c) \/ recordDailyWriteSuccess(c) \/ receipt(c) \/ verify(c)

Proceed(c) ==
  \/ claim(c) \/ applyLifecycle(c) \/ podWorkflow(c) \/ buildSubmission(c)
  \/ getReleasePlan(c) \/ Journal(c) \/ commit(c)

Fails(c) == submitLost(c) \/ receiptFails(c) \/ verifyTimesOut(c)

Next ==
  \/ \E c \in Client : \/ Proceed(c) \/ Fails(c)
                       \/ \E a \in Action, i \in Id : act(c, a, i)
  \/ TimePasses \/ AuctionEnds \/ Midnight
  \/ getSession \/ activeLive \/ Restart

Spec == Init /\ [][Next]_vars

(* The server goes on with what it has in hand, some caller sends the      *)
(* action that is due again and again, and the auction comes to its end.   *)
FairSpec ==
  /\ Spec
  /\ \A c \in Client : WF_vars(Proceed(c))
  /\ SF_vars(\E c \in Client, a \in Action : act(c, a, "plan"))
  /\ WF_vars(AuctionEnds)

-----------------------------------------------------------------------------
(* Properties.                                                             *)

(* The shape of the state. *)
TypeOK ==
  /\ session.workflowState \in
       {"FAILED", "EXPIRED"} \cup UNION {ToSet(ACTION_TRANSITIONS[a]) : a \in Action}
  /\ session.inFlightActionId \in (Action \X Id) \cup {None}
  /\ \A i \in Id, s \in SubStep :
       session.steps[i][s].status \in {"NONE", "PLANNED", "RECEIPT_CONFIRMED", "VERIFIED"}
  /\ ledger \in Seq(SubStep)

(* A write is made again only when the call that made it did not get to    *)
(* journal its receipt, whatever action ids its callers use; a receipt     *)
(* that is journaled is re-verified after any failure or restart and       *)
(* "never resubmitted"; what moves money on the contract is never made     *)
(* twice, and an action id is charged its access fee once.  And the        *)
(* accounts err on the safe side: the session counts its receipts, the     *)
(* days it spans count no fewer, and what they do not count was lost       *)
(* before the journal saw it: refused by a ceiling that is looked at too   *)
(* late, unanswered, or cut off by a failure.                              *)
JournalIsRight ==
  /\ \A s \in SubStep : Writes(s) <= 1 + lost[s]
  /\ \A s \in ContractStep : Writes(s) <= 1
  /\ \A s \in AccessStep : Writes(s) = Cardinality({i \in Id : fee[s][i] \in {"settled", "committed"}})
  /\ session.writesUsed = Cardinality({e \in Id \X SubStep : Receipted(e[1], e[2])})
  /\ LET counted == MapThenSumSet(LAMBDA d : daily[d], Day)
     IN  /\ session.writesUsed <= counted
         /\ Len(ledger) <= counted + MapThenSumSet(LAMBDA s : lost[s], SubStep)
                             + Cardinality({c \in Client : clients[c].pc = "receipt"})

(* The actions that lead to a state. *)
PathTo(state) ==
  {LIVE_SUCCESSFUL_PATH[i] : i \in
    {j \in DOMAIN LIVE_SUCCESSFUL_PATH :
       \E k \in j..Len(LIVE_SUCCESSFUL_PATH) :
         ACTION_TRANSITIONS[LIVE_SUCCESSFUL_PATH[k]][2] = state}}

(* What the session has confirmed has been done, once and in order: each   *)
(* action behind its state was committed under one id, every write of it   *)
(* is on the network and verified, the sequence numbers are 1, 2, 3 ...    *)
(* without a gap or a repetition, and a session confirmed as COMPLETED     *)
(* means the freight paid, the tender completed and exactly its five       *)
(* messages on the topic, whoever retried or raced and whether or not its  *)
(* time was over.  It goes on saying so but in two cases: a kill between   *)
(* the two files of that commit, after which activeLive writes EXPIRED     *)
(* over it; and a request under another id, which may claim the session    *)
(* after the commit and, refused by the contract, leave it FAILED.         *)
ConfirmedIsDone ==
  /\ {r[1] : r \in session.actionResults} = PathTo(session.lastConfirmedState)
  /\ \A r, q \in session.actionResults : r[1] = q[1] => r = q
  /\ \A r \in session.actionResults : \A s \in SubSteps(r[1]) :
       session.steps[r[2]][s].status = "VERIFIED" /\ Writes(s) > 0
  /\ \A i \in DOMAIN session.hcsSequences : session.hcsSequences[i] = i
  /\ session.lastConfirmedState = "COMPLETED" =>
       /\ life = "TENDER_COMPLETED"
       /\ topic = HcsSteps /\ Len(session.hcsSequences) = 5
       /\ \/ session.workflowState = "COMPLETED"
          \/ session.workflowState = "EXPIRED" /\ halfSaved
          \/ session.workflowState \in {"FAILED", "EXPIRED"} /\ stranger

(* A Mirror Node that is behind costs the session nothing but its time: as *)
(* long as nothing worse happens and the carrier's offer is in before the  *)
(* auction ends, retries of the same actions complete it.                  *)
MirrorDelayIsRecovered == []calm => <>(session.workflowState = "COMPLETED")
=============================================================================
