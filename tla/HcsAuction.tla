----------------------------- MODULE HcsAuction -----------------------------
(***************************************************************************)
(* A sealed-bid auction on one HCS topic (src/auction/state-machine.ts,     *)
(* src/auction/closure-proof.ts and their caller                            *)
(* scripts/hcs-auction-demo.ts).                                            *)
(*                                                                         *)
(* The topic is shared: messages of several writers, repeated messages,     *)
(* messages of other runs, late commitments and second barriers may reach   *)
(* it in any order, each with the consensus timestamp the network gives it. *)
(* Evaluators work independently of each other.  Each reads the Mirror Node *)
(* once, sees the messages indexed so far with possible gaps, and runs the  *)
(* engine of AuctionSelection and the auction state machine on what it saw. *)
(***************************************************************************)
EXTENDS AuctionSelection

CONSTANTS
  Evaluators,    \* independent processes that evaluate the auction
  Envelopes,     \* envelopes the writers may submit
  Materials,     \* private evidence the auction may have been prepared with
  MaxTime,       \* bound on consensus timestamps
  MaxMessages    \* bound on the messages of the topic

ASSUME AuctionConstants ==
  /\ MaxTime \in Nat
  /\ MaxMessages \in Nat
  \* The OPEN of this run is the operator's and announces the tender's deadline:
  \* the reconciliation compares the barrier with OPEN, not with the tender.
  /\ \A e \in Envelopes :
       (e.messageType = "AUCTION_OPEN" /\ e.runId = ThisRun)
         => e.auctionEndsAt = AuctionEndsAt
  \* BidIds has every identifier a commitment may name, the ones included for
  \* which no evidence was submitted.
  /\ \A e \in Envelopes : e.messageType = "BID_COMMITMENT" => e.bidId \in BidIds
  \* validateReconciliationInputs refuses evidence filed under another bid.
  /\ \A m \in Materials :
       /\ {m.fullBids, m.acceptanceReceipts} \subseteq [BidIds -> CarrierBid \cup {NoBid}]
       /\ \A b \in BidIds : \A bid \in {m.fullBids[b], m.acceptanceReceipts[b]} :
            bid # NoBid => bid.bidId = b

VARIABLES
  topic,      \* the messages of the topic, in sequence order
  materials,  \* the bids and receipts submitted privately, fixed before OPEN
  ctx         \* AuctionMachineContext of every evaluator

vars == <<topic, materials, ctx>>

Message == [envelope : Envelopes, consensusTimestamp : 0 .. MaxTime]

-----------------------------------------------------------------------------
(* The auction state machine.                                               *)

LEGAL ==
  [ DRAFT |-> {"OPEN"},
    OPEN |-> {"BIDDING"},
    BIDDING |-> {"AUCTION_RECONCILIATION_PENDING"},
    AUCTION_RECONCILIATION_PENDING |-> {"AUCTION_CLOSED", "INCOMPLETE_HCS_WINDOW"},
    AUCTION_CLOSED |-> {"WINNER_SELECTED", "NO_QUALIFIED_BID"},
    WINNER_SELECTED |-> {},
    NO_QUALIFIED_BID |-> {},
    INCOMPLETE_HCS_WINDOW |-> {} ]

AuctionState == DOMAIN LEGAL

NoProof == [results |-> {}]

createAuctionMachine == [state |-> "DRAFT", closureProof |-> NoProof]

\* One legal transition of the machine.
assertLegal(from, to) == to \in LEGAL[from]

MoveTo(c, to, proof) == [state |-> to, closureProof |-> proof]

\* The path every evaluation takes before it looks at the closure:
\* transitionToOpen, transitionToBidding and transitionToReconciliation, the
\* last only once the deadline has passed.
PendingMachine == MoveTo(createAuctionMachine, "AUCTION_RECONCILIATION_PENDING", NoProof)

ReachesPending(now) ==
  /\ assertLegal(createAuctionMachine.state, "OPEN")
  /\ assertLegal("OPEN", "BIDDING")
  /\ assertLegal("BIDDING", PendingMachine.state)
  /\ AuctionEndsAt <= now

\* Recomputed from the sequences a proof took over from its closure.
RangeComplete(proof) ==
  isSequenceRangeComplete(1, proof.reconciledEndSequence, proof.observedSequences)

CanClose(c, proof) ==
  /\ assertLegal(c.state, "AUCTION_CLOSED")
  /\ RangeComplete(proof)
  /\ AuctionEndsAt <= proof.evaluationTimestamp
  /\ AuctionEndsAt <= proof.closeBarrierConsensusTimestamp

transitionToClosed(c, proof) == MoveTo(c, "AUCTION_CLOSED", proof)

\* The code keeps the incomplete proof too; nothing reads it again.
transitionToIncompleteHcsWindow(c) == MoveTo(c, "INCOMPLETE_HCS_WINDOW", NoProof)

\* The winner is ranked again from the proof's results and must be the
\* manifest's.
CanSelectWinner(c) ==
  /\ assertLegal(c.state, "WINNER_SELECTED")
  /\ rankQualifiedBids(c.closureProof.results) # {}
  /\ c.closureProof.manifest.winningBid = selectWinner(c.closureProof.results).bid

transitionToWinnerSelected(c) == MoveTo(c, "WINNER_SELECTED", c.closureProof)

CanDeclareNoQualifiedBid(c) ==
  /\ assertLegal(c.state, "NO_QUALIFIED_BID")
  /\ rankQualifiedBids(c.closureProof.results) = {}
  /\ c.closureProof.manifest.winningBid = NoBid

transitionToNoQualifiedBid(c) == MoveTo(c, "NO_QUALIFIED_BID", c.closureProof)

-----------------------------------------------------------------------------
Init ==
  /\ topic = <<>>
  /\ materials \in Materials
  /\ ctx = [e \in Evaluators |-> createAuctionMachine]

\* A writer's message reaches consensus: it gets the next sequence number and
\* a timestamp not before that of the message ahead of it.
submitMessage(envelope, t) ==
  /\ Len(topic) < MaxMessages
  /\ topic # <<>> => topic[Len(topic)].consensusTimestamp <= t
  /\ topic' = Append(topic, [envelope |-> envelope, consensusTimestamp |-> t])
  /\ UNCHANGED <<materials, ctx>>

\* What a read of the Mirror Node returns: some of the messages so far.
Observed(view) == [s \in view |-> topic[s]]

\* The evaluation starts when the barrier has been confirmed, so a read returns
\* some part of a topic that has one.
Views ==
  IF OfType(topic, "AUCTION_CLOSE_BARRIER") = {} THEN {} ELSE SUBSET DOMAIN topic

\* The closure an evaluator derives from a reconciled observation.
ReconciledClosure(messages) == ClosureOf(messages, TheBarrier(messages))

(* Mutant: the evaluation trusts the proof factory with any barrier it saw and *)
(* does not reconcile the window.                                             *)
EvaluateUnreconciled(e, messages) ==
  \E barrier \in OfType(messages, "AUCTION_CLOSE_BARRIER") :
    LET closure == ClosureOf(messages, barrier)
        proof   == createAuctionClosureProof(closure, materials)
        closed  == transitionToClosed(PendingMachine, proof)
    IN  /\ ctx[e].state = "DRAFT"
        /\ ClosureInputsValid(closure)
        /\ ReachesPending(closure.evaluationTimestamp)
        /\ CanClose(PendingMachine, proof)
        /\ \/ /\ CanSelectWinner(closed)
              /\ ctx' = [ctx EXCEPT ![e] = transitionToWinnerSelected(closed)]
           \/ /\ CanDeclareNoQualifiedBid(closed)
              /\ ctx' = [ctx EXCEPT ![e] = transitionToNoQualifiedBid(closed)]
        /\ UNCHANGED <<topic, materials>>

\* The whole evaluation: read the Mirror Node, reconcile the window, build and
\* verify the closure proof, drive the machine to its terminal state.  An
\* evaluation that throws anywhere changes nothing.  The demo script ends with
\* an error when a commitment is late or nobody qualifies; here the evaluation
\* goes on to what the engine and the state machine provide for these cases.
Evaluate(e, messages) ==
  LET closure == ReconciledClosure(messages)
      proof   == createAuctionClosureProof(closure, materials)
      closed  == transitionToClosed(PendingMachine, proof)
  IN  /\ ctx[e].state = "DRAFT"
      /\ reconcileMirrorMessages(messages)
      /\ ClosureInputsValid(closure)
      /\ verifyDecisionManifestIntegrity(proof.manifest, proof.results)
      /\ ReachesPending(closure.evaluationTimestamp)
      /\ CanClose(PendingMachine, proof)
      /\ \/ /\ CanSelectWinner(closed)
            /\ ctx' = [ctx EXCEPT ![e] = transitionToWinnerSelected(closed)]
         \/ /\ CanDeclareNoQualifiedBid(closed)
            /\ ctx' = [ctx EXCEPT ![e] = transitionToNoQualifiedBid(closed)]
      /\ UNCHANGED <<topic, materials>>

\* An observation with a barrier but without all the messages before it, from
\* which a proof can be built all the same: this path does not reconcile.
IncompleteWindow(messages) ==
  \E barrier \in OfType(messages, "AUCTION_CLOSE_BARRIER") :
    LET closure == ClosureOf(messages, barrier)
    IN  /\ ReachesPending(messages[barrier].consensusTimestamp)
        /\ ~ RangeComplete(closure)
        /\ ClosureInputsValid(closure)

\* An evaluator that saw such a window marks its machine instead of closing it.
MarkIncomplete(e) ==
  /\ ctx[e].state = "DRAFT"
  /\ assertLegal(PendingMachine.state, "INCOMPLETE_HCS_WINDOW")
  /\ {view \in Views : IncompleteWindow(Observed(view))} # {}
  /\ ctx' = [ctx EXCEPT ![e] = transitionToIncompleteHcsWindow(PendingMachine)]
  /\ UNCHANGED <<topic, materials>>

Next ==
  \/ \E envelope \in Envelopes, t \in 0 .. MaxTime : submitMessage(envelope, t)
  \/ \E e \in Evaluators, view \in Views : Evaluate(e, Observed(view))
  \/ \E e \in Evaluators : MarkIncomplete(e)

Spec == Init /\ [][Next]_vars

-----------------------------------------------------------------------------
(* Properties.                                                              *)

Decided(e) == ctx[e].state \in {"WINNER_SELECTED", "NO_QUALIFIED_BID"}

\* Type correctness: the topic holds timestamped envelopes in consensus order
\* and every machine is in one of the states of state-machine.ts, with the
\* closure proof that a decided machine carries.
TypeOK ==
  /\ topic \in Seq(Message)
  /\ materials \in Materials
  /\ DOMAIN ctx = Evaluators
  /\ \A e \in Evaluators :
       /\ ctx[e].state \in AuctionState
       /\ Decided(e) => ctx[e].closureProof # NoProof

\* Evaluators that decide, decide the same: whenever they read the Mirror Node
\* and whatever reached the topic since, two evaluators that get through
\* reconcileMirrorMessages and transitionToClosed hold the same results, the
\* same manifest and the same terminal state.
EvaluatorsAgree ==
  \A e, f \in Evaluators : Decided(e) /\ Decided(f) => ctx[e] = ctx[f]

\* The commitments of this run that reached consensus by the deadline,
\* anywhere on the topic as it is now.
TimelyCommitments ==
  {s \in DOMAIN topic :
     /\ topic[s].envelope.messageType = "BID_COMMITMENT"
     /\ topic[s].envelope.runId = ThisRun
     /\ topic[s].consensusTimestamp <= AuctionEndsAt}

\* No timely commitment is left out: once an evaluator has decided, every
\* commitment of this run on the topic that is timely, also one that reached
\* the topic after the decision, was evaluated.  The close barrier can make
\* this promise only because it comes strictly after the deadline.
NoTimelyBidLeftOut ==
  \A e \in Evaluators : Decided(e) =>
    TimelyCommitments \subseteq {r.hcsSequence : r \in ctx[e].closureProof.results}

\* The offer a commitment on the topic stands for qualifies when it is the one
\* lodged privately, RouteGuard accepted it, it is still valid at the barrier
\* and it respects the tender.
Qualifies(s, barrierTime) ==
  LET c   == topic[s].envelope
      bid == materials.fullBids[c.bidId]
  IN  /\ bid # NoBid
      /\ c.bidHash = bid
      /\ c.acceptanceReceiptHash = bid
      /\ materials.acceptanceReceipts[c.bidId] = bid
      /\ bid.bidValidUntil >= barrierTime
      /\ bid.estimatedDelivery <= DeliveryDeadline
      /\ bid.freightPriceCents <= MaximumFreightPriceCents
      /\ bid.faults = {}

\* The order LOWEST_QUALIFIED_PRICE_V1 announces to carriers (rules.ts): price,
\* then delivery, then consensus time, then bid identifier.
RankKey(s) ==
  LET bid == materials.fullBids[topic[s].envelope.bidId]
  IN  << bid.freightPriceCents, bid.estimatedDelivery,
         topic[s].consensusTimestamp, bid.bidId >>

LexLess(k, l) ==
  \E i \in 1 .. 4 : k[i] < l[i] /\ \A j \in 1 .. i - 1 : k[j] = l[j]

\* The decision is the right one for the topic itself, not just for what the
\* evaluator saw: the winner is a timely qualified offer that no other timely
\* qualified offer on the topic ranks before, and there is no winner only if
\* there is no such offer.
DecisionIsRight ==
  \A e \in Evaluators : Decided(e) =>
    LET proof == ctx[e].closureProof
        candidates == {s \in TimelyCommitments :
                         Qualifies(s, proof.evaluationTimestamp)}
        winners == {s \in candidates :
                      \A t \in candidates \ {s} : LexLess(RankKey(s), RankKey(t))}
    IN  IF ctx[e].state = "NO_QUALIFIED_BID"
        THEN candidates = {}
        ELSE \E s \in winners : proof.manifest.winningBid = topic[s].envelope.bidHash
=============================================================================
