-------------------------- MODULE HcsAuctionProofs --------------------------
(***************************************************************************)
(* Theorems about HcsAuction, for any evaluators, envelopes, evidence and   *)
(* bounds.  The argument: a window that passes reconcileMirrorMessages is a *)
(* prefix of the topic that ends with the topic's first barrier, whatever   *)
(* gaps the Mirror Node's answer might have had.  The topic is append-only, *)
(* so this prefix never changes; every decision is a function of it.        *)
(***************************************************************************)
EXTENDS HcsAuction, FiniteSetTheorems, WellFoundedInduction, TLAPS

IsBarrier(s) == topic[s].envelope.messageType = "AUCTION_CLOSE_BARRIER"

\* The window of the topic that ends at sequence n.
Window(n) == [s \in 1 .. n |-> topic[s]]

IsCommitment(s) == topic[s].envelope.messageType = "BID_COMMITMENT"

\* The commitments of that window.
Commitments(n) == {s \in 1 .. n : IsCommitment(s)}

\* Sequence n holds the topic's first barrier, strictly after the deadline, and
\* no message up to it is of another run.
ClosedAt(n) ==
  /\ n \in DOMAIN topic
  /\ IsBarrier(n)
  /\ \A s \in 1 .. n - 1 : ~ IsBarrier(s)
  /\ topic[n].consensusTimestamp > AuctionEndsAt
  /\ \A s \in 1 .. n : topic[s].envelope.runId = ThisRun

\* No bid is committed to twice by sequence n.
OneCommitmentPerBid(n) ==
  \A s, t \in Commitments(n) : topic[s].envelope.bidId = topic[t].envelope.bidId => s = t

WindowProof(n) == createAuctionClosureProof(ClosureOf(Window(n), n), materials)

\* The context in which an evaluation of the window that ends at n ends.
Decision(n) ==
  [ state |-> IF rankQualifiedBids(WindowProof(n).results) = {}
              THEN "NO_QUALIFIED_BID" ELSE "WINNER_SELECTED",
    closureProof |-> WindowProof(n) ]

TopicOrdered ==
  \A s, t \in DOMAIN topic :
    s <= t => topic[s].consensusTimestamp <= topic[t].consensusTimestamp

DecidedByWindow ==
  \A e \in Evaluators : Decided(e) =>
    \E n \in DOMAIN topic :
      ClosedAt(n) /\ OneCommitmentPerBid(n) /\ ctx[e] = Decision(n)

\* The inductive invariant.
IInv ==
  /\ TypeOK
  /\ TopicOrdered
  /\ DecidedByWindow

-----------------------------------------------------------------------------
(* compareRankedBids never ties two different bids and never prefers each   *)
(* of two bids to the other, so the sort of rankQualifiedBids cannot depend *)
(* on the order of its input.                                               *)
THEOREM RankingTotal ==
  ASSUME NEW a, NEW b,
         a.bid.freightPriceCents \in Nat, b.bid.freightPriceCents \in Nat,
         a.bid.estimatedDelivery \in Nat, b.bid.estimatedDelivery \in Nat,
         a.consensusTimestamp \in Nat, b.consensusTimestamp \in Nat,
         a.bidId \in Nat, b.bidId \in Nat, a.bidId # b.bidId
  PROVE  /\ compareRankedBids(a, b) # 0
         /\ compareRankedBids(a, b) < 0 <=> compareRankedBids(b, a) > 0
BY DEF compareRankedBids

(* Three bids are never ranked in a circle.                                 *)
THEOREM RankingTransitive ==
  ASSUME NEW a, NEW b, NEW c,
         a.bid.freightPriceCents \in Nat, b.bid.freightPriceCents \in Nat,
         c.bid.freightPriceCents \in Nat,
         a.bid.estimatedDelivery \in Nat, b.bid.estimatedDelivery \in Nat,
         c.bid.estimatedDelivery \in Nat,
         a.consensusTimestamp \in Nat, b.consensusTimestamp \in Nat,
         c.consensusTimestamp \in Nat,
         a.bidId \in Nat, b.bidId \in Nat, c.bidId \in Nat,
         compareRankedBids(a, b) < 0, compareRankedBids(b, c) < 0
  PROVE  compareRankedBids(a, c) < 0
BY DEF compareRankedBids

-----------------------------------------------------------------------------
(* Every message on the topic is a timestamped envelope of a writer.        *)
LEMMA TopicMessages ==
  ASSUME topic \in Seq(Message), NEW s \in DOMAIN topic
  PROVE  /\ topic[s].envelope \in Envelopes
         /\ topic[s].consensusTimestamp \in 0 .. MaxTime
<1>1. topic[s] \in Message
  OBVIOUS
<1> QED BY <1>1 DEF Message

(* A set of sequences of an observation that has one member is that member. *)
LEMMA OneSequence ==
  ASSUME TypeOK, NEW view \in Views, NEW messages,
         messages = Observed(view), NEW type,
         Cardinality(OfType(messages, type)) = 1
  PROVE  \E s \in DOMAIN messages : OfType(messages, type) = {s}
<1>1. view \in SUBSET DOMAIN topic /\ messages = [s \in view |-> topic[s]]
  BY DEF Views, Observed
<1>2. DOMAIN topic = 1 .. Len(topic) /\ Len(topic) \in Nat
  BY DEF TypeOK
<1>3. IsFiniteSet(DOMAIN topic)
  BY <1>2, FS_Interval
<1>4. OfType(messages, type) \in SUBSET DOMAIN topic
  BY <1>1 DEF OfType
<1>5. IsFiniteSet(OfType(messages, type))
  BY <1>3, <1>4, FS_Subset
<1>6. PICK s : OfType(messages, type) = {s}
  BY <1>5, FS_Singleton
<1>7. s \in DOMAIN messages
  BY <1>6 DEF OfType
<1> QED BY <1>6, <1>7

(* A window that passes reconcileMirrorMessages is the part of the topic up *)
(* to the topic's first barrier, which comes strictly after the deadline.   *)
LEMMA ReconciledIsWindow ==
  ASSUME TypeOK, NEW view \in Views, NEW messages,
         messages = Observed(view), reconcileMirrorMessages(messages)
  PROVE  /\ ClosedAt(TheBarrier(messages))
         /\ messages = Window(TheBarrier(messages))
<1>1. view \in SUBSET DOMAIN topic /\ messages = [s \in view |-> topic[s]]
  BY DEF Views, Observed
<1>2. DOMAIN topic = 1 .. Len(topic) /\ Len(topic) \in Nat
  BY DEF TypeOK
<1>3. PICK b \in DOMAIN messages : OfType(messages, "AUCTION_CLOSE_BARRIER") = {b}
  BY OneSequence DEF reconcileMirrorMessages, OneOpenOneBarrier
<1>4. PICK o \in DOMAIN messages : OfType(messages, "AUCTION_OPEN") = {o}
  BY OneSequence DEF reconcileMirrorMessages, OneOpenOneBarrier
<1>5. TheBarrier(messages) = b /\ TheOpen(messages) = o
  BY <1>3, <1>4 DEF TheBarrier, TheOpen
<1>6. DOMAIN messages = 1 .. b
  BY <1>5 DEF reconcileMirrorMessages, WindowComplete, isSequenceRangeComplete
<1>7. messages = Window(b)
  BY <1>1, <1>6 DEF Window
<1>8. b \in DOMAIN topic /\ o \in DOMAIN topic
  BY <1>1
<1>9. IsBarrier(b)
  BY <1>1, <1>3 DEF OfType, IsBarrier
<1>10. ASSUME NEW s \in 1 .. b - 1
       PROVE  ~ IsBarrier(s)
  <2>1. b \in Nat
    BY <1>2, <1>8
  <2>2. s \in DOMAIN messages /\ s # b
    BY <1>6, <2>1
  <2>3. s \notin OfType(messages, "AUCTION_CLOSE_BARRIER")
    BY <1>3, <2>2
  <2> QED BY <1>1, <2>2, <2>3 DEF OfType, IsBarrier
<1>11. topic[o].envelope \in Envelopes
  BY <1>8, TopicMessages DEF TypeOK
<1>12. /\ topic[o].envelope.messageType = "AUCTION_OPEN"
       /\ topic[o].envelope.runId = ThisRun
  <2>1. messages[o] = topic[o]
    BY <1>1
  <2>2. messages[o].envelope.runId = ThisRun
    BY DEF reconcileMirrorMessages, IdentityBound
  <2> QED BY <1>4, <2>1, <2>2 DEF OfType
<1>13. topic[o].envelope.auctionEndsAt = AuctionEndsAt
  BY <1>11, <1>12, AuctionConstants
<1>14. topic[b].consensusTimestamp > AuctionEndsAt
  <2>1. messages[o] = topic[o] /\ messages[b] = topic[b]
    BY <1>1
  <2> QED BY <1>5, <1>13, <2>1 DEF reconcileMirrorMessages, BarrierBinds
<1>15. ASSUME NEW s \in 1 .. b PROVE topic[s].envelope.runId = ThisRun
  <2>1. s \in DOMAIN messages /\ messages[s] = topic[s]
    BY <1>1, <1>6
  <2> QED BY <2>1 DEF reconcileMirrorMessages, IdentityBound
<1> QED BY <1>5, <1>7, <1>8, <1>9, <1>10, <1>14, <1>15 DEF ClosedAt

(* The evidence of the commitments of a window, as its closure has it.      *)
LEMMA WindowEvidence ==
  ASSUME NEW n \in Nat
  PROVE  /\ ClosureOf(Window(n), n).commitments =
              {CommitmentEvidence(Window(n), s) : s \in Commitments(n)}
         /\ \A s \in Commitments(n) :
              CommitmentEvidence(Window(n), s) =
                [ bidId |-> topic[s].envelope.bidId,
                  bidHash |-> topic[s].envelope.bidHash,
                  acceptanceReceiptHash |-> topic[s].envelope.acceptanceReceiptHash,
                  hcsSequence |-> s,
                  consensusTimestamp |-> topic[s].consensusTimestamp ]
<1>1. DOMAIN Window(n) = 1 .. n /\ \A s \in 1 .. n : Window(n)[s] = topic[s]
  BY DEF Window
<1>2. {t \in OfType(Window(n), "BID_COMMITMENT") : t <= n} = Commitments(n)
  BY <1>1 DEF OfType, Commitments, IsCommitment
<1>3. ClosureOf(Window(n), n).commitments =
        {CommitmentEvidence(Window(n), s) : s \in Commitments(n)}
  BY <1>2 DEF ClosureOf, commitmentEvidence
<1> QED BY <1>1, <1>3 DEF CommitmentEvidence, Commitments

(* A proof of the factory is not the empty proof of a fresh machine.        *)
LEMMA ProofIsNotNoProof ==
  ASSUME NEW closure, NEW mat
  PROVE  createAuctionClosureProof(closure, mat) # NoProof
<1>1. "manifest" \in DOMAIN createAuctionClosureProof(closure, mat)
  BY DEF createAuctionClosureProof
<1>2. "manifest" \notin DOMAIN NoProof
  BY DEF NoProof
<1> QED BY <1>1, <1>2

(* An evaluation ends with the decision of the window it reconciled.        *)
LEMMA EvaluateDecides ==
  ASSUME TypeOK, NEW e \in Evaluators, NEW view \in Views, NEW messages,
         messages = Observed(view),
         Evaluate(e, messages)
  PROVE  \E n \in DOMAIN topic :
           /\ ClosedAt(n) /\ OneCommitmentPerBid(n)
           /\ ctx' = [ctx EXCEPT ![e] = Decision(n)]
<1> DEFINE n == TheBarrier(messages)
           closed == transitionToClosed(PendingMachine, WindowProof(n))
<1>1. ClosedAt(n) /\ messages = Window(n)
  BY ReconciledIsWindow DEF Evaluate
<1>2. createAuctionClosureProof(ReconciledClosure(messages), materials) = WindowProof(n)
  BY <1>1 DEF ReconciledClosure, WindowProof
<1>3. closed.closureProof = WindowProof(n)
  BY DEF transitionToClosed, MoveTo
<1>4. \/ /\ CanSelectWinner(closed)
         /\ ctx' = [ctx EXCEPT ![e] = transitionToWinnerSelected(closed)]
      \/ /\ CanDeclareNoQualifiedBid(closed)
         /\ ctx' = [ctx EXCEPT ![e] = transitionToNoQualifiedBid(closed)]
  BY <1>2 DEF Evaluate
<1>5. ctx' = [ctx EXCEPT ![e] = Decision(n)]
  <2>1. CASE /\ CanSelectWinner(closed)
             /\ ctx' = [ctx EXCEPT ![e] = transitionToWinnerSelected(closed)]
    <3>1. rankQualifiedBids(WindowProof(n).results) # {}
      BY <1>3, <2>1 DEF CanSelectWinner
    <3>2. transitionToWinnerSelected(closed) = Decision(n)
      BY <1>3, <3>1 DEF transitionToWinnerSelected, MoveTo, Decision
    <3> QED BY <2>1, <3>2
  <2>2. CASE /\ CanDeclareNoQualifiedBid(closed)
             /\ ctx' = [ctx EXCEPT ![e] = transitionToNoQualifiedBid(closed)]
    <3>1. rankQualifiedBids(WindowProof(n).results) = {}
      BY <1>3, <2>2 DEF CanDeclareNoQualifiedBid
    <3>2. transitionToNoQualifiedBid(closed) = Decision(n)
      BY <1>3, <3>1 DEF transitionToNoQualifiedBid, MoveTo, Decision
    <3> QED BY <2>2, <3>2
  <2> QED BY <1>4, <2>1, <2>2
<1>6. n \in DOMAIN topic /\ n \in Nat
  BY <1>1 DEF ClosedAt, TypeOK
<1>7. OneCommitmentPerBid(n)
  <2>1. ClosureInputsValid(ClosureOf(Window(n), n))
    BY <1>1 DEF Evaluate, ReconciledClosure
  <2> SUFFICES ASSUME NEW s \in Commitments(n), NEW t \in Commitments(n),
                      topic[s].envelope.bidId = topic[t].envelope.bidId
               PROVE  s = t
    BY DEF OneCommitmentPerBid
  <2> DEFINE c == CommitmentEvidence(Window(n), s)
             d == CommitmentEvidence(Window(n), t)
  <2> HIDE DEF n
  <2>2. /\ c \in ClosureOf(Window(n), n).commitments
        /\ d \in ClosureOf(Window(n), n).commitments
    BY <1>6, WindowEvidence
  <2>3. c.bidId = d.bidId /\ c.hcsSequence = s /\ d.hcsSequence = t
    BY <1>6, WindowEvidence
  <2>4. c = d
    BY <2>1, <2>2, <2>3 DEF ClosureInputsValid
  <2> QED BY <2>3, <2>4
<1> QED BY <1>1, <1>5, <1>6, <1>7

-----------------------------------------------------------------------------
(* Initially nobody has decided and the topic is empty.                     *)
LEMMA InitEstablishes == Init => IInv
<1> SUFFICES ASSUME Init PROVE IInv
  OBVIOUS
<1>1. topic = <<>> /\ materials \in Materials /\ DOMAIN ctx = Evaluators
  BY DEF Init
<1>2. \A e \in Evaluators : ctx[e].state = "DRAFT"
  BY DEF Init, createAuctionMachine
<1>3. \A e \in Evaluators : ~ Decided(e)
  BY <1>2 DEF Decided
<1>4. "DRAFT" \in AuctionState
  BY DEF AuctionState, LEGAL
<1>5. TypeOK
  BY <1>1, <1>2, <1>3, <1>4 DEF TypeOK
<1>6. TopicOrdered
  BY <1>1 DEF TopicOrdered
<1> QED BY <1>3, <1>5, <1>6 DEF IInv, DecidedByWindow

(* A message appended to the topic changes no window that was closed before. *)
LEMMA SubmitPreserves ==
  ASSUME IInv, NEW envelope \in Envelopes, NEW t \in 0 .. MaxTime,
         submitMessage(envelope, t)
  PROVE  IInv'
<1> DEFINE msg == [envelope |-> envelope, consensusTimestamp |-> t]
<1> USE DEF IInv
<1>1. topic \in Seq(Message) /\ topic' = Append(topic, msg)
  BY DEF TypeOK, submitMessage
<1>2. materials' = materials /\ ctx' = ctx
  BY DEF submitMessage
<1>3. msg \in Message
  BY DEF Message
<1>4. /\ topic' \in Seq(Message)
      /\ Len(topic') = Len(topic) + 1
      /\ DOMAIN topic = 1 .. Len(topic) /\ DOMAIN topic' = 1 .. Len(topic) + 1
      /\ Len(topic) \in Nat
      /\ \A s \in DOMAIN topic : topic'[s] = topic[s]
      /\ topic'[Len(topic) + 1] = msg
  BY <1>1, <1>3
<1>5. TypeOK'
  BY <1>2, <1>4 DEF TypeOK, Decided
<1>6. TopicOrdered'
  <2> SUFFICES ASSUME NEW i \in DOMAIN topic', NEW j \in DOMAIN topic', i <= j
               PROVE  topic'[i].consensusTimestamp <= topic'[j].consensusTimestamp
    BY DEF TopicOrdered
  <2>0. \A s \in DOMAIN topic : topic[s].consensusTimestamp \in 0 .. MaxTime
    BY <1>1, TopicMessages
  <2>1. CASE j \in DOMAIN topic
    BY <1>4, <2>1 DEF TopicOrdered
  <2>2. CASE j = Len(topic) + 1 /\ i \in DOMAIN topic
    <3>1. Len(topic) \in DOMAIN topic /\ i <= Len(topic) /\ topic # <<>>
      BY <1>4, <2>2
    <3>2. topic[i].consensusTimestamp <= topic[Len(topic)].consensusTimestamp
      BY <3>1, <2>2 DEF TopicOrdered
    <3>3. topic[Len(topic)].consensusTimestamp <= t
      BY <3>1 DEF submitMessage
    <3> QED BY <1>4, <2>0, <2>2, <3>1, <3>2, <3>3, AuctionConstants
  <2>3. CASE j = Len(topic) + 1 /\ i = Len(topic) + 1
    BY <1>4, <2>3, AuctionConstants
  <2> QED BY <1>4, <2>1, <2>2, <2>3
<1>7. DecidedByWindow'
  <2> SUFFICES ASSUME NEW e \in Evaluators, Decided(e)'
               PROVE  (\E n \in DOMAIN topic :
                         ClosedAt(n) /\ OneCommitmentPerBid(n) /\ ctx[e] = Decision(n))'
    BY DEF DecidedByWindow
  <2>1. Decided(e)
    BY <1>2 DEF Decided
  <2>2. PICK n \in DOMAIN topic :
          ClosedAt(n) /\ OneCommitmentPerBid(n) /\ ctx[e] = Decision(n)
    BY <2>1 DEF DecidedByWindow
  <2>3. Window(n)' = Window(n)
    BY <1>4 DEF Window
  <2>4. Decision(n)' = Decision(n)
    BY <1>2, <2>3 DEF Decision, WindowProof
  <2>5. ClosedAt(n)'
    <3>1. n \in Nat /\ n \in DOMAIN topic' /\ \A s \in 1 .. n : topic'[s] = topic[s]
      BY <1>4
    <3>2. /\ IsBarrier(n)' = IsBarrier(n)
          /\ \A s \in 1 .. n - 1 : IsBarrier(s)' = IsBarrier(s)
      BY <1>4, <3>1 DEF IsBarrier
    <3> QED BY <1>4, <2>2, <3>1, <3>2 DEF ClosedAt
  <2>6. OneCommitmentPerBid(n)'
    BY <1>4, <2>2 DEF OneCommitmentPerBid, Commitments, IsCommitment
  <2> QED BY <1>2, <1>4, <2>2, <2>4, <2>5, <2>6
<1> QED BY <1>5, <1>6, <1>7

(* An evaluation gives one machine the decision of a closed window.         *)
LEMMA EvaluatePreserves ==
  ASSUME IInv, NEW e \in Evaluators, NEW view \in Views, NEW messages,
         messages = Observed(view),
         Evaluate(e, messages)
  PROVE  IInv'
<1> USE DEF IInv
<1>1. topic' = topic /\ materials' = materials
  BY DEF Evaluate
<1>2. PICK n \in DOMAIN topic :
        ClosedAt(n) /\ OneCommitmentPerBid(n) /\ ctx' = [ctx EXCEPT ![e] = Decision(n)]
  BY EvaluateDecides
<1>3. /\ DOMAIN ctx' = Evaluators
      /\ ctx'[e] = Decision(n)
      /\ \A f \in Evaluators \ {e} : ctx'[f] = ctx[f]
  BY <1>2 DEF TypeOK
<1>4. Decision(n).state \in AuctionState
  BY DEF Decision, AuctionState, LEGAL
<1>5. Decision(n).closureProof # NoProof
  BY ProofIsNotNoProof DEF Decision, WindowProof
<1>6. TypeOK'
  BY <1>1, <1>3, <1>4, <1>5 DEF TypeOK, Decided
<1>7. TopicOrdered'
  BY <1>1 DEF TopicOrdered
<1>8. \A m \in DOMAIN topic :
        /\ ClosedAt(m)' = ClosedAt(m) /\ Decision(m)' = Decision(m)
        /\ OneCommitmentPerBid(m)' = OneCommitmentPerBid(m)
  BY <1>1 DEF ClosedAt, IsBarrier, Decision, WindowProof, Window, OneCommitmentPerBid,
              Commitments, IsCommitment
<1>9. DecidedByWindow'
  <2> SUFFICES ASSUME NEW f \in Evaluators, Decided(f)'
               PROVE  (\E m \in DOMAIN topic :
                         ClosedAt(m) /\ OneCommitmentPerBid(m) /\ ctx[f] = Decision(m))'
    BY DEF DecidedByWindow
  <2>1. CASE f = e
    BY <1>1, <1>2, <1>3, <1>8, <2>1
  <2>2. CASE f # e
    <3>1. ctx'[f] = ctx[f] /\ Decided(f)
      BY <1>3, <2>2 DEF Decided
    <3>2. PICK m \in DOMAIN topic :
            ClosedAt(m) /\ OneCommitmentPerBid(m) /\ ctx[f] = Decision(m)
      BY <3>1 DEF DecidedByWindow
    <3> QED BY <1>1, <1>8, <3>1, <3>2
  <2> QED BY <2>1, <2>2
<1> QED BY <1>6, <1>7, <1>9

(* An incomplete window decides nothing.                                    *)
LEMMA MarkIncompletePreserves ==
  ASSUME IInv, NEW e \in Evaluators, MarkIncomplete(e)
  PROVE  IInv'
<1> USE DEF IInv
<1>1. /\ topic' = topic /\ materials' = materials
      /\ ctx' = [ctx EXCEPT ![e] = transitionToIncompleteHcsWindow(PendingMachine)]
  BY DEF MarkIncomplete
<1>2. /\ DOMAIN ctx' = Evaluators
      /\ ctx'[e].state = "INCOMPLETE_HCS_WINDOW"
      /\ \A f \in Evaluators \ {e} : ctx'[f] = ctx[f]
  BY <1>1 DEF TypeOK, transitionToIncompleteHcsWindow, MoveTo
<1>3. "INCOMPLETE_HCS_WINDOW" \in AuctionState
  BY DEF AuctionState, LEGAL
<1>4. \A f \in Evaluators : Decided(f)' => f # e /\ Decided(f) /\ ctx'[f] = ctx[f]
  BY <1>2 DEF Decided
<1>5. TypeOK'
  BY <1>1, <1>2, <1>3, <1>4 DEF TypeOK
<1>6. TopicOrdered'
  BY <1>1 DEF TopicOrdered
<1>7. \A m \in DOMAIN topic :
        /\ ClosedAt(m)' = ClosedAt(m) /\ Decision(m)' = Decision(m)
        /\ OneCommitmentPerBid(m)' = OneCommitmentPerBid(m)
  BY <1>1 DEF ClosedAt, IsBarrier, Decision, WindowProof, Window, OneCommitmentPerBid,
              Commitments, IsCommitment
<1>8. DecidedByWindow'
  BY <1>1, <1>4, <1>7 DEF DecidedByWindow
<1> QED BY <1>5, <1>6, <1>8

(* Every step keeps the inductive invariant.                                *)
LEMMA NextPreserves == IInv /\ [Next]_vars => IInv'
<1> SUFFICES ASSUME IInv, [Next]_vars PROVE IInv'
  OBVIOUS
<1>1. CASE \E envelope \in Envelopes, t \in 0 .. MaxTime : submitMessage(envelope, t)
  BY <1>1, SubmitPreserves
<1>2. CASE \E e \in Evaluators, view \in Views : Evaluate(e, Observed(view))
  BY <1>2, EvaluatePreserves
<1>3. CASE \E e \in Evaluators : MarkIncomplete(e)
  BY <1>3, MarkIncompletePreserves
<1>4. CASE UNCHANGED vars
  <2>1. topic' = topic /\ materials' = materials /\ ctx' = ctx
    BY <1>4 DEF vars
  <2>2. TypeOK' /\ TopicOrdered'
    BY <2>1 DEF IInv, TypeOK, TopicOrdered, Decided
  <2>3. \A m \in DOMAIN topic :
          /\ ClosedAt(m)' = ClosedAt(m) /\ Decision(m)' = Decision(m)
          /\ OneCommitmentPerBid(m)' = OneCommitmentPerBid(m)
    BY <2>1 DEF ClosedAt, IsBarrier, Decision, WindowProof, Window, OneCommitmentPerBid,
                Commitments, IsCommitment
  <2>4. DecidedByWindow'
    BY <2>1, <2>3 DEF IInv, DecidedByWindow, Decided
  <2> QED BY <2>2, <2>4 DEF IInv
<1> QED BY <1>1, <1>2, <1>3, <1>4 DEF Next

(* So the inductive invariant holds throughout every run of the auction.    *)
LEMMA Invariance == Spec => []IInv
BY InitEstablishes, NextPreserves, PTL DEF Spec

-----------------------------------------------------------------------------
(* What the engine makes of the commitment at sequence s of the window.     *)
Result(n, s) ==
  evaluateCommitmentEligibility(CommitmentEvidence(Window(n), s), materials,
                                topic[n].consensusTimestamp)

(* A decision is made from the results of the window's commitments.         *)
LEMMA WindowResults ==
  ASSUME NEW n \in Nat \ {0}
  PROVE  /\ WindowProof(n).results = {Result(n, s) : s \in Commitments(n)}
         /\ WindowProof(n).evaluationTimestamp = topic[n].consensusTimestamp
         /\ rankQualifiedBids(WindowProof(n).results) # {} =>
              WindowProof(n).manifest.winningBid = selectWinner(WindowProof(n).results).bid
<1> DEFINE closure == ClosureOf(Window(n), n)
<1>1. closure.evaluationTimestamp = topic[n].consensusTimestamp
  BY DEF ClosureOf, Window
<1>2. /\ WindowProof(n).results =
           evaluateAllCommitments(closure.commitments, materials, closure.evaluationTimestamp)
      /\ WindowProof(n).evaluationTimestamp = closure.evaluationTimestamp
      /\ WindowProof(n).manifest =
           reconstructExpectedManifestBody(WindowProof(n).results,
             closure.evaluationTimestamp, closure.closeBarrierSequence)
  BY DEF WindowProof, createAuctionClosureProof
<1>3. closure.commitments = {CommitmentEvidence(Window(n), s) : s \in Commitments(n)}
  BY WindowEvidence
<1> HIDE DEF closure
<1>4. WindowProof(n).results = {Result(n, s) : s \in Commitments(n)}
  BY <1>1, <1>2, <1>3 DEF evaluateAllCommitments, Result
<1>5. rankQualifiedBids(WindowProof(n).results) # {} =>
        WindowProof(n).manifest.winningBid = selectWinner(WindowProof(n).results).bid
  BY <1>2 DEF reconstructExpectedManifestBody
<1> QED BY <1>1, <1>2, <1>4, <1>5

(* The offer of a commitment in a window: its identifier and its terms.     *)
LEMMA OfferFields ==
  ASSUME TypeOK, NEW n \in DOMAIN topic, NEW s \in Commitments(n)
  PROVE  LET bid == materials.fullBids[topic[s].envelope.bidId]
         IN  /\ s \in DOMAIN topic
             /\ topic[s].consensusTimestamp \in Nat
             /\ topic[s].envelope.bidId \in BidIds
             /\ bid # NoBid => bid \in CarrierBid /\ bid.bidId = topic[s].envelope.bidId
<1>1. s \in DOMAIN topic /\ IsCommitment(s)
  BY DEF Commitments, TypeOK
<1>2. topic[s].envelope \in Envelopes /\ topic[s].consensusTimestamp \in 0 .. MaxTime
  BY <1>1, TopicMessages DEF TypeOK
<1>3. topic[s].envelope.bidId \in BidIds
  BY <1>1, <1>2, AuctionConstants DEF IsCommitment
<1>4. /\ materials.fullBids \in [BidIds -> CarrierBid \cup {NoBid}]
      /\ \A b \in BidIds : materials.fullBids[b] # NoBid => materials.fullBids[b].bidId = b
  BY AuctionConstants DEF TypeOK
<1> QED BY <1>1, <1>2, <1>3, <1>4, AuctionConstants

(* A result has no reason codes exactly when the commitment is timely and   *)
(* the offer it stands for qualifies.                                       *)
LEMMA RankableIsQualified ==
  ASSUME TypeOK, NEW n \in DOMAIN topic, ClosedAt(n), NEW s \in Commitments(n)
  PROVE  /\ isRankable(Result(n, s)) <=>
              s \in TimelyCommitments /\ Qualifies(s, topic[n].consensusTimestamp)
         /\ Result(n, s).bid = materials.fullBids[topic[s].envelope.bidId]
         /\ Result(n, s).bidId = topic[s].envelope.bidId
         /\ Result(n, s).consensusTimestamp = topic[s].consensusTimestamp
         /\ Result(n, s).hcsSequence = s
<1> DEFINE bid == materials.fullBids[topic[s].envelope.bidId]
           receipt == materials.acceptanceReceipts[topic[s].envelope.bidId]
           c == CommitmentEvidence(Window(n), s)
           at == topic[n].consensusTimestamp
<1>0. n \in Nat /\ s \in 1 .. n
  BY DEF TypeOK, Commitments
<1>1. /\ c.bidId = topic[s].envelope.bidId
      /\ c.bidHash = topic[s].envelope.bidHash
      /\ c.acceptanceReceiptHash = topic[s].envelope.acceptanceReceiptHash
      /\ c.hcsSequence = s
      /\ c.consensusTimestamp = topic[s].consensusTimestamp
  BY <1>0, WindowEvidence
<1>2. at \in Nat /\ topic[s].consensusTimestamp \in Nat
  BY OfferFields, TopicMessages, AuctionConstants DEF TypeOK
<1>3. bid # NoBid => bid \in CarrierBid
  BY OfferFields
<1> HIDE DEF c
<1>4. /\ Result(n, s).bid = bid
      /\ Result(n, s).bidId = c.bidId
      /\ Result(n, s).consensusTimestamp = c.consensusTimestamp
      /\ Result(n, s).hcsSequence = c.hcsSequence
      /\ Result(n, s).timely = (c.consensusTimestamp <= AuctionEndsAt)
      /\ Result(n, s).reasonCodes =
           Reason("LATE_COMMITMENT", ~(c.consensusTimestamp <= AuctionEndsAt))
             \cup (IF bid = NoBid THEN {"FULL_BID_MISSING"}
                   ELSE SubmittedBidReasons(c, bid, receipt, at))
  BY <1>1 DEF Result, evaluateCommitmentEligibility, isCommitmentTimely, c
<1> DEFINE timely == c.consensusTimestamp <= AuctionEndsAt
<1>5. isRankable(Result(n, s)) <=>
        /\ timely
        /\ bid # NoBid
        /\ SubmittedBidReasons(c, bid, receipt, at) = {}
  <2>1. isRankable(Result(n, s)) <=> Result(n, s).reasonCodes = {} /\ timely
    BY <1>4 DEF isRankable
  <2>2. timely => Reason("LATE_COMMITMENT", ~timely) = {}
    BY DEF Reason
  <2> HIDE DEF timely
  <2>3. timely => Result(n, s).reasonCodes =
                    IF bid = NoBid THEN {"FULL_BID_MISSING"}
                    ELSE SubmittedBidReasons(c, bid, receipt, at)
    BY <1>4, <2>2 DEF timely
  <2> QED BY <2>1, <2>3
<1>6. SubmittedBidReasons(c, bid, receipt, at) = {} <=>
        /\ bid = c.bidHash
        /\ ~(receipt # bid \/ receipt # c.acceptanceReceiptHash)
        /\ ~(bid.bidValidUntil < at)
        /\ ~(DeliveryDeadline < bid.estimatedDelivery)
        /\ ~(bid.freightPriceCents > MaximumFreightPriceCents)
        /\ bid.faults = {}
  BY DEF SubmittedBidReasons, Reason
<1>7. bid # NoBid =>
        /\ ~(bid.bidValidUntil < at) <=> bid.bidValidUntil >= at
        /\ ~(DeliveryDeadline < bid.estimatedDelivery) <=>
             bid.estimatedDelivery <= DeliveryDeadline
        /\ ~(bid.freightPriceCents > MaximumFreightPriceCents) <=>
             bid.freightPriceCents <= MaximumFreightPriceCents
  BY <1>2, <1>3, SelectionConstants DEF CarrierBid
<1>8. s \in TimelyCommitments <=> timely
  BY <1>0, <1>1, OfferFields DEF TimelyCommitments, ClosedAt, Commitments, IsCommitment
<1>9. Qualifies(s, at) <=>
        bid # NoBid /\ SubmittedBidReasons(c, bid, receipt, at) = {}
  BY <1>1, <1>6, <1>7 DEF Qualifies
<1> QED BY <1>1, <1>4, <1>5, <1>8, <1>9

(* A finite set that a relation orders strictly and totally has a first     *)
(* member: the one with the fewest members before it.                       *)
LEMMA FiniteHasFirst ==
  ASSUME NEW S, IsFiniteSet(S), S # {}, NEW R,
         \A x \in S : <<x, x>> \notin R,
         \A x, y \in S : x # y => <<x, y>> \in R \/ <<y, x>> \in R,
         \A x, y, z \in S : <<x, y>> \in R /\ <<y, z>> \in R => <<x, z>> \in R
  PROVE  \E x \in S : \A y \in S \ {x} : <<x, y>> \in R
<1> DEFINE Before(x) == {y \in S : <<y, x>> \in R}
           C == {Cardinality(Before(x)) : x \in S}
<1>1. \A x \in S : IsFiniteSet(Before(x)) /\ Cardinality(Before(x)) \in Nat
  <2> TAKE x \in S
  <2>1. Before(x) \in SUBSET S
    OBVIOUS
  <2>2. IsFiniteSet(Before(x))
    BY <2>1, FS_Subset
  <2> HIDE DEF Before
  <2> QED BY <2>2, FS_CardinalityType
<1>2. C \subseteq Nat /\ C # {}
  <2> HIDE DEF Before
  <2> QED BY <1>1
<1>3. PICK m \in C : \A k \in C : <<k, m>> \notin OpToRel(<, Nat)
  <2> HIDE DEF C
  <2> QED BY <1>2, WFMin, NatLessThanWellFounded
<1>4. \A k \in C : ~(k < m)
  BY <1>2, <1>3 DEF OpToRel
<1>5. PICK x \in S : m = Cardinality(Before(x))
  OBVIOUS
<1>6. ASSUME NEW y \in S, <<y, x>> \in R PROVE FALSE
  <2>1. Before(y) \in SUBSET Before(x) /\ y \in Before(x) /\ y \notin Before(y)
    BY <1>6
  <2> HIDE DEF Before
  <2>2. /\ Cardinality(Before(y)) <= Cardinality(Before(x))
        /\ Cardinality(Before(x)) = Cardinality(Before(y)) => Before(x) = Before(y)
    BY <1>1, <2>1, FS_Subset
  <2>3. Cardinality(Before(y)) < m
    BY <1>1, <1>5, <2>1, <2>2
  <2> QED BY <1>4, <2>3
<1> QED BY <1>6

(* Some qualified result of a window is ranked before all the others, if    *)
(* there is any: no bid is committed to twice, so no two results tie.       *)
LEMMA WinnerExists ==
  ASSUME TypeOK, NEW n \in DOMAIN topic, ClosedAt(n), OneCommitmentPerBid(n),
         NEW Q, Q = {s \in Commitments(n) : isRankable(Result(n, s))}, Q # {}
  PROVE  \E s \in Q : \A t \in Q \ {s} : compareRankedBids(Result(n, s), Result(n, t)) < 0
<1>1. n \in Nat /\ Q \subseteq 1 .. n
  BY DEF TypeOK, Commitments
<1>2. IsFiniteSet(Q)
  <2>1. IsFiniteSet(1 .. n)
    BY <1>1, FS_Interval
  <2>2. Q \in SUBSET (1 .. n)
    BY <1>1
  <2> QED BY <2>1, <2>2, FS_Subset
<1>3. ASSUME NEW s \in Q
      PROVE  /\ Result(n, s).bid.freightPriceCents \in Nat
             /\ Result(n, s).bid.estimatedDelivery \in Nat
             /\ Result(n, s).consensusTimestamp \in Nat
             /\ Result(n, s).bidId \in Nat
             /\ Result(n, s).bidId = topic[s].envelope.bidId
  <2>1. Qualifies(s, topic[n].consensusTimestamp)
    BY RankableIsQualified
  <2>2. materials.fullBids[topic[s].envelope.bidId] \in CarrierBid
    BY <2>1, OfferFields DEF Qualifies
  <2>3. Result(n, s).bid \in CarrierBid
    BY <2>2, RankableIsQualified
  <2>4. /\ Result(n, s).bidId = topic[s].envelope.bidId
        /\ Result(n, s).consensusTimestamp = topic[s].consensusTimestamp
    BY RankableIsQualified
  <2>5. topic[s].envelope.bidId \in Nat /\ topic[s].consensusTimestamp \in Nat
    BY OfferFields, SelectionConstants
  <2> QED BY <2>3, <2>4, <2>5 DEF CarrierBid
<1> DEFINE R == {p \in Q \X Q : compareRankedBids(Result(n, p[1]), Result(n, p[2])) < 0}
<1>4. \A s, t \in Q : <<s, t>> \in R <=> compareRankedBids(Result(n, s), Result(n, t)) < 0
  OBVIOUS
<1> HIDE DEF R
<1>5. \A s \in Q : <<s, s>> \notin R
  BY <1>3, <1>4 DEF compareRankedBids
<1>6. ASSUME NEW s \in Q, NEW t \in Q, s # t
      PROVE  <<s, t>> \in R \/ <<t, s>> \in R
  <2>1. Result(n, s).bidId # Result(n, t).bidId
    BY <1>3, <1>6 DEF OneCommitmentPerBid
  <2>2. /\ compareRankedBids(Result(n, s), Result(n, t)) # 0
        /\ compareRankedBids(Result(n, s), Result(n, t)) < 0 <=>
             compareRankedBids(Result(n, t), Result(n, s)) > 0
        /\ compareRankedBids(Result(n, t), Result(n, s)) # 0
        /\ compareRankedBids(Result(n, t), Result(n, s)) < 0 <=>
             compareRankedBids(Result(n, s), Result(n, t)) > 0
    BY <1>3, <2>1, RankingTotal
  <2>3. compareRankedBids(Result(n, s), Result(n, t)) \in Int
    BY <1>3 DEF compareRankedBids
  <2> QED BY <1>4, <2>2, <2>3
<1>7. ASSUME NEW s \in Q, NEW t \in Q, NEW u \in Q, <<s, t>> \in R, <<t, u>> \in R
      PROVE  <<s, u>> \in R
  BY <1>3, <1>4, <1>7, RankingTransitive
<1>8. PICK s \in Q : \A t \in Q \ {s} : <<s, t>> \in R
  <2>1. \A s, t \in Q : s # t => <<s, t>> \in R \/ <<t, s>> \in R
    BY <1>6
  <2>2. \A s, t, u \in Q : <<s, t>> \in R /\ <<t, u>> \in R => <<s, u>> \in R
    BY <1>7
  <2>3. Q # {}
    OBVIOUS
  <2> QED BY ONLY <1>2, <1>5, <2>1, <2>2, <2>3, FiniteHasFirst, Zenon
<1> QED BY <1>4, <1>8

(* The engine's order is the announced one.                                 *)
LEMMA RankingIsAnnounced ==
  ASSUME TypeOK, NEW n \in DOMAIN topic, ClosedAt(n),
         NEW s \in Commitments(n), NEW t \in Commitments(n),
         isRankable(Result(n, s)), isRankable(Result(n, t)),
         compareRankedBids(Result(n, s), Result(n, t)) < 0
  PROVE  LexLess(RankKey(s), RankKey(t))
<1> DEFINE b == materials.fullBids[topic[s].envelope.bidId]
           d == materials.fullBids[topic[t].envelope.bidId]
           k == RankKey(s)
           l == RankKey(t)
<1>1. b \in CarrierBid /\ d \in CarrierBid
  BY RankableIsQualified, OfferFields DEF Qualifies
<1>2. /\ Result(n, s).bid = b /\ Result(n, s).bidId = b.bidId
      /\ Result(n, s).consensusTimestamp = topic[s].consensusTimestamp
      /\ Result(n, t).bid = d /\ Result(n, t).bidId = d.bidId
      /\ Result(n, t).consensusTimestamp = topic[t].consensusTimestamp
  BY RankableIsQualified, OfferFields DEF Qualifies
<1>3. /\ k[1] = b.freightPriceCents /\ k[2] = b.estimatedDelivery
      /\ k[3] = topic[s].consensusTimestamp /\ k[4] = b.bidId
      /\ l[1] = d.freightPriceCents /\ l[2] = d.estimatedDelivery
      /\ l[3] = topic[t].consensusTimestamp /\ l[4] = d.bidId
  BY DEF RankKey
<1>4. k[1] \in Nat /\ k[2] \in Nat /\ k[3] \in Nat /\ k[4] \in Nat
  BY <1>1, <1>3, OfferFields, SelectionConstants DEF CarrierBid
<1>5. l[1] \in Nat /\ l[2] \in Nat /\ l[3] \in Nat /\ l[4] \in Nat
  BY <1>1, <1>3, OfferFields, SelectionConstants DEF CarrierBid
<1> HIDE DEF b, d, k, l
<1>6. \/ k[1] < l[1]
      \/ k[1] = l[1] /\ k[2] < l[2]
      \/ k[1] = l[1] /\ k[2] = l[2] /\ k[3] < l[3]
      \/ k[1] = l[1] /\ k[2] = l[2] /\ k[3] = l[3] /\ k[4] < l[4]
  BY <1>2, <1>3, <1>4, <1>5 DEF compareRankedBids
<1>7. LexLess(k, l)
  <2>1. CASE k[1] < l[1]
    <3>1. 1 \in 1 .. 4 /\ \A j \in 1 .. 1 - 1 : k[j] = l[j]
      OBVIOUS
    <3> QED BY <2>1, <3>1 DEF LexLess
  <2>2. CASE k[1] = l[1] /\ k[2] < l[2]
    <3>1. 2 \in 1 .. 4 /\ \A j \in 1 .. 2 - 1 : k[j] = l[j]
      BY <2>2
    <3> QED BY <2>2, <3>1 DEF LexLess
  <2>3. CASE k[1] = l[1] /\ k[2] = l[2] /\ k[3] < l[3]
    <3>1. 3 \in 1 .. 4 /\ \A j \in 1 .. 3 - 1 : k[j] = l[j]
      BY <2>3
    <3> QED BY <2>3, <3>1 DEF LexLess
  <2>4. CASE k[1] = l[1] /\ k[2] = l[2] /\ k[3] = l[3] /\ k[4] < l[4]
    <3>1. 4 \in 1 .. 4 /\ \A j \in 1 .. 4 - 1 : k[j] = l[j]
      BY <2>4
    <3> QED BY <2>4, <3>1 DEF LexLess
  <2> QED BY <1>6, <2>1, <2>2, <2>3, <2>4
<1> QED BY <1>7 DEF k, l

-----------------------------------------------------------------------------
(* Two first barriers are one barrier.                                      *)
LEMMA FirstBarrierUnique ==
  ASSUME TypeOK, NEW n, NEW m, ClosedAt(n), ClosedAt(m)
  PROVE  n = m
<1>1. n \in Nat \ {0} /\ m \in Nat \ {0}
  BY DEF ClosedAt, TypeOK
<1>2. CASE n < m
  BY <1>1, <1>2 DEF ClosedAt
<1>3. CASE m < n
  BY <1>1, <1>3 DEF ClosedAt
<1> QED BY <1>1, <1>2, <1>3

(* Decisions are functions of the window up to the one first barrier.       *)
LEMMA InvAgree == IInv => EvaluatorsAgree
<1> SUFFICES ASSUME IInv, NEW e \in Evaluators, NEW f \in Evaluators,
                    Decided(e), Decided(f)
             PROVE  ctx[e] = ctx[f]
  BY DEF EvaluatorsAgree
<1>1. PICK n \in DOMAIN topic : ClosedAt(n) /\ ctx[e] = Decision(n)
  BY DEF IInv, DecidedByWindow
<1>2. PICK m \in DOMAIN topic : ClosedAt(m) /\ ctx[f] = Decision(m)
  BY DEF IInv, DecidedByWindow
<1>3. n = m
  BY <1>1, <1>2, FirstBarrierUnique DEF IInv
<1> QED BY <1>1, <1>2, <1>3

(* A commitment by the deadline comes before a barrier after the deadline.  *)
LEMMA TimelyInWindow ==
  ASSUME IInv, NEW n \in DOMAIN topic, ClosedAt(n)
  PROVE  TimelyCommitments \subseteq Commitments(n)
<1> SUFFICES ASSUME NEW s \in TimelyCommitments PROVE s \in Commitments(n)
  OBVIOUS
<1>1. /\ s \in DOMAIN topic /\ IsCommitment(s)
      /\ topic[s].consensusTimestamp <= AuctionEndsAt
  BY DEF TimelyCommitments, IsCommitment
<1>2. /\ DOMAIN topic = 1 .. Len(topic) /\ Len(topic) \in Nat
      /\ topic[s].consensusTimestamp \in Int /\ topic[n].consensusTimestamp \in Int
  BY <1>1, TopicMessages DEF IInv, TypeOK
<1>3. s <= n
  BY <1>1, <1>2, SelectionConstants DEF IInv, TopicOrdered, ClosedAt
<1> QED BY <1>1, <1>2, <1>3 DEF Commitments

(* The window holds every timely commitment, so the engine evaluates it.    *)
LEMMA InvNobodyLeftOut == IInv => NoTimelyBidLeftOut
<1> SUFFICES ASSUME IInv, NEW e \in Evaluators, Decided(e), NEW s \in TimelyCommitments
             PROVE  s \in {r.hcsSequence : r \in ctx[e].closureProof.results}
  BY DEF NoTimelyBidLeftOut
<1>1. PICK n \in DOMAIN topic : ClosedAt(n) /\ ctx[e] = Decision(n)
  BY DEF IInv, DecidedByWindow
<1>2. TypeOK /\ n \in Nat \ {0} /\ s \in Commitments(n)
  BY <1>1, TimelyInWindow DEF IInv, TypeOK
<1>3. Result(n, s).hcsSequence = s
  BY <1>1, <1>2, RankableIsQualified
<1>4. Result(n, s) \in ctx[e].closureProof.results
  BY <1>1, <1>2, WindowResults DEF Decision
<1> QED BY <1>3, <1>4

(* The winner of the window's results is the first of the candidates on the *)
(* topic, because these are the same offers in the same order.              *)
LEMMA InvRightDecision == IInv => DecisionIsRight
<1> SUFFICES ASSUME IInv, NEW e \in Evaluators, Decided(e)
             PROVE  LET proof == ctx[e].closureProof
                        candidates == {s \in TimelyCommitments :
                                         Qualifies(s, proof.evaluationTimestamp)}
                        winners == {s \in candidates :
                                      \A t \in candidates \ {s} :
                                        LexLess(RankKey(s), RankKey(t))}
                    IN  IF ctx[e].state = "NO_QUALIFIED_BID"
                        THEN candidates = {}
                        ELSE \E s \in winners :
                               proof.manifest.winningBid = topic[s].envelope.bidHash
  BY DEF DecisionIsRight
<1>1. PICK n \in DOMAIN topic :
        ClosedAt(n) /\ OneCommitmentPerBid(n) /\ ctx[e] = Decision(n)
  BY DEF IInv, DecidedByWindow
<1>2. TypeOK /\ n \in Nat \ {0}
  BY DEF IInv, TypeOK
<1> DEFINE results == WindowProof(n).results
           at == topic[n].consensusTimestamp
           candidates == {s \in TimelyCommitments : Qualifies(s, at)}
           Q == {s \in Commitments(n) : isRankable(Result(n, s))}
<1>3. /\ ctx[e].closureProof = WindowProof(n)
      /\ ctx[e].state = "NO_QUALIFIED_BID" <=> rankQualifiedBids(results) = {}
      /\ ctx[e].closureProof.evaluationTimestamp = at
      /\ results = {Result(n, s) : s \in Commitments(n)}
  BY <1>1, <1>2, WindowResults DEF Decision
<1>4. TimelyCommitments \subseteq Commitments(n)
  BY <1>1, TimelyInWindow DEF IInv
<1>5. candidates = Q
  BY <1>1, <1>2, <1>4, RankableIsQualified
<1>6. rankQualifiedBids(results) = {Result(n, s) : s \in Q}
  BY <1>3 DEF rankQualifiedBids
<1> HIDE DEF candidates, Q, results
<1>7. CASE rankQualifiedBids(results) = {}
  <2>1. Q = {}
    BY <1>6, <1>7
  <2> QED BY <1>3, <1>5, <1>7, <2>1 DEF candidates
<1>8. CASE rankQualifiedBids(results) # {}
  <2>1. PICK s \in Q : \A t \in Q \ {s} :
          compareRankedBids(Result(n, s), Result(n, t)) < 0
    BY <1>1, <1>2, <1>6, <1>8, WinnerExists DEF Q
  <2> DEFINE P(r) == /\ r \in rankQualifiedBids(results)
                     /\ \A u \in rankQualifiedBids(results) \ {r} :
                          compareRankedBids(r, u) < 0
             w == selectWinner(results)
  <2>2. P(Result(n, s))
    BY <1>6, <2>1
  <2>3. P(w)
    BY <2>2 DEF selectWinner
  <2>4. PICK v \in Q : w = Result(n, v)
    BY <1>6, <2>3
  <2>5. ASSUME NEW t \in Q, t # v
        PROVE  LexLess(RankKey(v), RankKey(t))
    <3>1. Result(n, t) # Result(n, v)
      BY <1>1, <1>2, <2>5, RankableIsQualified DEF Q
    <3>2. compareRankedBids(Result(n, v), Result(n, t)) < 0
      BY <1>6, <2>3, <2>4, <3>1
    <3> QED BY <1>1, <1>2, <3>2, RankingIsAnnounced DEF Q
  <2>6. WindowProof(n).manifest.winningBid = topic[v].envelope.bidHash
    <3>1. WindowProof(n).manifest.winningBid = w.bid
      BY <1>2, <1>8, WindowResults DEF results
    <3>2. w.bid = materials.fullBids[topic[v].envelope.bidId]
      BY <1>1, <1>2, <2>4, RankableIsQualified DEF Q
    <3>3. Qualifies(v, at)
      BY <1>5 DEF candidates
    <3> QED BY <3>1, <3>2, <3>3 DEF Qualifies
  <2> HIDE DEF w, at
  <2>7. v \in {s1 \in candidates : \A t \in candidates \ {s1} :
                                       LexLess(RankKey(s1), RankKey(t))}
    BY <1>5, <2>5
  <2> QED BY <1>3, <1>8, <2>6, <2>7 DEF candidates
<1> QED BY <1>7, <1>8

-----------------------------------------------------------------------------
(* Type correctness: whatever reaches the topic, every machine of           *)
(* state-machine.ts is in one of its states, and a decided one carries the  *)
(* closure proof it was decided on.                                         *)
THEOREM TypeCorrect == Spec => []TypeOK
<1>1. IInv => TypeOK
  BY DEF IInv
<1> QED BY <1>1, Invariance, PTL

(* Agreement: for any number of evaluators, any mirror reads and any        *)
(* messages, evaluators that get through reconcileMirrorMessages and the    *)
(* state machine reach the same decision.                                   *)
THEOREM AgreementCorrect == Spec => []EvaluatorsAgree
BY Invariance, InvAgree, PTL

(* Completeness: no commitment of the run that reaches consensus by the     *)
(* deadline is missing from a decision's evaluated bids, also when it       *)
(* reaches the topic after the decision.                                    *)
THEOREM NobodyLeftOutCorrect == Spec => []NoTimelyBidLeftOut
BY Invariance, InvNobodyLeftOut, PTL

(* The right decision: whatever the topic gets before or after it, and      *)
(* whatever the evaluator's read missed, a decided auction has the winner   *)
(* that LOWEST_QUALIFIED_PRICE_V1 announces among all timely qualified      *)
(* offers on the topic, and no winner only if there is no such offer.       *)
THEOREM DecisionCorrect == Spec => []DecisionIsRight
BY Invariance, InvRightDecision, PTL
=============================================================================
