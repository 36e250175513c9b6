------------------------------ MODULE FinalDemo ------------------------------
(***************************************************************************)
(* The final demonstration: src/final-demo.  One attempt creates a topic,  *)
(* publishes AUCTION_OPEN, two BID_COMMITMENTs and the close barrier as    *)
(* sequences 1 to 4, reconciles them with Mirror, pays the winning carrier *)
(* through ReservationService, publishes ROUTE_RESERVED as sequence 5 and  *)
(* writes its evidence.  Every irreversible step is claimed in the attempt *)
(* file before it is tried and is never tried again once it is claimed.    *)
(*                                                                         *)
(* A process is one run of runFinalDemoOrchestration in live mode; it may  *)
(* be killed at any await and started again, and every error it throws     *)
(* ends it.  The reservation record is kept here to the states             *)
(* orchestration tells apart; ReservationService models the service.       *)
(***************************************************************************)
EXTENDS Naturals, Sequences

CONSTANTS
  Proc,        \* runs of the orchestration
  None,        \* no value
  MaxCrashes,  \* how many runs may be killed
  MaxTopics,   \* how many topics the bounded model can hold
  MaxStray     \* messages of others: the topic has no submit key

ASSUME FinalDemoAssumption ==
  MaxCrashes \in Nat /\ MaxTopics \in Nat /\ MaxStray \in Nat /\ None \notin Proc

VARIABLES
  file,       \* the attempt file, or None
  materials,  \* the run the materials file belongs to, or None
  proc,       \* where each process stands
  mem,        \* the attempt record each process holds
  topics,     \* the topics created: their messages and how many Mirror shows
  clock,      \* "open", "closing" (inside the safety margin), "ended"
  rsv,        \* the reservation record
  tx,         \* what became of the payment: none, frozen, sent, landed, failed, past
  paid,       \* payments that reached the carrier
  evidence,   \* the result files say that the demonstration succeeded
  lock,       \* the lock file of the attempt was left behind by a kill
  crashes,
  stray,
  calm        \* nothing has gone wrong that the code leaves to an operator

vars == <<file, materials, proc, mem, topics, clock, rsv, tx, paid,
          evidence, lock, crashes, stray, calm>>

Label == 1..5        \* AUCTION_OPEN, the commitments, the barrier, ROUTE_RESERVED
Auction == 1..4
Commitments == {2, 3}
Barrier == 4
RouteReserved == 5

(* An envelope hash.  The barrier and ROUTE_RESERVED carry createdAt, so   *)
(* that two processes never build the same one; the others come from the   *)
(* materials file.                                                         *)
Hash == [label : Label, run : Proc, by : Proc \cup {None}]

HashOf(l, run, p) ==
  [label |-> l, run |-> run, by |-> IF l >= Barrier THEN p ELSE None]

Message == [hash : Hash \cup {None}, at : {"open", "closing", "ended"}]

Outbox == [st : {"PENDING", "CLAIMED", "AMBIGUOUS", "CONFIRMED"},
           hash : Hash \cup {None}]

Attempt ==
  [id     : Proc,
   status : {"RUNNING", "TOPIC_CREATE_AMBIGUOUS", "EVIDENCE_WRITING",
             "EVIDENCE_WRITTEN", "COMPLETED"},
   claim  : {"NONE", "CLAIMED", "AMBIGUOUS", "CREATED"},   \* topicCreateClaim
   topic  : 0..MaxTopics,
   out    : [Label -> Outbox],
   pay    : {"NONE", "CLAIMED", "SUBMITTED", "CONFIRMED"}] \* paymentSubmissionClaim

(* createFinalDemoAttempt, with the materials of run p.                    *)
NewAttempt(p) ==
  [id |-> p, status |-> "RUNNING", claim |-> "NONE", topic |-> 0,
   out |-> [l \in Label |-> [st |-> "PENDING", hash |-> None]], pay |-> "NONE"]

Reservation ==
  [st   : {"none", "OFFER_CREATED", "OPTION_SELECTED", "PAYMENT_CHALLENGE_ISSUED",
           "FACILITATOR_SETTLE_CLAIMED", "FACILITATOR_SETTLED",
           "CONFIRMATION_TIMED_OUT", "PAYMENT_CONFIRMED", "ROUTE_RESERVED",
           "SETTLEMENT_FAILED", "MANUAL_REVIEW_REQUIRED"},
   settle : BOOLEAN,                                 \* facilitatorSettle
   hcs  : {"none", "CLAIMED", "PUBLISHED", "MANUAL_REVIEW_REQUIRED"},
   hash : Hash \cup {None},                          \* of hcsPublicationClaim
   named : BOOLEAN]                                  \* its transactionId

PaidStates == {"FACILITATOR_SETTLED", "CONFIRMATION_TIMED_OUT",
               "PAYMENT_CONFIRMED", "ROUTE_RESERVED"}

(* transactionId of the reservation record.                                *)
HasTx == rsv.st \in PaidStates \cup {"MANUAL_REVIEW_REQUIRED"}

Pcs == {"off", "create", "topic", "topic_sent", "topic_made", "publish", "submit",
        "await", "reconcile", "proof", "reserve", "claimed", "pay", "sign", "settle",
        "confirm", "reserved", "hcs", "preflight", "published", "resolve", "paid",
        "seq5", "evidence", "writing", "written", "done"}

(* via: the call of ReservationService the process is inside.              *)
Process == [pc : Pcs, seq : Label, via : {"none", "submit", "adopt", "resume"}]

Off == [pc |-> "off", seq |-> 1, via |-> "none"]

(* The shape of the state. *)
TypeOK ==
  /\ file \in Attempt \cup {None}
  /\ materials \in Proc \cup {None}
  /\ proc \in [Proc -> Process]
  /\ mem \in [Proc -> Attempt \cup {None}]
  /\ topics \in Seq([msgs : Seq(Message), shown : Nat])
  /\ Len(topics) <= MaxTopics
  /\ clock \in {"open", "closing", "ended"}
  /\ rsv \in Reservation
  /\ tx \in {"none", "frozen", "sent", "landed", "failed", "past"}
  /\ paid \in Nat
  /\ evidence \in BOOLEAN
  /\ lock \in BOOLEAN
  /\ crashes \in 0..MaxCrashes
  /\ stray \in 0..MaxStray
  /\ calm \in BOOLEAN

Init ==
  /\ file = None /\ materials = None
  /\ proc = [p \in Proc |-> Off]
  /\ mem = [p \in Proc |-> None]
  /\ topics = <<>>
  /\ clock = "open"
  /\ rsv = [st |-> "none", settle |-> FALSE, hcs |-> "none", hash |-> None,
            named |-> FALSE]
  /\ tx = "none" /\ paid = 0
  /\ evidence = FALSE /\ lock = FALSE
  /\ crashes = 0 /\ stray = 0 /\ calm = TRUE

-----------------------------------------------------------------------------
(* What the steps are made of.                                             *)

At(p, pc) == proc[p].pc = pc

Goto(p, pc) == proc' = [proc EXCEPT ![p].pc = pc]

(* An error that reaches the top ends the run.                             *)
Die(p) ==
  /\ proc' = [proc EXCEPT ![p] = Off]
  /\ mem' = [mem EXCEPT ![p] = None]

(* Inside ReservationService the error of a publication is caught and      *)
(* resolved.                                                               *)
Throw(p) ==
  IF proc[p].seq = RouteReserved
  THEN Goto(p, "resolve") /\ UNCHANGED mem
  ELSE Die(p)

(* persistAttempt reads the version it then compares, so that the write    *)
(* succeeds whatever the process had read before; the attempt id must be   *)
(* that of the file.                                                       *)
Persist(p, a) ==
  /\ a.id = file.id
  /\ file' = a
  /\ mem' = [mem EXCEPT ![p] = a]

Topic(p) == topics[mem[p].topic]

(* listMessages of the Mirror reader.                                      *)
Listed(p) == SubSeq(Topic(p).msgs, 1, Topic(p).shown)

OfRun(m, run) == m.hash # None /\ m.hash.run = run /\ m.hash.label \in Auction

(* loadFinalDemoAuthoritativeMaterials reads the materials of this run.    *)
LoadMaterials(run) == materials = run

(* assertMirrorReadyForSequence.                                           *)
ReadyFor(ms, l, run) ==
  /\ \A i \in DOMAIN ms : OfRun(ms[i], run)
  /\ Len(ms) = l - 1

SameType(l, k) == l = k \/ {l, k} \subseteq Commitments

(* assertPristineTopicSequences1to4.                                       *)
Pristine(ms, run) ==
  /\ Len(ms) = 4
  /\ \A l \in Auction : OfRun(ms[l], run) /\ SameType(ms[l].hash.label, l)

(* Mutant: the consensus times of the commitments are not compared.        *)
ReconciledAnyTime(ms, run) ==
  /\ LoadMaterials(run)
  /\ Pristine(ms, run)
  /\ \A l \in Auction \ {Barrier} : ms[l].hash = HashOf(l, run, None)

(* reconcileFinalDemoSequences1to4, with the materials read again.         *)
Reconciled(ms, run) ==
  /\ LoadMaterials(run)
  /\ Pristine(ms, run)
  /\ \A l \in Auction \ {Barrier} : ms[l].hash = HashOf(l, run, None)
  /\ \A l \in Commitments : ms[l].at # "ended"
  /\ ms[Barrier].at = "ended"

(* resolveRouteReservedFromMirror: FOUND.                                  *)
ResolvedFive(ms, run, hash) ==
  /\ Len(ms) = 5
  /\ Pristine(SubSeq(ms, 1, 4), run)
  /\ hash # None /\ ms[RouteReserved].hash = hash

(* Nothing durable is claimed whose outcome only its process knew.         *)
Settled ==
  \/ file = None
  \/ /\ file.claim # "CLAIMED"
     /\ \A l \in Label : file.out[l].st \notin {"CLAIMED", "AMBIGUOUS"}
     /\ rsv.hcs = "CLAIMED" => file.out[RouteReserved].st = "CONFIRMED"
     /\ rsv.st # "PAYMENT_CONFIRMED"

world == <<clock, stray, lock>>
money == <<rsv, tx, paid>>

-----------------------------------------------------------------------------
(* Start: guards, materials and the durable attempt.                       *)

(* A fresh start writes the materials file before it creates the attempt.  *)
BootFresh(p) ==
  /\ At(p, "off") /\ file = None
  /\ materials' = p
  /\ mem' = [mem EXCEPT ![p] = NewAttempt(p)]
  /\ Goto(p, "create")
  /\ UNCHANGED <<file, topics, world, money, evidence, crashes, calm>>

(* A restart continues the attempt, unless it is over or is not clear.  A  *)
(* lock left behind fails the first write of the run, which comes before   *)
(* anything is sent.                                                       *)
BootResume(p) ==
  /\ At(p, "off") /\ file # None /\ ~lock
  /\ file.status \notin {"COMPLETED", "TOPIC_CREATE_AMBIGUOUS"}
  /\ file.claim # "AMBIGUOUS"
  /\ ~(file.claim = "CLAIMED" /\ file.topic = 0)
  /\ LoadMaterials(file.id)
  /\ mem' = [mem EXCEPT ![p] = file]
  /\ Goto(p, "topic")
  /\ UNCHANGED <<file, materials, topics, world, money, evidence, crashes, calm>>

CreateAttempt(p) ==
  /\ At(p, "create")
  /\ IF file = None /\ ~lock
     THEN file' = mem[p] /\ Goto(p, "topic") /\ UNCHANGED mem
     ELSE Die(p) /\ UNCHANGED file
  /\ UNCHANGED <<materials, topics, world, money, evidence, crashes, calm>>

(* claimTopicCreate is durable before TopicCreateTransaction is sent.      *)
ClaimTopic(p) ==
  /\ At(p, "topic") /\ mem[p].topic = 0 /\ mem[p].claim = "NONE"
  /\ Persist(p, [mem[p] EXCEPT !.claim = "CLAIMED"])
  /\ Goto(p, "topic_sent")
  /\ UNCHANGED <<materials, topics, world, money, evidence, crashes, calm>>

(* createTopic and finalizeTopicCreate.                                    *)
CreateTopic(p) ==
  /\ At(p, "topic_sent") /\ Len(topics) < MaxTopics
  /\ topics' = Append(topics, [msgs |-> <<>>, shown |-> 0])
  /\ mem' = [mem EXCEPT ![p].topic = Len(topics) + 1, ![p].claim = "CREATED"]
  /\ Goto(p, "topic_made")
  /\ UNCHANGED <<file, materials, world, money, evidence, crashes, calm>>

(* The receipt is lost or the transaction fails: the claim stays, or is    *)
(* marked when the transport says that it cannot tell.                     *)
CreateTopicFails(p) ==
  /\ At(p, "topic_sent") /\ Len(topics) < MaxTopics
  /\ \E made \in BOOLEAN :
       topics' = IF made THEN Append(topics, [msgs |-> <<>>, shown |-> 0]) ELSE topics
  /\ \E told \in BOOLEAN :
       file' = IF told THEN [mem[p] EXCEPT !.claim = "AMBIGUOUS",
                                           !.status = "TOPIC_CREATE_AMBIGUOUS"]
                       ELSE file
  /\ Die(p)
  /\ calm' = FALSE
  /\ UNCHANGED <<materials, world, money, evidence, crashes>>

FinalizeTopic(p) ==
  /\ At(p, "topic_made")
  /\ Persist(p, mem[p])
  /\ Goto(p, "topic")
  /\ UNCHANGED <<materials, topics, world, money, evidence, crashes, calm>>

HaveTopic(p) ==
  /\ At(p, "topic") /\ mem[p].topic # 0
  /\ proc' = [proc EXCEPT ![p].pc = "publish", ![p].seq = 1]
  /\ UNCHANGED <<file, materials, mem, topics, world, money, evidence, crashes, calm>>

-----------------------------------------------------------------------------
(* publishSequence: claim, submit, confirm on Mirror.                      *)

Out(p) == mem[p].out[proc[p].seq]

(* Where a published sequence leads.                                       *)
After(p) ==
  LET l == proc[p].seq
  IN  CASE l < Barrier -> [proc EXCEPT ![p].seq = l + 1, ![p].pc = "publish"]
        [] l = Barrier -> [proc EXCEPT ![p].pc = "reconcile"]
        [] OTHER -> [proc EXCEPT ![p].pc = "published"]

AlreadyConfirmed(p) ==
  /\ At(p, "publish") /\ Out(p).st = "CONFIRMED"
  /\ proc' = After(p)
  /\ UNCHANGED <<file, materials, mem, topics, world, money, evidence, crashes, calm>>

(* confirmMessageOutbox.                                                   *)
ConfirmMessage(p, l) == [mem[p] EXCEPT !.out[l].st = "CONFIRMED"]

(* Mutant: what Mirror does not list yet is submitted again.               *)
ResubmitClaimed(p) ==
  LET l == proc[p].seq
      ms == Listed(p)
  IN  /\ At(p, "publish") /\ Out(p).st \in {"CLAIMED", "AMBIGUOUS"}
      /\ IF l \in DOMAIN ms /\ ms[l].hash = Out(p).hash
         THEN Persist(p, ConfirmMessage(p, l)) /\ proc' = After(p)
         ELSE Goto(p, "submit") /\ UNCHANGED <<file, mem>>
      /\ UNCHANGED <<materials, topics, world, money, evidence, crashes, calm>>

(* A sequence claimed by an earlier run is looked up and never sent again: *)
(* it is confirmed only when Mirror lists it in its place and names its    *)
(* transaction, which the live reader does not and the others do.          *)
RecoverClaimed(p) ==
  LET l == proc[p].seq
      ms == Listed(p)
  IN  /\ At(p, "publish") /\ Out(p).st \in {"CLAIMED", "AMBIGUOUS"}
      /\ \E named \in BOOLEAN :
           IF /\ Out(p).st = "CLAIMED" /\ named
              /\ l \in DOMAIN ms /\ ms[l].hash = Out(p).hash
           THEN Persist(p, ConfirmMessage(p, l)) /\ proc' = After(p)
           ELSE Throw(p) /\ UNCHANGED file
      /\ UNCHANGED <<materials, topics, world, money, evidence, crashes, calm>>

(* The margins of timing.ts: a commitment is not sent when the auction is  *)
(* about to end, the barrier waits until it has ended.                     *)
InTime(l) ==
  /\ l \in Commitments => clock = "open"
  /\ l = Barrier => clock = "ended"

(* claimMessageOutbox, durable before the submission.                      *)
ClaimSequence(p) ==
  LET l == proc[p].seq
  IN  /\ At(p, "publish") /\ Out(p).st = "PENDING"
      /\ l = Barrier => clock = "ended"
      /\ IF /\ ReadyFor(Listed(p), l, mem[p].id)
            /\ InTime(l)
            /\ \A k \in 1..(l - 1) : mem[p].out[k].st = "CONFIRMED"
         THEN /\ Persist(p, [mem[p] EXCEPT !.out[l] =
                   [st |-> "CLAIMED",
                    hash |-> IF l = RouteReserved THEN rsv.hash
                                                  ELSE HashOf(l, mem[p].id, p)]])
              /\ Goto(p, "submit")
         ELSE Throw(p) /\ UNCHANGED file
      /\ UNCHANGED <<materials, topics, world, money, evidence, crashes, calm>>

Land(p) == Append(Topic(p).msgs, [hash |-> Out(p).hash, at |-> clock])

SubmitMessage(p) ==
  /\ At(p, "submit")
  /\ topics' = [topics EXCEPT ![mem[p].topic].msgs = Land(p)]
  /\ Goto(p, "await")
  /\ UNCHANGED <<file, materials, mem, world, money, evidence, crashes, calm>>

(* An error of the submission, or a Mirror wait that runs out: the message *)
(* is marked AMBIGUOUS.                                                    *)
Unsure(p) ==
  /\ file' = [mem[p] EXCEPT !.out[proc[p].seq].st = "AMBIGUOUS"]
  /\ IF proc[p].seq = RouteReserved
     THEN Goto(p, "resolve") /\ mem' = [mem EXCEPT ![p] = file']
     ELSE Die(p)
  /\ calm' = FALSE

SubmitFails(p) ==
  /\ At(p, "submit")
  /\ \E landed \in BOOLEAN :
       topics' = IF landed THEN [topics EXCEPT ![mem[p].topic].msgs = Land(p)]
                           ELSE topics
  /\ Unsure(p)
  /\ UNCHANGED <<materials, world, money, evidence, crashes>>

MirrorTimeout(p) ==
  /\ At(p, "await")
  /\ Unsure(p)
  /\ UNCHANGED <<materials, topics, world, money, evidence, crashes>>

(* Mutant: the message is confirmed wherever Mirror lists it.              *)
MirrorConfirmsAnywhere(p) ==
  LET ms == Listed(p)
      found == {i \in DOMAIN ms : ms[i].hash = Out(p).hash}
  IN  /\ At(p, "await") /\ found # {}
      /\ Persist(p, ConfirmMessage(p, proc[p].seq)) /\ proc' = After(p)
      /\ UNCHANGED <<materials, topics, world, money, evidence, crashes, calm>>

(* The sequence the network gave must be the one that was claimed.         *)
MirrorConfirms(p) ==
  LET l == proc[p].seq
      ms == Listed(p)
      found == {i \in DOMAIN ms : ms[i].hash = Out(p).hash}
  IN  /\ At(p, "await") /\ found # {}
      /\ IF l \in found
         THEN Persist(p, ConfirmMessage(p, l)) /\ proc' = After(p)
         ELSE Throw(p) /\ UNCHANGED file
      /\ UNCHANGED <<materials, topics, world, money, evidence, crashes, calm>>

-----------------------------------------------------------------------------
(* Reconciliation, and the reservation up to its challenge.                *)

(* Sequence 5 is only there when an earlier run got as far.                *)
Reconcile(p) ==
  LET ms == Listed(p)
      run == mem[p].id
  IN  /\ At(p, "reconcile")
      /\ IF /\ Len(ms) >= 5 => ResolvedFive(ms, run, mem[p].out[RouteReserved].hash)
            /\ Reconciled(IF Len(ms) >= 5 THEN SubSeq(ms, 1, 4) ELSE ms, run)
         THEN Persist(p, [mem[p] EXCEPT !.status = "RUNNING"]) /\ Goto(p, "proof")
         ELSE Die(p) /\ UNCHANGED file
      /\ UNCHANGED <<materials, topics, world, money, evidence, crashes, calm>>

(* reconstructFinalDemoProof: the winner follows from the four messages    *)
(* and the materials.                                                      *)
ProofOf(ms, run) == Reconciled(SubSeq(ms, 1, 4), run)

(* doubleReconstructFinalDemoProofFromDisk: the materials are read again.  *)
ReconstructProof(p) ==
  /\ At(p, "proof")
  /\ IF ProofOf(Listed(p), mem[p].id)
     THEN Persist(p, mem[p]) /\ Goto(p, "reserve")
     ELSE Die(p) /\ UNCHANGED file
  /\ UNCHANGED <<materials, topics, world, money, evidence, crashes, calm>>

(* createReservation, selectOption and issueChallenge, one write each.     *)
Prepare(p) ==
  /\ At(p, "reserve")
  /\ CASE rsv.st = "none" -> rsv' = [rsv EXCEPT !.st = "OFFER_CREATED"]
       [] rsv.st = "OFFER_CREATED" -> rsv' = [rsv EXCEPT !.st = "OPTION_SELECTED"]
       [] rsv.st = "OPTION_SELECTED" ->
            rsv' = [rsv EXCEPT !.st = "PAYMENT_CHALLENGE_ISSUED"]
       [] OTHER -> UNCHANGED rsv
  /\ IF rsv.st \in {"none", "OFFER_CREATED"} THEN UNCHANGED proc ELSE Goto(p, "claimed")
  /\ UNCHANGED <<file, materials, mem, topics, world, tx, paid, evidence, crashes, calm>>

-----------------------------------------------------------------------------
(* The payment.                                                            *)

Call(p, pc, via) == proc' = [proc EXCEPT ![p].pc = pc, ![p].via = via]

(* A claim without a transaction: the frozen transaction is looked up, and *)
(* is adopted when it is there, has failed when its window is past.        *)
ReconcilePayment(p) ==
  /\ At(p, "claimed")
  /\ mem[p].pay = "CLAIMED" /\ ~HasTx /\ tx # "none"
  /\ IF rsv.st = "FACILITATOR_SETTLE_CLAIMED" /\ tx = "landed"
     THEN /\ rsv' = [rsv EXCEPT !.st = "FACILITATOR_SETTLED"]
          /\ Call(p, "confirm", "adopt") /\ UNCHANGED mem
     ELSE /\ rsv' = IF rsv.st = "FACILITATOR_SETTLE_CLAIMED" /\ tx \in {"failed", "past"}
                    THEN [rsv EXCEPT !.st = "SETTLEMENT_FAILED"] ELSE rsv
          /\ Die(p)
  /\ UNCHANGED <<file, materials, topics, world, tx, paid, evidence, crashes, calm>>

(* clearSafePreSubmissionPaymentClaim: nothing was ever handed out.        *)
ClearClaim(p) ==
  /\ At(p, "claimed")
  /\ mem[p].pay = "CLAIMED" /\ ~HasTx /\ tx = "none"
  /\ rsv.st = "PAYMENT_CHALLENGE_ISSUED"
  /\ mem[p].out[RouteReserved].st = "PENDING"
  /\ Persist(p, [mem[p] EXCEPT !.pay = "NONE"])
  /\ Goto(p, "pay")
  /\ UNCHANGED <<materials, topics, world, money, evidence, crashes, calm>>

NoOpenClaim(p) ==
  /\ At(p, "claimed") /\ (mem[p].pay # "CLAIMED" \/ HasTx)
  /\ Goto(p, "pay")
  /\ UNCHANGED <<file, materials, mem, topics, world, money, evidence, crashes, calm>>

(* Mutant: a confirmation that timed out is not taken up again.            *)
NeverResumed(p) ==
  /\ At(p, "pay") /\ rsv.st \in {"FACILITATOR_SETTLED", "CONFIRMATION_TIMED_OUT"}
  /\ IF rsv.st = "CONFIRMATION_TIMED_OUT"
     THEN Die(p) /\ UNCHANGED rsv
     ELSE Call(p, "confirm", "resume") /\ UNCHANGED <<rsv, mem>>
  /\ UNCHANGED <<file, materials, topics, world, tx, paid, evidence, crashes, calm>>

(* resumePaymentConfirmation: a confirmation that timed out is taken up    *)
(* again, but only with the facilitator's own answer on record.            *)
ResumePayment(p) ==
  /\ At(p, "pay") /\ rsv.st \in {"FACILITATOR_SETTLED", "CONFIRMATION_TIMED_OUT"}
  /\ IF rsv.st = "CONFIRMATION_TIMED_OUT" /\ ~rsv.settle
     THEN rsv' = [rsv EXCEPT !.st = "MANUAL_REVIEW_REQUIRED"] /\ Die(p)
     ELSE /\ rsv' = [rsv EXCEPT !.st = "FACILITATOR_SETTLED"]
          /\ Call(p, "confirm", "resume") /\ UNCHANGED mem
  /\ UNCHANGED <<file, materials, topics, world, tx, paid, evidence, crashes, calm>>

AlreadyReserved(p) ==
  /\ At(p, "pay") /\ rsv.st = "ROUTE_RESERVED"
  /\ Call(p, "seq5", "none")
  /\ UNCHANGED <<file, materials, mem, topics, world, money, evidence, crashes, calm>>

(* The gate of a new payment: an untouched challenge, a topic that holds   *)
(* the four messages and nothing else, and a claim before the signature.   *)
ClaimPayment(p) ==
  /\ At(p, "pay") /\ rsv.st \notin {"FACILITATOR_SETTLED", "CONFIRMATION_TIMED_OUT",
                                    "ROUTE_RESERVED"}
  /\ IF /\ rsv.st = "PAYMENT_CHALLENGE_ISSUED"
        /\ Pristine(Listed(p), mem[p].id)
        /\ mem[p].pay = "NONE"
     THEN Persist(p, [mem[p] EXCEPT !.pay = "CLAIMED"]) /\ Goto(p, "sign")
     ELSE Die(p) /\ UNCHANGED file
  /\ UNCHANGED <<materials, topics, world, money, evidence, crashes, calm>>

(* The payload factory may throw; the claim then stays.                    *)
FactoryThrows(p) ==
  /\ At(p, "sign")
  /\ Die(p)
  /\ UNCHANGED <<file, materials, topics, world, money, evidence, crashes, calm>>

(* submitPayment freezes the client's transaction in the record.           *)
SubmitPayment(p) ==
  /\ At(p, "sign")
  /\ IF rsv.st = "PAYMENT_CHALLENGE_ISSUED"
     THEN /\ rsv' = [rsv EXCEPT !.st = "FACILITATOR_SETTLE_CLAIMED"]
          /\ tx' = "frozen"
          /\ Call(p, "settle", "submit") /\ UNCHANGED mem
     ELSE Die(p) /\ UNCHANGED <<rsv, tx>>
  /\ UNCHANGED <<file, materials, topics, world, paid, evidence, crashes, calm>>

Transmit(p) ==
  /\ At(p, "settle") /\ tx = "frozen"
  /\ tx' = "sent"
  /\ UNCHANGED <<file, materials, proc, mem, topics, world, rsv, paid, evidence,
                 crashes, calm>>

(* The facilitator answers, truly, that the payment settled or failed.     *)
SettleAnswer(p) ==
  /\ At(p, "settle") /\ tx \in {"landed", "failed"}
  /\ IF tx = "landed"
     THEN /\ rsv' = [rsv EXCEPT !.st = "FACILITATOR_SETTLED", !.settle = TRUE]
          /\ Goto(p, "confirm") /\ UNCHANGED mem
     ELSE /\ rsv' = [rsv EXCEPT !.st = "SETTLEMENT_FAILED", !.settle = TRUE]
          /\ Die(p)
  /\ UNCHANGED <<file, materials, topics, world, tx, paid, evidence, crashes, calm>>

(* No answer: submitPayment throws and the record stays claimed.           *)
SettleThrows(p) ==
  /\ At(p, "settle") /\ tx # "frozen"
  /\ Die(p)
  /\ UNCHANGED <<file, materials, topics, world, money, evidence, crashes, calm>>

(* runMirrorConfirmation and the two commits that follow it.               *)
ConfirmPayment(p) ==
  /\ At(p, "confirm")
  /\ rsv' = [rsv EXCEPT !.st = "PAYMENT_CONFIRMED"]
  /\ Goto(p, "reserved")
  /\ UNCHANGED <<file, materials, mem, topics, world, tx, paid, evidence, crashes, calm>>

ReserveRoute(p) ==
  /\ At(p, "reserved")
  /\ rsv' = [rsv EXCEPT !.st = "ROUTE_RESERVED"]
  /\ Goto(p, "hcs")
  /\ UNCHANGED <<file, materials, mem, topics, world, tx, paid, evidence, crashes, calm>>

(* The confirmation window closes: submitPayment returns the transaction,  *)
(* which is noted before the run ends; an adopted payment is taken up once *)
(* more.                                                                   *)
ConfirmationTimeout(p) ==
  /\ At(p, "confirm")
  /\ rsv' = [rsv EXCEPT !.st = "CONFIRMATION_TIMED_OUT"]
  /\ CASE proc[p].via = "submit" ->
            file' = [mem[p] EXCEPT !.pay = "SUBMITTED"] /\ Die(p)
       [] proc[p].via = "adopt" ->
            Goto(p, "pay") /\ UNCHANGED <<file, mem>>
       [] OTHER -> Die(p) /\ UNCHANGED file
  /\ calm' = (calm /\ rsv.settle)
  /\ UNCHANGED <<materials, topics, world, tx, paid, evidence, crashes>>

-----------------------------------------------------------------------------
(* Sequence 5.                                                             *)

(* publishHcsEvidence: claim and publish once, resolve what was claimed.   *)
ClaimPublication(p) ==
  /\ At(p, "hcs")
  /\ CASE rsv.hcs = "none" ->
            /\ rsv' = [rsv EXCEPT !.hcs = "CLAIMED",
                                  !.hash = HashOf(RouteReserved, mem[p].id, p)]
            /\ Goto(p, "preflight")
       [] rsv.hcs = "CLAIMED" -> Goto(p, "resolve") /\ UNCHANGED rsv
  /\ UNCHANGED <<file, materials, mem, topics, world, tx, paid, evidence, crashes, calm>>

(* The publisher handed to the service looks at the topic first.           *)
Preflight(p) ==
  /\ At(p, "preflight")
  /\ proc' = [proc EXCEPT ![p].seq = RouteReserved,
                          ![p].pc = IF ReadyFor(Listed(p), RouteReserved, mem[p].id)
                                    THEN "publish" ELSE "resolve"]
  /\ UNCHANGED <<file, materials, mem, topics, world, money, evidence, crashes, calm>>

Published(p) ==
  /\ At(p, "published")
  /\ rsv' = [rsv EXCEPT !.hcs = "PUBLISHED", !.named = TRUE]
  /\ Goto(p, "paid")
  /\ UNCHANGED <<file, materials, mem, topics, world, tx, paid, evidence, crashes, calm>>

(* resolveAmbiguousHcsClaim with the Mirror resolver: whatever is not      *)
(* exactly the five messages is left to manual review.                     *)
Resolve(p) ==
  /\ At(p, "resolve")
  /\ IF ResolvedFive(Listed(p), mem[p].id, rsv.hash)
     THEN \E named \in BOOLEAN :
            rsv' = [rsv EXCEPT !.hcs = "PUBLISHED", !.named = named]
     ELSE rsv' = [rsv EXCEPT !.hcs = "MANUAL_REVIEW_REQUIRED"]
  /\ Goto(p, "paid")
  /\ UNCHANGED <<file, materials, mem, topics, world, tx, paid, evidence, crashes, calm>>

(* The call returns; a new payment is noted as CONFIRMED.                  *)
NotePayment(p) ==
  /\ At(p, "paid")
  /\ IF proc[p].via = "submit"
     THEN Persist(p, [mem[p] EXCEPT !.pay = "CONFIRMED"])
     ELSE UNCHANGED <<file, mem>>
  /\ Call(p, "seq5", "none")
  /\ UNCHANGED <<materials, topics, world, money, evidence, crashes, calm>>

(* Resume the publication, or note the one the service resolved: without   *)
(* the name of its transaction only when the outbox is AMBIGUOUS.          *)
ConfirmFive(p) ==
  LET out == mem[p].out[RouteReserved].st
  IN  /\ At(p, "seq5")
      /\ CASE out = "CONFIRMED" -> Goto(p, "evidence") /\ UNCHANGED <<file, mem>>
           [] out # "CONFIRMED" /\ rsv.hcs \in {"none", "CLAIMED"} ->
                Goto(p, "hcs") /\ UNCHANGED <<file, mem>>
           [] out # "CONFIRMED" /\ rsv.hcs = "PUBLISHED"
              /\ (out = "AMBIGUOUS" \/ (out = "CLAIMED" /\ rsv.named)) ->
                /\ Persist(p, ConfirmMessage(p, RouteReserved))
                /\ Goto(p, "evidence")
           [] OTHER -> Die(p) /\ UNCHANGED file
      /\ UNCHANGED <<materials, topics, world, money, evidence, crashes, calm>>

-----------------------------------------------------------------------------
(* Evidence, and the end.                                                  *)

StartEvidence(p) ==
  /\ At(p, "evidence")
  /\ Persist(p, [mem[p] EXCEPT !.status = "EVIDENCE_WRITING", !.pay = "CONFIRMED"])
  /\ Goto(p, "writing")
  /\ UNCHANGED <<materials, topics, world, money, evidence, crashes, calm>>

WriteEvidence(p) ==
  /\ At(p, "writing")
  /\ evidence' = TRUE
  /\ Goto(p, "written")
  /\ UNCHANGED <<file, materials, mem, topics, world, money, crashes, calm>>

Complete(p) ==
  /\ At(p, "written")
  /\ IF mem[p].status = "EVIDENCE_WRITING"
     THEN Persist(p, [mem[p] EXCEPT !.status = "EVIDENCE_WRITTEN"]) /\ UNCHANGED proc
     ELSE Persist(p, [mem[p] EXCEPT !.status = "COMPLETED"]) /\ Goto(p, "done")
  /\ UNCHANGED <<materials, topics, world, money, evidence, crashes, calm>>

-----------------------------------------------------------------------------
(* The rest of the world.                                                  *)

Kill(p) ==
  /\ proc[p].pc \notin {"off", "done"} /\ crashes < MaxCrashes
  /\ crashes' = crashes + 1
  /\ lock' \in {lock, TRUE}
  /\ calm' = (calm /\ Settled /\ ~lock')
  /\ Die(p)
  /\ UNCHANGED <<file, materials, topics, clock, stray, money, evidence>>

MirrorCatchesUp ==
  \E t \in DOMAIN topics :
    /\ topics[t].shown < Len(topics[t].msgs)
    /\ topics' = [topics EXCEPT ![t].shown = @ + 1]
    /\ UNCHANGED <<file, materials, proc, mem, world, money, evidence, crashes, calm>>

SomeoneElseSubmits ==
  \E t \in DOMAIN topics :
    /\ stray < MaxStray
    /\ stray' = stray + 1
    /\ topics' = [topics EXCEPT ![t].msgs = Append(@, [hash |-> None, at |-> clock])]
    /\ calm' = FALSE
    /\ UNCHANGED <<file, materials, proc, mem, clock, lock, money, evidence,
                   crashes>>

CommitmentsIn ==
  \E t \in DOMAIN topics : Len(topics[t].msgs) >= 3

(* The auction nears its end, and ends.                                    *)
Tick ==
  /\ clock # "ended"
  /\ clock' = IF clock = "open" THEN "closing" ELSE "ended"
  /\ calm' = (calm /\ CommitmentsIn)
  /\ UNCHANGED <<file, materials, proc, mem, topics, stray, lock, money, evidence,
                 crashes>>

(* The network takes the payment, refuses it, or lets its window pass.     *)
PaymentOutcome ==
  /\ \/ tx = "sent" /\ tx' = "landed" /\ paid' = paid + 1 /\ UNCHANGED calm
     \/ tx = "sent" /\ tx' = "failed" /\ UNCHANGED paid /\ calm' = FALSE
     \/ tx \in {"frozen", "sent"} /\ tx' = "past" /\ UNCHANGED paid /\ calm' = FALSE
  /\ UNCHANGED <<file, materials, proc, mem, topics, world, rsv, evidence, crashes>>

Step(p) ==
  \/ BootFresh(p) \/ BootResume(p) \/ CreateAttempt(p)
  \/ ClaimTopic(p) \/ CreateTopic(p) \/ CreateTopicFails(p) \/ FinalizeTopic(p)
  \/ HaveTopic(p)
  \/ AlreadyConfirmed(p) \/ RecoverClaimed(p) \/ ClaimSequence(p)
  \/ SubmitMessage(p) \/ SubmitFails(p) \/ MirrorTimeout(p) \/ MirrorConfirms(p)
  \/ Reconcile(p) \/ ReconstructProof(p) \/ Prepare(p)
  \/ ReconcilePayment(p) \/ ClearClaim(p) \/ NoOpenClaim(p)
  \/ ResumePayment(p) \/ AlreadyReserved(p) \/ ClaimPayment(p)
  \/ FactoryThrows(p) \/ SubmitPayment(p) \/ Transmit(p)
  \/ SettleAnswer(p) \/ SettleThrows(p)
  \/ ConfirmPayment(p) \/ ReserveRoute(p) \/ ConfirmationTimeout(p)
  \/ ClaimPublication(p) \/ Preflight(p) \/ Published(p) \/ Resolve(p)
  \/ NotePayment(p) \/ ConfirmFive(p)
  \/ StartEvidence(p) \/ WriteEvidence(p) \/ Complete(p)

Next ==
  \/ \E p \in Proc : Step(p) \/ Kill(p)
  \/ MirrorCatchesUp \/ SomeoneElseSubmits \/ Tick \/ PaymentOutcome

Spec == Init /\ [][Next]_vars

(* The operator starts a run that ended again; the auction ends; Mirror    *)
(* catches up; a payment has an outcome; and a signature or a confirmation *)
(* that is tried again and again succeeds at last.                         *)
FairSpec ==
  /\ Spec
  /\ \A p \in Proc : /\ WF_vars(Step(p))
                     /\ SF_vars(SubmitPayment(p)) /\ SF_vars(ConfirmPayment(p))
  /\ WF_vars(MirrorCatchesUp) /\ WF_vars(Tick) /\ WF_vars(PaymentOutcome)

-----------------------------------------------------------------------------
(* Properties.                                                             *)

(* An attempt creates one topic ("exactly one", orchestration.ts), however *)
(* often it is killed and started again; no message of it is there twice,  *)
(* and its messages are in the order of their labels: publishSequence      *)
(* never resubmits and never starts a sequence before its predecessors are *)
(* confirmed.                                                              *)
EachMessageOnceInOrder ==
  /\ Len(topics) <= 1
  /\ \A t \in DOMAIN topics : \A i, j \in DOMAIN topics[t].msgs :
       LET a == topics[t].msgs[i].hash
           b == topics[t].msgs[j].hash
       IN  i < j /\ a # None /\ b # None => a.label < b.label

(* What is reported is so: what the attempt file calls CONFIRMED stands at *)
(* that sequence of the topic, whatever was lost, ambiguous or recovered;  *)
(* ROUTE_RESERVED is published only for a payment the network made; and    *)
(* COMPLETED is written only with the evidence on disk, the payment made   *)
(* and all five messages confirmed.                                        *)
ReportedIsTrue ==
  /\ file # None =>
       \A l \in Label :
         file.out[l].st = "CONFIRMED" =>
           /\ file.topic \in DOMAIN topics
           /\ l \in DOMAIN topics[file.topic].msgs
           /\ topics[file.topic].msgs[l].hash = file.out[l].hash
  /\ \A t \in DOMAIN topics : \A i \in DOMAIN topics[t].msgs :
       LET h == topics[t].msgs[i].hash
       IN  h # None /\ h.label = RouteReserved => paid = 1
  /\ file # None /\ file.status = "COMPLETED" =>
       /\ evidence
       /\ paid = 1 /\ file.pay = "CONFIRMED"
       /\ \A l \in Label : file.out[l].st = "CONFIRMED"

(* The carrier is paid at most once, and only after an auction that was    *)
(* run as promised: the four messages of the run alone at sequences 1 to   *)
(* 4, both commitments before auctionEndsAt and the barrier after it.      *)
PaidForAFairAuction ==
  /\ paid <= 1
  /\ paid = 1 =>
       LET ms == topics[file.topic].msgs
       IN  /\ Len(ms) >= 4
           /\ \A l \in Auction : ms[l].hash # None /\ ms[l].hash.label = l
           /\ \A l \in Commitments : ms[l].at # "ended"
           /\ ms[Barrier].at = "ended"

(* A run that meets no lost answer, no foreign message, no refused payment *)
(* and no kill at a claim of unknown outcome completes: an operator who    *)
(* starts it again after a kill, a failed signature, a lost answer of the  *)
(* facilitator or a confirmation timeout gets to the end.                  *)
UndisturbedCompletes == <>(~calm \/ (file # None /\ file.status = "COMPLETED"))

=============================================================================
