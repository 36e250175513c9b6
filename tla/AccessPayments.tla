---------------------------- MODULE AccessPayments ----------------------------
(***************************************************************************)
(* The x402 access routes of one tender (src/v2/http/routes.ts): a request *)
(* to activate the tender or to submit a bid is checked against the        *)
(* lifecycle record, paid for through a durable payment claim              *)
(* (src/v2/store/payment-claim-store.ts), settled by the facilitator       *)
(* (src/v2/access/x402-gate.ts) and committed to the lifecycle record.     *)
(*                                                                         *)
(* A handler is one request in hand, in this server process or in another  *)
(* one on the same files.  A step ends where the code awaits a store, the  *)
(* facilitator or the reconciler; a mutation of the claim journal, or of   *)
(* the lifecycle record, is one step (module LifecycleStore has its own    *)
(* steps).  A payload is a signed transfer with one transaction id, which  *)
(* the network executes at most once.  Requests are well formed, eligible  *)
(* and signed; any other is refused before it changes anything.            *)
(***************************************************************************)
EXTENDS Integers, FiniteSets

CONSTANTS
  Handlers,       \* requests in hand at once
  Clients,        \* sets of [action, bid, body, payload]: what clients may send,
                  \* and resend, in one life of the tender
  Actions,        \* action ids
  Bids,           \* bid ids
  Bodies,         \* signed bid bodies
  Payloads,       \* payment payloads clients hold
  PaysFor,        \* payload -> the resource it declares: a bid, or Activation
  Activation,     \* stands for the bid id of an activation
  AuctionEndsAt,  \* the tender's auction end
  ReconcilerFinds,\* assumption: the injected reconciler looks payments up
  MaxCrashes,     \* bound: handlers that die
  MaxTime         \* bound: the clock

None == "NONE"
Requests == UNION Clients

ASSUME AccessConstants ==
  /\ Activation \notin Bids /\ None \notin Bids \cup Bodies \cup Payloads
  /\ Requests \subseteq [action: Actions, bid: Bids \cup {Activation},
                         body: Bodies \cup {None}, payload: Payloads \cup {None}]
  /\ PaysFor \in [Payloads -> Bids \cup {Activation}]
  /\ ReconcilerFinds \in BOOLEAN
  /\ AuctionEndsAt \in Nat /\ MaxTime \in Nat /\ MaxCrashes \in Nat

VARIABLES
  state,      \* lifecycle state of the record
  updatedAt,  \* the record's updatedAt: the time of its last event
  processed,  \* the record's processedActions, with the payment each carries
  bodies,     \* the bid-body store: bid -> body
  claims,     \* the payment-claim journal: action -> claim
  executed,   \* payloads the network has executed
  settles,    \* payload -> settle calls made
  raced,      \* history: payments two requests were about to settle at once
  malformed,  \* history: executed payments whose answer the gate rejected
  handler, now, crashes,
  sent        \* what clients send, the same throughout

record == <<state, updatedAt, processed>>
history == <<raced, malformed>>
vars == <<record, bodies, claims, executed, settles, history, handler, now, crashes, sent>>

LifecycleStates ==
  {"DRAFT", "ESCROW_FUNDED", "TENDER_OPENED", "BIDDING", "AUCTION_CLOSED"}
PAYMENT_CLAIM_STATES ==
  {"CLAIMED", "SETTLING", "SETTLED_PENDING_COMMIT", "COMMITTED", "FAILED"}
Times == 0..MaxTime
Resources == Bids \cup {Activation}

(* A claim: the request it is bound to, its state, when it was settled. *)
PaymentClaim ==
  [bid: Resources, body: Bodies \cup {None}, payload: Payloads,
   state: PAYMENT_CLAIM_STATES, settledAt: Times \cup {-1}]
NoClaim == [bid |-> None, body |-> None, payload |-> None, state |-> None,
            settledAt |-> -1]

(* A processed action: what was committed, with which payment, settled when. *)
Commits == [bid: Resources, body: Bodies \cup {None}, payload: Payloads,
            at: Times]
NotProcessed == [bid |-> None, body |-> None, payload |-> None, at |-> -1]

(* What a handler has read of the record: its state, what its action id was *)
(* used for, whether its bid is in the registry.                            *)
NothingSeen == [state |-> None, prior |-> None, bidAccepted |-> FALSE]

NoRequest == [action |-> None, bid |-> None, body |-> None, payload |-> None]
Idle == [pc |-> "idle", req |-> NoRequest, seen |-> NothingSeen,
         claimed |-> FALSE, settledAt |-> -1]

bidRegistry == {processed[a].bid : a \in Actions} \cap Bids
accessPayments == {processed[a].payload : a \in Actions} \ {None}

Init ==
  /\ state = "DRAFT" /\ updatedAt = 0
  /\ processed = [a \in Actions |-> NotProcessed]
  /\ bodies = [b \in Bids |-> None]
  /\ claims = [a \in Actions |-> NoClaim]
  /\ executed = {}
  /\ settles = [p \in Payloads |-> 0]
  /\ raced = {} /\ malformed = {}
  /\ handler = [h \in Handlers |-> Idle]
  /\ now = 0 /\ crashes = 0
  /\ sent \in Clients

-----------------------------------------------------------------------------
(* Handlers *)

At(h, pc) == handler[h].pc = pc
Req(h) == handler[h].req
Claim(h) == claims[Req(h).action]

GoTo(h, pc) == handler' = [handler EXCEPT ![h].pc = pc]

(* The response, success or error, ends the handler; nobody here reads it. *)
Reply(h, code) == handler' = [handler EXCEPT ![h] = Idle]

(* loadRecord *)
SeenBy(r) == [state |-> state, prior |-> processed[r.action].bid,
              bidAccepted |-> r.bid \in bidRegistry]

receive(h, r) ==
  /\ At(h, "idle")
  /\ handler' = [handler EXCEPT ![h] =
       [Idle EXCEPT !.pc = "lookup", !.req = r, !.seen = SeenBy(r)]]
  /\ UNCHANGED <<record, bodies, claims, executed, settles, history, now, crashes, sent>>

(* assertClaimMatches: action type, bid, resource and request hash. *)
assertClaimMatches(r, c) == c.bid = r.bid /\ c.body = r.body

(* Mutant: an activation on record is answered without a look at its claim. *)
ActivationReplayed(r, seen, c) ==
  IF seen.prior \in Bids THEN "ACTION_ID_CONFLICT"
  ELSE IF seen.prior = Activation THEN "REPLAYED"
  ELSE IF seen.state = "DRAFT" THEN "ESCROW_NOT_CONFIRMED"
  ELSE IF seen.state # "ESCROW_FUNDED" THEN "INVALID_LIFECYCLE_STATE"
  ELSE IF r.payload = None /\ c = NoClaim THEN "PAYMENT_REQUIRED"
  ELSE "PROCEED"

(* The checks before any payment, in their order. *)
handleActivate(r, seen, c) ==
  IF seen.prior \in Bids THEN "ACTION_ID_CONFLICT"
  ELSE IF seen.prior = Activation
       THEN IF c # NoClaim THEN "PROCEED" ELSE "REPLAYED"
  ELSE IF seen.state = "DRAFT" THEN "ESCROW_NOT_CONFIRMED"
  ELSE IF seen.state # "ESCROW_FUNDED" THEN "INVALID_LIFECYCLE_STATE"
  ELSE IF r.payload = None /\ c = NoClaim THEN "PAYMENT_REQUIRED"
  ELSE "PROCEED"

handleBid(r, seen, c) ==
  IF seen.prior # None /\ c = NoClaim
  THEN IF seen.prior = r.bid THEN "REPLAYED" ELSE "ACTION_ID_CONFLICT"
  ELSE IF seen.state \in {"DRAFT", "ESCROW_FUNDED"} THEN "INVALID_LIFECYCLE_STATE"
  ELSE IF seen.state = "AUCTION_CLOSED" \/ now > AuctionEndsAt THEN "AUCTION_CLOSED"
  ELSE IF seen.bidAccepted /\ c = NoClaim THEN "PERSISTENCE_CONFLICT"
  ELSE IF c # NoClaim /\ ~assertClaimMatches(r, c) THEN "ACTION_ID_CONFLICT"
  ELSE IF r.payload = None /\ c = NoClaim THEN "PAYMENT_REQUIRED"
  ELSE "PROCEED"

Verdict(r, seen, c) ==
  IF r.bid = Activation THEN handleActivate(r, seen, c) ELSE handleBid(r, seen, c)

(* getByActionId, and the checks. *)
lookup(h) ==
  /\ At(h, "lookup")
  /\ LET r == Req(h)
         verdict == Verdict(r, handler[h].seen, Claim(h))
     IN  IF verdict # "PROCEED" THEN Reply(h, verdict)
         ELSE handler' = [handler EXCEPT
                ![h].pc = IF r.bid = Activation THEN "execute" ELSE "findBody",
                ![h].claimed = Claim(h) # NoClaim,
                ![h].seen = NothingSeen]
  /\ UNCHANGED <<record, bodies, claims, executed, settles, history, now, crashes, sent>>

(* FileBidBodyStore.put: read, then write a body nobody has stored yet. *)
findBody(h) ==
  /\ At(h, "findBody")
  /\ LET stored == bodies[Req(h).bid]
     IN  IF stored = None THEN GoTo(h, "putBody")
         ELSE IF stored = Req(h).body THEN GoTo(h, "execute")
         ELSE Reply(h, "PERSISTENCE_CONFLICT")
  /\ UNCHANGED <<record, bodies, claims, executed, settles, history, now, crashes, sent>>

putBody(h) ==
  /\ At(h, "putBody")
  /\ bodies' = [bodies EXCEPT ![Req(h).bid] = Req(h).body]
  /\ GoTo(h, "execute")
  /\ UNCHANGED <<record, claims, executed, settles, history, now, crashes, sent>>

-----------------------------------------------------------------------------
(* executePaymentClaim *)

(* Mutant: the resource a payment was made for is not compared. *)
AnyResourceAccepted(r) == r.payload \in Payloads

(* gate.verify: the payment declares this very resource. *)
assertBinding(r) == r.payload \in Payloads /\ PaysFor[r.payload] = r.bid

(* Mutant: an interrupted settlement is started again. *)
RecoveryResettles(s) ==
  CASE s \in {"CLAIMED", "SETTLING"} -> "startSettling"
    [] s = "SETTLED_PENDING_COMMIT" -> "commit"
    [] s = "COMMITTED" -> "rebuild"

(* Where a claim is taken up, by its state. *)
RecoveryStep(s) ==
  CASE s = "CLAIMED" -> "startSettling"
    [] s = "SETTLING" -> "reconcile"
    [] s = "SETTLED_PENDING_COMMIT" -> "commit"
    [] s = "COMMITTED" -> "rebuild"

(* A claim in hand; one not yet settled needs the payment it was made with. *)
Dispatch(h, c) ==
  IF ~assertClaimMatches(Req(h), c) THEN Reply(h, "ACTION_ID_CONFLICT")
  ELSE IF c.state = "FAILED" THEN Reply(h, "PAYMENT_SETTLEMENT_FAILED")
  ELSE IF c.state = "CLAIMED" /\ Req(h).payload = None
       THEN Reply(h, "PAYMENT_RECOVERY_FAILED")
  ELSE IF c.state = "CLAIMED" /\ ~assertBinding(Req(h))
       THEN Reply(h, "PAYMENT_RESOURCE_MISMATCH")
  ELSE IF c.state = "CLAIMED" /\ c.payload # Req(h).payload
       THEN Reply(h, "PAYMENT_CLAIM_CONFLICT")
  ELSE handler' = [handler EXCEPT ![h].pc = RecoveryStep(c.state),
                                  ![h].settledAt = c.settledAt]

(* getByActionId again: the claim may be new since the checks. *)
execute(h) ==
  /\ At(h, "execute")
  /\ IF Claim(h) # NoClaim THEN Dispatch(h, Claim(h))
     ELSE IF Req(h).payload = None THEN Reply(h, "PAYMENT_REQUIRED")
     ELSE IF ~assertBinding(Req(h)) THEN Reply(h, "PAYMENT_RESOURCE_MISMATCH")
     ELSE GoTo(h, "acquire")
  /\ UNCHANGED <<record, bodies, claims, executed, settles, history, now, crashes, sent>>

(* The facilitator's verifyPayment refuses the payment, of a request        *)
(* without a claim or of one that resumes a claim not yet settling.         *)
verifyFails(h) ==
  /\ \/ At(h, "acquire")
     \/ At(h, "execute") /\ Claim(h).state = "CLAIMED" /\ Req(h).payload # None
  /\ Reply(h, "PAYMENT_INVALID")
  /\ UNCHANGED <<record, bodies, claims, executed, settles, history, now, crashes, sent>>

(* Mutant: one payment is claimed by several actions. *)
PayloadFree(r) == TRUE

PayloadUnclaimed(r) == \A a \in Actions : claims[a].payload # r.payload

(* acquireIn: the claim of the action, or a new one for an unused payment. *)
acquire(h) ==
  /\ At(h, "acquire")
  /\ LET r == Req(h)
         created == [bid |-> r.bid, body |-> r.body, payload |-> r.payload,
                     state |-> "CLAIMED", settledAt |-> -1]
     IN  IF Claim(h) # NoClaim
         THEN /\ IF assertClaimMatches(r, Claim(h)) /\ Claim(h).payload = r.payload
                 THEN Dispatch(h, Claim(h))
                 ELSE Reply(h, "PAYMENT_CLAIM_CONFLICT")
              /\ UNCHANGED claims
         ELSE IF PayloadUnclaimed(r)
         THEN /\ claims' = [claims EXCEPT ![r.action] = created]
              /\ Dispatch(h, created)
         ELSE Reply(h, "PAYMENT_REPLAY") /\ UNCHANGED claims
  /\ UNCHANGED <<record, bodies, executed, settles, history, now, crashes, sent>>

(* transitionIn: from the expected state; a claim that is in the target     *)
(* state already is returned as it is.                                      *)
transition(h, from, to, settledAt) ==
  \/ /\ Claim(h).state = from
     /\ claims' = [claims EXCEPT ![Req(h).action].state = to,
                                 ![Req(h).action].settledAt = settledAt]
  \/ Claim(h).state = to /\ UNCHANGED claims

(* "payment claim state changed concurrently" *)
TransitionRefused(h, from, to) ==
  Claim(h).state \notin {from, to} /\ UNCHANGED claims

(* Another request has verified the same payment and is as far. *)
Racing(h) ==
  \E g \in Handlers \ {h} : At(g, "startSettling") /\ Req(g).action = Req(h).action

startSettling(h) ==
  /\ At(h, "startSettling")
  /\ \/ /\ transition(h, "CLAIMED", "SETTLING", -1)
        /\ GoTo(h, "settle")
        /\ raced' = IF Racing(h) THEN raced \cup {Req(h).payload} ELSE raced
     \/ /\ TransitionRefused(h, "CLAIMED", "SETTLING")
        /\ Reply(h, "PAYMENT_RECOVERY_FAILED")
        /\ UNCHANGED raced
  /\ UNCHANGED <<record, bodies, executed, settles, malformed, now, crashes, sent>>

(* A settle call reaches the facilitator. *)
SettleCalled(h) == settles' = [settles EXCEPT ![Req(h).payload] = @ + 1]

(* The transfer is executed and the answer arrives. *)
settleSucceeds(h) ==
  /\ At(h, "settle") /\ Req(h).payload \notin executed
  /\ SettleCalled(h)
  /\ executed' = executed \cup {Req(h).payload}
  /\ \/ /\ handler' = [handler EXCEPT ![h].pc = "recordSettled", ![h].settledAt = now]
        /\ UNCHANGED malformed
     \/ /\ GoTo(h, "recordFailed")                \* an answer the gate rejects
        /\ malformed' = malformed \cup {Req(h).payload}
  /\ UNCHANGED <<record, bodies, claims, raced, now, crashes, sent>>

(* The facilitator or the network refuses, a duplicate transaction too. *)
settleRefused(h) ==
  /\ At(h, "settle")
  /\ SettleCalled(h)
  /\ GoTo(h, "recordFailed")
  /\ UNCHANGED <<record, bodies, claims, executed, history, now, crashes, sent>>

(* The answer is lost: the transfer was executed or it was not. *)
settleLost(h) ==
  /\ At(h, "settle")
  /\ SettleCalled(h)
  /\ executed' \in {executed, executed \cup {Req(h).payload}}
  /\ Reply(h, "PAYMENT_SETTLEMENT_UNKNOWN")
  /\ UNCHANGED <<record, bodies, claims, history, now, crashes, sent>>

(* No other action has recorded this transaction. *)
SettlementUnbound(h) ==
  \A a \in Actions \ {Req(h).action} :
    claims[a].payload = Claim(h).payload => claims[a].settledAt = -1

(* The claim comes back with this settlement, or the one it had already. *)
recordSettled(h) ==
  /\ At(h, "recordSettled")
  /\ \/ /\ SettlementUnbound(h)
        /\ transition(h, "SETTLING", "SETTLED_PENDING_COMMIT", handler[h].settledAt)
        /\ handler' = [handler EXCEPT ![h].pc = "commit",
                                      ![h].settledAt = claims'[Req(h).action].settledAt]
     \/ /\ TransitionRefused(h, "SETTLING", "SETTLED_PENDING_COMMIT")
        /\ Reply(h, "PAYMENT_RECOVERY_FAILED")
  /\ UNCHANGED <<record, bodies, executed, settles, history, now, crashes, sent>>

recordFailed(h) ==
  /\ At(h, "recordFailed")
  /\ \/ /\ transition(h, "SETTLING", "FAILED", -1)
        /\ Reply(h, "PAYMENT_SETTLEMENT_FAILED")
     \/ /\ TransitionRefused(h, "SETTLING", "FAILED")
        /\ Reply(h, "PAYMENT_RECOVERY_FAILED")
  /\ UNCHANGED <<record, bodies, executed, settles, history, now, crashes, sent>>

-----------------------------------------------------------------------------
(* Reconciliation of a claim found SETTLING *)

(* The default reconciler knows nothing, and the Mirror Node reconciler     *)
(* needs a settlement, which no SETTLING claim has.                         *)
reconcileUnknown(h) ==
  /\ At(h, "reconcile")
  /\ Reply(h, "PAYMENT_SETTLEMENT_UNKNOWN")
  /\ UNCHANGED <<record, bodies, claims, executed, settles, history, now, crashes, sent>>

reconcileConfirmed(h) ==
  /\ At(h, "reconcile") /\ ReconcilerFinds
  /\ Claim(h).payload \in executed
  /\ handler' = [handler EXCEPT ![h].pc = "recordSettled", ![h].settledAt = now]
  /\ UNCHANGED <<record, bodies, claims, executed, settles, history, now, crashes, sent>>

(* Only when the transfer can no longer be executed. *)
reconcileFailed(h) ==
  /\ At(h, "reconcile") /\ ReconcilerFinds
  /\ Claim(h).payload \notin executed
  /\ \A g \in Handlers : At(g, "settle") => Req(g).payload # Claim(h).payload
  /\ GoTo(h, "recordFailed")
  /\ UNCHANGED <<record, bodies, claims, executed, settles, history, now, crashes, sent>>

-----------------------------------------------------------------------------
(* The protected resource *)

(* TENDER_ACTIVATION_PAID or BID_SUBMISSION_PAID, built from the claim. *)
Event(h) == [bid |-> Req(h).bid, body |-> Req(h).body,
             payload |-> Claim(h).payload, at |-> handler[h].settledAt]

(* What the reducer requires of it: NON_MONOTONIC_TIME refuses an event     *)
(* older than the record, and the event's time is the settlement's.         *)
reduceLifecycle(e) ==
  /\ updatedAt <= e.at
  /\ e.payload \notin accessPayments
  /\ \/ e.bid = Activation /\ state = "ESCROW_FUNDED"
     \/ /\ e.bid \in Bids \ bidRegistry
        /\ state \in {"TENDER_OPENED", "BIDDING"}
        /\ e.at <= AuctionEndsAt

(* lifecycle.apply: applied, or replayed. *)
commit(h) ==
  /\ At(h, "commit")
  /\ \/ /\ processed[Req(h).action] = Event(h)
        /\ UNCHANGED record
     \/ /\ processed[Req(h).action] = NotProcessed
        /\ reduceLifecycle(Event(h))
        /\ processed' = [processed EXCEPT ![Req(h).action] = Event(h)]
        /\ state' = IF Req(h).bid = Activation THEN "TENDER_OPENED" ELSE "BIDDING"
        /\ updatedAt' = handler[h].settledAt
  /\ GoTo(h, "finalize")
  /\ UNCHANGED <<bodies, claims, executed, settles, history, now, crashes, sent>>

(* The reducer refuses, or the store fails: a conflict, a lock, the disk. *)
commitFails(h) ==
  /\ At(h, "commit")
  /\ Reply(h, "RESOURCE_COMMIT_FAILED")
  /\ UNCHANGED <<record, bodies, claims, executed, settles, history, now, crashes, sent>>

finalize(h) ==
  /\ At(h, "finalize")
  /\ \/ /\ transition(h, "SETTLED_PENDING_COMMIT", "COMMITTED", Claim(h).settledAt)
        /\ Reply(h, IF handler[h].claimed THEN "REPLAYED" ELSE "PAID")
     \/ /\ TransitionRefused(h, "SETTLED_PENDING_COMMIT", "COMMITTED")
        /\ Reply(h, "PAYMENT_RECOVERY_FAILED")
  /\ UNCHANGED <<record, bodies, executed, settles, history, now, crashes, sent>>

(* A committed claim: the answer is rebuilt from the record. *)
rebuild(h) ==
  /\ At(h, "rebuild")
  /\ Reply(h, IF processed[Req(h).action] = NotProcessed
              THEN "PAYMENT_RECOVERY_FAILED"
              ELSE IF handler[h].claimed THEN "REPLAYED" ELSE "PAID")
  /\ UNCHANGED <<record, bodies, claims, executed, settles, history, now, crashes, sent>>

-----------------------------------------------------------------------------
(* The rest of the system *)

(* A handler's process dies, or the journal cannot be written under it. *)
crash(h) ==
  /\ ~At(h, "idle") /\ crashes < MaxCrashes
  /\ crashes' = crashes + 1
  /\ handler' = [handler EXCEPT ![h] = Idle]
  /\ UNCHANGED <<record, bodies, claims, executed, settles, history, now, sent>>

ESCROW_FUNDING_CONFIRMED ==
  /\ state = "DRAFT" /\ state' = "ESCROW_FUNDED" /\ updatedAt' = now
  /\ UNCHANGED <<processed, bodies, claims, executed, settles, history, handler, now, crashes, sent>>

AUCTION_CLOSE_CONFIRMED ==
  /\ state = "BIDDING" /\ AuctionEndsAt <= now
  /\ state' = "AUCTION_CLOSED" /\ updatedAt' = now
  /\ UNCHANGED <<processed, bodies, claims, executed, settles, history, handler, now, crashes, sent>>

tick ==
  /\ now < MaxTime /\ now' = now + 1
  /\ UNCHANGED <<record, bodies, claims, executed, settles, history, handler, crashes, sent>>

Settle(h) == settleSucceeds(h) \/ settleRefused(h) \/ settleLost(h)
Reconcile(h) == reconcileUnknown(h) \/ reconcileConfirmed(h) \/ reconcileFailed(h)

Proceed(h) ==
  \/ lookup(h) \/ findBody(h) \/ putBody(h) \/ execute(h)
  \/ verifyFails(h) \/ acquire(h) \/ startSettling(h) \/ Settle(h)
  \/ recordSettled(h) \/ recordFailed(h) \/ Reconcile(h)
  \/ commit(h) \/ commitFails(h) \/ finalize(h) \/ rebuild(h)

Next ==
  \/ \E h \in Handlers : \/ \E r \in sent : receive(h, r)
                         \/ Proceed(h)
                         \/ crash(h)
  \/ ESCROW_FUNDING_CONFIRMED \/ AUCTION_CLOSE_CONFIRMED \/ tick

Spec == Init /\ [][Next]_vars

-----------------------------------------------------------------------------
(* Properties *)

(* The journal, the record and the requests in hand are well formed, and no *)
(* payment is sent more often than there are handlers.                      *)
TypeOK ==
  /\ state \in LifecycleStates
  /\ processed \in [Actions -> Commits \cup {NotProcessed}]
  /\ bodies \in [Bids -> Bodies \cup {None}]
  /\ claims \in [Actions -> PaymentClaim \cup {NoClaim}]
  /\ executed \subseteq Payloads
  /\ settles \in [Payloads -> 0..Cardinality(Handlers)]
  /\ raced \subseteq Payloads /\ malformed \subseteq executed /\ updatedAt \in Times
  /\ \A h \in Handlers : handler[h].req \in Requests \cup {NoRequest}
  /\ now \in Times /\ crashes \in 0..MaxCrashes /\ sent \in Clients

(* Every action in the record was paid for by a transfer of its own that    *)
(* the network executed and that was made for that very resource: an        *)
(* activation is not bought with a bid's payment, nor two actions with one. *)
CommittedIsPaid ==
  \A a \in Actions : processed[a] # NotProcessed =>
    /\ processed[a].payload \in executed
    /\ PaysFor[processed[a].payload] = processed[a].bid
    /\ \A b \in Actions \ {a} : processed[b].payload # processed[a].payload

(* Nobody is charged behind the journal's back: when a transfer has been    *)
(* executed, one claim is bound to it, and that claim is past CLAIMED, so   *)
(* that a crash at any point finds it.                                      *)
ChargedIsClaimed ==
  \A p \in executed : \E a \in Actions :
    /\ claims[a].payload = p /\ claims[a].state # "CLAIMED"
    /\ \A b \in Actions \ {a} : claims[b].payload # p

(* "Paid identical retry: no second settlement": whatever is retried, a     *)
(* payment is sent to the facilitator once.                                 *)
NoSecondSettlement == \A p \in Payloads : settles[p] <= 1

(* What the facilitator was asked is not asked again, over any crash and    *)
(* retry, unless two requests had verified the same payment before either   *)
(* began to settle it; and FAILED is conclusive, the payer of a failed      *)
(* claim was not charged, but for that race and for an answer the gate      *)
(* could not read.                                                          *)
SettlementConclusive ==
  /\ \A p \in Payloads : settles[p] > 1 => p \in raced
  /\ \A a \in Actions :
       claims[a].state = "FAILED" /\ claims[a].payload \in executed =>
         claims[a].payload \in raced \cup malformed

(* A retry of the claim's request, without its payment, passes the checks   *)
(* and commits the resource, or finds it committed.                         *)
RetryDelivers(a) ==
  LET c == claims[a]
      r == [action |-> a, bid |-> c.bid, body |-> c.body, payload |-> None]
      e == [bid |-> c.bid, body |-> c.body, payload |-> c.payload, at |-> c.settledAt]
  IN  /\ Verdict(r, SeenBy(r), c) = "PROCEED"
      /\ c.bid \in Bids => bodies[c.bid] = c.body
      /\ \/ processed[a] = e
         \/ processed[a] = NotProcessed /\ reduceLifecycle(e)

(* What a settled payment may miss: its event is older than the record, or  *)
(* another action has bought the same activation or bid meanwhile; for a    *)
(* bid, the auction is over, or another body was stored over the claim's.   *)
Overtaken(a) ==
  \/ /\ processed[a] = NotProcessed
     /\ \/ updatedAt > claims[a].settledAt
        \/ \E b \in Actions : processed[b].bid = claims[a].bid
  \/ /\ claims[a].bid \in Bids
     /\ \/ state = "AUCTION_CLOSED" \/ now > AuctionEndsAt
        \/ bodies[claims[a].bid] # claims[a].body

(* Once its settlement is recorded, a payment buys what it was made for,    *)
(* whatever crashes: at every moment until the claim is COMMITTED a retry   *)
(* delivers it, unless it is overtaken.                                     *)
SettledIsDeliverable ==
  \A a \in Actions :
    claims[a].state = "SETTLED_PENDING_COMMIT" => RetryDelivers(a) \/ Overtaken(a)
=============================================================================
