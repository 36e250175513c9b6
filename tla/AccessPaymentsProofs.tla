------------------------ MODULE AccessPaymentsProofs -------------------------
(***************************************************************************)
(* Proofs about the x402 access routes, for any number of requests in      *)
(* hand, retries, crashes and lost answers: what is committed was paid     *)
(* for, whoever is charged has a claim, and the facilitator is asked twice *)
(* for one payment only after two requests raced to settle it.             *)
(***************************************************************************)
EXTENDS AccessPayments, TLAPS

(* The states of a claim whose payment is settled. *)
Settled == {"SETTLED_PENDING_COMMIT", "COMMITTED"}

Steps == {"idle", "lookup", "findBody", "putBody", "execute", "acquire",
          "startSettling", "settle", "recordSettled", "recordFailed", "reconcile",
          "commit", "finalize", "rebuild"}

(* The steps a handler takes with a claim of its action in hand. *)
WithClaim == {"startSettling", "settle", "recordSettled", "recordFailed", "reconcile",
              "commit", "finalize"}

Seen == [state: LifecycleStates \cup {None}, prior: Resources \cup {None},
         bidAccepted: BOOLEAN]
Handling ==
  [pc: Steps, req: Requests \cup {NoRequest}, seen: Seen, claimed: BOOLEAN,
   settledAt: Times \cup {-1}]

Typed ==
  /\ state \in LifecycleStates
  /\ processed \in [Actions -> Commits \cup {NotProcessed}]
  /\ claims \in [Actions -> PaymentClaim \cup {NoClaim}]
  /\ executed \subseteq Payloads
  /\ handler \in [Handlers -> Handling]
  /\ now \in Times

(* A claim is bound to a payment made for its resource; a settled one to an *)
(* executed payment.                                                        *)
Bound(c) ==
  c # NoClaim => /\ PaysFor[c.payload] = c.bid
                 /\ c.state \in Settled => c.payload \in executed /\ c.settledAt \in Times

(* No payment is bound to two claims. *)
PayloadsUnique ==
  \A a, b \in Actions : claims[a] # NoClaim /\ claims[a].payload = claims[b].payload => a = b

Charged ==
  \A p \in executed : \E a \in Actions : claims[a].payload = p /\ claims[a].state # "CLAIMED"

(* What is in the record is what its settled claim says. *)
Delivered(a) ==
  processed[a] # NotProcessed =>
    /\ claims[a] # NoClaim /\ claims[a].state \in Settled
    /\ processed[a].payload = claims[a].payload /\ processed[a].bid = claims[a].bid

(* What a handler knows of its claim, however stale its reading is. *)
Holds(h) == Claim(h) # NoClaim /\ assertClaimMatches(Req(h), Claim(h))

HandlerInv(h) ==
  /\ ~At(h, "idle") => Req(h) \in Requests
  /\ At(h, "acquire") => assertBinding(Req(h))
  /\ handler[h].pc \in WithClaim => Holds(h)
  /\ handler[h].pc \in {"startSettling", "settle"} => Claim(h).payload = Req(h).payload
  /\ handler[h].pc \in {"settle", "recordSettled"} => Claim(h).state # "CLAIMED"
  /\ At(h, "recordSettled") => Claim(h).payload \in executed
  /\ handler[h].pc \in {"commit", "finalize"} => Claim(h).state \in Settled
  /\ handler[h].pc \in {"recordSettled", "commit", "finalize"} => handler[h].settledAt \in Times

(* The inductive invariant. *)
IInv ==
  /\ Typed /\ PayloadsUnique /\ Charged
  /\ \A a \in Actions : Bound(claims[a]) /\ Delivered(a)
  /\ \A h \in Handlers : HandlerInv(h)

-----------------------------------------------------------------------------
(* A step of one handler *)

Frame(h) == \A g \in Handlers \ {h} : handler'[g] = handler[g]

(* How a claim may change under a handler that has read it: what it is      *)
(* bound to stays, a claim past CLAIMED stays past it, a settled one        *)
(* settled.                                                                 *)
Later(c, d) ==
  c # NoClaim =>
    /\ d # NoClaim /\ d.bid = c.bid /\ d.body = c.body /\ d.payload = c.payload
    /\ c.state # "CLAIMED" => d.state # "CLAIMED"
    /\ c.state \in Settled => d.state \in Settled

(* An action without a claim has no payment bound to it. *)
LEMMA NoClaimFields ==
  /\ NoClaim.payload = None /\ NoClaim.state = "NONE" /\ NoClaim \notin PaymentClaim
  /\ NoClaim.payload \notin Payloads /\ None \notin Payloads
<1>1. NoClaim.payload = None /\ NoClaim.state = "NONE" /\ None \notin Payloads
  BY AccessConstants DEF NoClaim, None
<1> QED BY <1>1 DEF PaymentClaim

(* A request names an action, and an activation or a bid. *)
LEMMA RequestFields ==
  ASSUME NEW r \in Requests
  PROVE  /\ r.action \in Actions /\ r.bid \in Resources
         /\ r.body \in Bodies \cup {None} /\ r.payload \in Payloads \cup {None}
BY AccessConstants DEF Resources

(* What a step of handler h must satisfy for the invariant to hold again:   *)
(* what the other handlers know of their claims survives it.                *)
LEMMA StepOf ==
  ASSUME IInv, NEW h \in Handlers, Typed', Frame(h), executed \subseteq executed',
         \A a \in Actions : Later(claims[a], claims'[a]),
         \A a \in Actions : Bound(claims[a])' /\ Delivered(a)',
         PayloadsUnique', Charged', HandlerInv(h)'
  PROVE  IInv'
<1>1. ASSUME NEW g \in Handlers \ {h} PROVE HandlerInv(g)'
  <2>1. handler'[g] = handler[g] /\ HandlerInv(g)
    BY DEF Frame, IInv
  <2>2. CASE At(g, "idle")
    BY <2>1, <2>2 DEF HandlerInv, At, WithClaim
  <2>3. CASE ~At(g, "idle")
    <3>1. Req(g) \in Requests /\ Req(g)' = Req(g) /\ Req(g).action \in Actions
      BY <2>1, <2>3, RequestFields DEF HandlerInv, Req
    <3>2. Later(Claim(g), Claim(g)')
      BY <3>1 DEF Claim
    <3>3. /\ Holds(g) => Holds(g)' /\ Claim(g)'.payload = Claim(g).payload
          /\ Holds(g) /\ Claim(g).state # "CLAIMED" => Claim(g)'.state # "CLAIMED"
          /\ Holds(g) /\ Claim(g).state \in Settled => Claim(g)'.state \in Settled
      BY <3>1, <3>2 DEF Later, Holds, assertClaimMatches
    <3> QED BY <2>1, <3>1, <3>3 DEF HandlerInv, At, assertBinding, WithClaim
  <2> QED BY <2>2, <2>3
<1> QED BY <1>1 DEF IInv

(* A step that changes the handler only. *)
LEMMA LocalStep ==
  ASSUME IInv, NEW h \in Handlers, handler' \in [Handlers -> Handling], Frame(h),
         UNCHANGED <<state, processed, claims, executed, now>>, HandlerInv(h)'
  PROVE  IInv'
<1>1. Typed' /\ PayloadsUnique' /\ Charged'
  BY DEF IInv, Typed, PayloadsUnique, Charged
<1>2. \A a \in Actions : Bound(claims[a])' /\ Delivered(a)' /\ Later(claims[a], claims'[a])
  BY DEF IInv, Bound, Delivered, Later
<1> QED BY <1>1, <1>2, StepOf

(* An idle handler is well formed. *)
LEMMA IdleHandling == Idle \in Handling /\ Idle.pc = "idle" /\ Idle.settledAt = -1
<1>1. NothingSeen \in Seen
  BY DEF NothingSeen, Seen
<1>2. NoRequest \in Requests \cup {NoRequest}
  OBVIOUS
<1>3. -1 \in Times \cup {-1} /\ "idle" \in Steps
  BY DEF Steps
<1> QED BY <1>1, <1>2, <1>3 DEF Idle, Handling

(* An answer ends the request. *)
LEMMA Replies ==
  ASSUME Typed, NEW h \in Handlers, NEW code, Reply(h, code)
  PROVE  /\ handler' \in [Handlers -> Handling] /\ Frame(h)
         /\ handler'[h].pc = "idle" /\ HandlerInv(h)'
<1>1. handler' \in [Handlers -> Handling] /\ Frame(h) /\ handler'[h].pc = "idle"
  BY IdleHandling DEF Typed, Reply, Frame
<1> QED BY <1>1 DEF HandlerInv, At, WithClaim

(* A request refused, or answered, without a change of the journal. *)
LEMMA ReplyStep ==
  ASSUME IInv, NEW h \in Handlers, NEW code, Reply(h, code),
         UNCHANGED <<state, processed, claims, executed, now>>
  PROVE  IInv'
BY Replies, LocalStep DEF IInv

(* GoTo moves the request on. *)
LEMMA Moves ==
  ASSUME Typed, NEW h \in Handlers, NEW pc \in Steps, GoTo(h, pc)
  PROVE  /\ handler' \in [Handlers -> Handling] /\ Frame(h) /\ handler'[h].pc = pc
         /\ Req(h)' = Req(h) /\ handler'[h].settledAt = handler[h].settledAt
<1>1. /\ handler \in [Handlers -> Handling] /\ handler[h] \in Handling
      /\ handler' = [handler EXCEPT ![h] = handler'[h]]
      /\ handler'[h] = [handler[h] EXCEPT !.pc = pc]
  BY DEF Typed, GoTo
<1>2. handler'[h] \in Handling
  BY <1>1 DEF Handling
<1> QED BY <1>1, <1>2 DEF Frame, Req, Handling

(* So does a step that also notes when the payment was settled. *)
LEMMA MovesSettled ==
  ASSUME Typed, NEW h \in Handlers, NEW pc \in Steps, NEW at \in Times \cup {-1},
         handler' = [handler EXCEPT ![h].pc = pc, ![h].settledAt = at]
  PROVE  /\ handler' \in [Handlers -> Handling] /\ Frame(h) /\ handler'[h].pc = pc
         /\ Req(h)' = Req(h) /\ handler'[h].settledAt = at
<1>1. /\ handler \in [Handlers -> Handling] /\ handler[h] \in Handling
      /\ handler' = [handler EXCEPT ![h] = handler'[h]]
      /\ handler'[h] = [handler[h] EXCEPT !.pc = pc, !.settledAt = at]
  BY DEF Typed
<1>2. handler'[h] \in Handling
  BY <1>1 DEF Handling
<1> QED BY <1>1, <1>2 DEF Frame, Req, Handling

(* transitionIn moves one claim on; the journal stays sound.                *)
LEMMA Transitions ==
  ASSUME IInv, NEW h \in Handlers, Req(h) \in Requests, Holds(h),
         NEW from \in PAYMENT_CLAIM_STATES, NEW to \in PAYMENT_CLAIM_STATES,
         NEW at \in Times \cup {-1}, transition(h, from, to, at),
         UNCHANGED <<processed, executed>>, to # "CLAIMED",
         from \in Settled => to \in Settled,
         Claim(h).state = from /\ to \in Settled => Claim(h).payload \in executed /\ at \in Times
  PROVE  /\ claims' \in [Actions -> PaymentClaim \cup {NoClaim}]
         /\ \A a \in Actions : Later(claims[a], claims'[a])
         /\ \A a \in Actions : Bound(claims[a])' /\ Delivered(a)'
         /\ PayloadsUnique' /\ Charged'
         /\ claims'[Req(h).action].state = to
         /\ claims'[Req(h).action].settledAt \in {at, Claim(h).settledAt}
         /\ claims'[Req(h).action].payload = Claim(h).payload
<1> DEFINE act == Req(h).action
           c == claims[act]
<1>0. /\ act \in Actions /\ c \in PaymentClaim /\ c # NoClaim
      /\ claims \in [Actions -> PaymentClaim \cup {NoClaim}] /\ Claim(h) = c
  BY RequestFields DEF IInv, Typed, Holds, Claim
<1>1. CASE c.state = to /\ UNCHANGED claims
  <2>1. \A a \in Actions : Later(claims[a], claims'[a]) /\ Bound(claims[a])' /\ Delivered(a)'
    BY <1>1 DEF IInv, Bound, Delivered, Later
  <2>2. PayloadsUnique' /\ Charged'
    BY <1>1 DEF IInv, PayloadsUnique, Charged
  <2> QED BY <1>0, <1>1, <2>1, <2>2
<1>2. CASE /\ c.state = from
           /\ claims' = [claims EXCEPT ![act].state = to, ![act].settledAt = at]
  <2>1. claims' = [claims EXCEPT ![act] = claims'[act]]
        /\ claims'[act] = [c EXCEPT !.state = to, !.settledAt = at]
    BY <1>0, <1>2
  <2> HIDE DEF c
  <2>2. /\ claims'[act] \in PaymentClaim /\ claims'[act].state = to
        /\ claims'[act].settledAt = at /\ claims'[act].bid = c.bid
        /\ claims'[act].body = c.body /\ claims'[act].payload = c.payload
    BY <1>0, <2>1 DEF PaymentClaim
  <2>3. claims'[act] # NoClaim
    BY <2>2, NoClaimFields
  <2> USE DEF c
  <2> HIDE DEF act
  <2>4. claims' \in [Actions -> PaymentClaim \cup {NoClaim}]
        /\ \A a \in Actions \ {act} : claims'[a] = claims[a]
    BY <1>0, <2>1, <2>2
  <2>5. \A a \in Actions : claims'[a].payload = claims[a].payload
                           /\ (claims'[a] = NoClaim <=> claims[a] = NoClaim)
    BY <1>0, <2>2, <2>3, <2>4
  <2>6. ASSUME NEW a \in Actions PROVE Later(claims[a], claims'[a])
    <3>1. CASE a = act
      BY <1>0, <1>2, <2>2, <2>3, <3>1 DEF Later
    <3>2. CASE a # act
      BY <2>4, <3>2 DEF Later
    <3> QED BY <3>1, <3>2
  <2>7. ASSUME NEW a \in Actions PROVE Bound(claims[a])' /\ Delivered(a)'
    <3>1. Bound(claims[a]) /\ Delivered(a)
      BY DEF IInv
    <3>2. Bound(claims[a])'
      <4>1. CASE a = act
        BY <1>0, <1>2, <2>2, <3>1, <4>1 DEF Bound
      <4>2. CASE a # act
        BY <2>4, <3>1, <4>2 DEF Bound
      <4> QED BY <4>1, <4>2
    <3>3. Delivered(a)'
      BY <2>6, <3>1 DEF Delivered, Later
    <3> QED BY <3>2, <3>3
  <2>8. PayloadsUnique'
    BY <2>5 DEF IInv, PayloadsUnique
  <2>9. Charged'
    BY <1>0, <2>2, <2>4 DEF IInv, Charged
  <2> QED BY <1>0, <2>2, <2>4, <2>6, <2>7, <2>8, <2>9 DEF act
<1> QED BY <1>0, <1>1, <1>2 DEF transition

(* A step that moves the claim on and the request with it. *)
LEMMA TransitionStep ==
  ASSUME IInv, NEW h \in Handlers, Req(h) \in Requests, Holds(h),
         NEW from \in PAYMENT_CLAIM_STATES, NEW to \in PAYMENT_CLAIM_STATES,
         NEW at \in Times \cup {-1}, transition(h, from, to, at),
         UNCHANGED <<state, processed, executed, now>>, to # "CLAIMED",
         from \in Settled => to \in Settled,
         Claim(h).state = from /\ to \in Settled => Claim(h).payload \in executed /\ at \in Times,
         handler' \in [Handlers -> Handling], Frame(h), HandlerInv(h)'
  PROVE  IInv'
<1>1. /\ claims' \in [Actions -> PaymentClaim \cup {NoClaim}]
      /\ \A a \in Actions : Later(claims[a], claims'[a])
      /\ \A a \in Actions : Bound(claims[a])' /\ Delivered(a)'
      /\ PayloadsUnique' /\ Charged'
  BY Transitions
<1>2. Typed'
  BY <1>1 DEF IInv, Typed
<1> QED BY <1>1, <1>2, StepOf

-----------------------------------------------------------------------------
(* The operations *)

(* A request is taken up: the record is read. *)
LEMMA receive_Step ==
  ASSUME IInv, NEW h \in Handlers, NEW r \in Requests, receive(h, r)
  PROVE  IInv'
<1> DEFINE s == SeenBy(r)
           n == [Idle EXCEPT !.pc = "lookup", !.req = r, !.seen = s]
<1>1. handler' = [handler EXCEPT ![h] = n] /\ handler \in [Handlers -> Handling]
      /\ UNCHANGED <<state, processed, claims, executed, now>>
  BY DEF receive, record, IInv, Typed
<1>2. s \in Seen
  <2>1. processed[r.action].bid \in Resources \cup {None}
    BY RequestFields DEF IInv, Typed, Commits, NotProcessed
  <2>2. state \in LifecycleStates \cup {None} /\ (r.bid \in bidRegistry) \in BOOLEAN
    BY DEF IInv, Typed
  <2> QED BY <2>1, <2>2 DEF Seen, SeenBy
<1> HIDE DEF s
<1>3. n \in Handling /\ n.pc = "lookup" /\ n.req = r
  BY <1>2, IdleHandling DEF Handling, Steps
<1> HIDE DEF n
<1>4. handler' \in [Handlers -> Handling] /\ Frame(h) /\ handler'[h] = n
  BY <1>1, <1>3 DEF Frame
<1>5. HandlerInv(h)'
  BY <1>3, <1>4 DEF HandlerInv, At, WithClaim, Req
<1> QED BY <1>1, <1>4, <1>5, LocalStep

(* The checks before any payment. *)
LEMMA lookup_Step ==
  ASSUME IInv, NEW h \in Handlers, lookup(h)
  PROVE  IInv'
<1> DEFINE r == Req(h)
           verdict == Verdict(r, handler[h].seen, Claim(h))
           pc == IF r.bid = Activation THEN "execute" ELSE "findBody"
<1>1. /\ UNCHANGED <<state, processed, claims, executed, now>> /\ Typed
      /\ Req(h) \in Requests
  BY DEF lookup, record, IInv, HandlerInv, At
<1>2. CASE verdict # "PROCEED"
  <2>1. Reply(h, verdict)
    BY <1>2 DEF lookup
  <2> QED BY <1>1, <2>1, ReplyStep
<1>3. CASE verdict = "PROCEED"
  <2>1. /\ handler' = [handler EXCEPT ![h] = handler'[h]]
        /\ handler'[h] = [handler[h] EXCEPT !.pc = pc, !.claimed = (Claim(h) # NoClaim),
                                            !.seen = NothingSeen]
        /\ handler \in [Handlers -> Handling] /\ handler[h] \in Handling
    BY <1>1, <1>3 DEF lookup, Typed
  <2>2. pc \in {"execute", "findBody"} /\ (Claim(h) # NoClaim) \in BOOLEAN
        /\ NothingSeen \in Seen /\ pc \in Steps
    BY DEF NothingSeen, Seen, Steps
  <2> HIDE DEF pc
  <2>3. handler'[h] \in Handling /\ handler'[h].pc = pc /\ handler'[h].req = Req(h)
    BY <2>1, <2>2 DEF Handling, Req
  <2>4. handler' \in [Handlers -> Handling] /\ Frame(h)
    BY <2>1, <2>3 DEF Frame
  <2>5. HandlerInv(h)'
    BY <1>1, <2>2, <2>3 DEF HandlerInv, At, WithClaim, Req
  <2> QED BY <1>1, <2>4, <2>5, LocalStep
<1> QED BY <1>2, <1>3

(* The bid body is stored before it is paid for. *)
LEMMA body_Step ==
  ASSUME IInv, NEW h \in Handlers, findBody(h) \/ putBody(h)
  PROVE  IInv'
<1>1. /\ UNCHANGED <<state, processed, claims, executed, now>> /\ Typed
      /\ Req(h) \in Requests
  BY DEF findBody, putBody, record, IInv, HandlerInv, At
<1>2. CASE Reply(h, "PERSISTENCE_CONFLICT")
  BY <1>1, <1>2, ReplyStep
<1>3. ASSUME NEW pc \in {"putBody", "execute"}, GoTo(h, pc)
      PROVE  IInv'
  <2>1. /\ handler' \in [Handlers -> Handling] /\ Frame(h) /\ handler'[h].pc = pc
        /\ Req(h)' = Req(h)
    BY <1>1, <1>3, Moves DEF Steps
  <2>2. HandlerInv(h)'
    BY <1>1, <2>1 DEF HandlerInv, At, WithClaim
  <2> QED BY <1>1, <2>1, <2>2, LocalStep
<1> QED BY <1>2, <1>3 DEF findBody, putBody

(* A claim in hand is taken up where its state says, or the request is      *)
(* refused: it must match the claim, and an unsettled claim its payment.    *)
LEMMA Dispatches ==
  ASSUME IInv, NEW h \in Handlers, Req(h) \in Requests, NEW c \in PaymentClaim,
         Dispatch(h, c), Bound(c)
  PROVE  /\ handler' \in [Handlers -> Handling] /\ Frame(h)
         /\ \/ handler'[h].pc = "idle"
            \/ /\ assertClaimMatches(Req(h), c) /\ Req(h)' = Req(h)
               /\ handler'[h].settledAt = c.settledAt
               /\ \/ /\ c.state = "CLAIMED" /\ handler'[h].pc = "startSettling"
                     /\ c.payload = Req(h).payload
                  \/ c.state = "SETTLING" /\ handler'[h].pc = "reconcile"
                  \/ c.state = "SETTLED_PENDING_COMMIT" /\ handler'[h].pc = "commit"
                  \/ c.state = "COMMITTED" /\ handler'[h].pc = "rebuild"
<1>0. Typed /\ c.settledAt \in Times \cup {-1} /\ c.state \in PAYMENT_CLAIM_STATES
  BY DEF IInv, PaymentClaim
<1>1. ASSUME NEW code, Reply(h, code)
      PROVE  handler' \in [Handlers -> Handling] /\ Frame(h) /\ handler'[h].pc = "idle"
  BY <1>0, <1>1, Replies
<1>2. CASE \/ Reply(h, "ACTION_ID_CONFLICT") \/ Reply(h, "PAYMENT_SETTLEMENT_FAILED")
           \/ Reply(h, "PAYMENT_RECOVERY_FAILED") \/ Reply(h, "PAYMENT_RESOURCE_MISMATCH")
           \/ Reply(h, "PAYMENT_CLAIM_CONFLICT")
  BY <1>1, <1>2
<1>3. CASE /\ assertClaimMatches(Req(h), c) /\ c.state # "FAILED"
           /\ c.state = "CLAIMED" => c.payload = Req(h).payload
           /\ handler' = [handler EXCEPT ![h].pc = RecoveryStep(c.state),
                                         ![h].settledAt = c.settledAt]
  <2>1. /\ RecoveryStep("CLAIMED") = "startSettling" /\ RecoveryStep("SETTLING") = "reconcile"
        /\ RecoveryStep("SETTLED_PENDING_COMMIT") = "commit"
        /\ RecoveryStep("COMMITTED") = "rebuild"
    BY DEF RecoveryStep
  <2>2. c.state \in {"CLAIMED", "SETTLING", "SETTLED_PENDING_COMMIT", "COMMITTED"}
    BY <1>0, <1>3 DEF PAYMENT_CLAIM_STATES
  <2>3. RecoveryStep(c.state) \in Steps
    BY <2>1, <2>2 DEF Steps
  <2>4. /\ handler' \in [Handlers -> Handling] /\ Frame(h)
        /\ handler'[h].pc = RecoveryStep(c.state) /\ Req(h)' = Req(h)
        /\ handler'[h].settledAt = c.settledAt
    BY ZenonT(60), <1>0, <1>3, <2>3, MovesSettled
  <2> QED BY <1>3, <2>1, <2>2, <2>4
<1> QED BY <1>2, <1>3 DEF Dispatch

(* What a handler takes up it knows enough of. *)
LEMMA DispatchedInv ==
  ASSUME IInv, NEW h \in Handlers, Req(h) \in Requests, NEW c \in PaymentClaim,
         Dispatch(h, c), Bound(c), claims'[Req(h).action] = c
  PROVE  HandlerInv(h)'
<1>1. c # NoClaim /\ (c.state \in Settled => c.settledAt \in Times)
  BY NoClaimFields DEF Bound
<1>2. CASE handler'[h].pc = "idle"
  BY <1>2 DEF HandlerInv, At, WithClaim
<1>3. CASE handler'[h].pc # "idle"
  <2>1. /\ assertClaimMatches(Req(h), c) /\ Req(h)' = Req(h) /\ Claim(h)' = c
        /\ handler'[h].settledAt = c.settledAt
        /\ \/ /\ c.state = "CLAIMED" /\ handler'[h].pc = "startSettling"
              /\ c.payload = Req(h).payload
           \/ c.state = "SETTLING" /\ handler'[h].pc = "reconcile"
           \/ c.state = "SETTLED_PENDING_COMMIT" /\ handler'[h].pc = "commit"
           \/ c.state = "COMMITTED" /\ handler'[h].pc = "rebuild"
    BY <1>3, Dispatches DEF Claim
  <2>2. Holds(h)'
    BY <1>1, <2>1 DEF Holds, assertClaimMatches
  <2> QED BY <1>1, <2>1, <2>2 DEF HandlerInv, At, Settled
<1> QED BY <1>2, <1>3

(* The claim of the action, if there is one by now. *)
LEMMA execute_Step ==
  ASSUME IInv, NEW h \in Handlers, execute(h)
  PROVE  IInv'
<1>1. /\ UNCHANGED <<state, processed, claims, executed, now>> /\ Typed
      /\ Req(h) \in Requests /\ Req(h).action \in Actions
  BY RequestFields DEF execute, record, IInv, HandlerInv, At
<1>2. CASE Claim(h) # NoClaim /\ Dispatch(h, Claim(h))
  <2>1. Claim(h) \in PaymentClaim /\ Bound(Claim(h)) /\ claims'[Req(h).action] = Claim(h)
    BY <1>1, <1>2 DEF Typed, IInv, Claim
  <2> QED BY <1>1, <1>2, <2>1, Dispatches, DispatchedInv, LocalStep
<1>3. CASE Reply(h, "PAYMENT_REQUIRED") \/ Reply(h, "PAYMENT_RESOURCE_MISMATCH")
  BY <1>1, <1>3, ReplyStep
<1>4. CASE assertBinding(Req(h)) /\ GoTo(h, "acquire")
  <2>1. /\ handler' \in [Handlers -> Handling] /\ Frame(h) /\ handler'[h].pc = "acquire"
        /\ Req(h)' = Req(h)
    BY <1>1, <1>4, Moves DEF Steps
  <2>2. HandlerInv(h)'
    BY <1>1, <1>4, <2>1 DEF HandlerInv, At, WithClaim, assertBinding
  <2> QED BY <1>1, <2>1, <2>2, LocalStep
<1> QED BY <1>2, <1>3, <1>4 DEF execute

(* A claim is created for a payment no other claim has. *)
LEMMA acquire_Step ==
  ASSUME IInv, NEW h \in Handlers, acquire(h)
  PROVE  IInv'
<1> DEFINE r == Req(h)
           c == [bid |-> r.bid, body |-> r.body, payload |-> r.payload,
                 state |-> "CLAIMED", settledAt |-> -1]
<1>1. /\ UNCHANGED <<state, processed, executed, now>> /\ Typed
      /\ r \in Requests /\ r.action \in Actions /\ assertBinding(r)
  BY RequestFields DEF acquire, record, IInv, HandlerInv, At
<1>2. CASE /\ Claim(h) # NoClaim /\ Dispatch(h, Claim(h)) /\ UNCHANGED claims
  <2>1. Claim(h) \in PaymentClaim /\ Bound(Claim(h)) /\ claims'[Req(h).action] = Claim(h)
    BY <1>1, <1>2 DEF Typed, IInv, Claim
  <2> QED BY <1>1, <1>2, <2>1, Dispatches, DispatchedInv, LocalStep
<1>3. CASE UNCHANGED claims /\ (Reply(h, "PAYMENT_CLAIM_CONFLICT") \/ Reply(h, "PAYMENT_REPLAY"))
  BY <1>1, <1>3, ReplyStep
<1>4. CASE /\ Claim(h) = NoClaim /\ PayloadUnclaimed(r)
           /\ claims' = [claims EXCEPT ![r.action] = c] /\ Dispatch(h, c)
  <2>1. /\ c \in PaymentClaim /\ c.payload = r.payload /\ c.state = "CLAIMED"
        /\ c.bid = r.bid
    BY <1>1, RequestFields DEF PaymentClaim, PAYMENT_CLAIM_STATES, assertBinding
  <2> HIDE DEF c
  <2>2. Bound(c) /\ PaysFor[c.payload] = c.bid /\ c.state \notin Settled
    BY <1>1, <2>1 DEF Bound, assertBinding, Settled
  <2>3. /\ claims' \in [Actions -> PaymentClaim \cup {NoClaim}] /\ claims'[r.action] = c
        /\ \A a \in Actions \ {r.action} : claims'[a] = claims[a]
        /\ claims[r.action] = NoClaim
    BY <1>1, <1>4, <2>1 DEF Typed, Claim
  <2>4. \A a \in Actions : Later(claims[a], claims'[a])
    BY <1>1, <2>3 DEF Later
  <2>5. ASSUME NEW a \in Actions PROVE Bound(claims[a])' /\ Delivered(a)'
    <3>1. Bound(claims[a]) /\ Delivered(a) /\ Delivered(r.action)
      BY <1>1 DEF IInv
    <3>2. CASE a = r.action
      BY <1>1, <2>2, <2>3, <3>1, <3>2 DEF Bound, Delivered
    <3>3. CASE a # r.action
      BY <1>1, <2>3, <3>1, <3>3 DEF Bound, Delivered
    <3> QED BY <3>2, <3>3
  <2>6. PayloadsUnique'
    <3>1. \A a \in Actions : claims[a].payload # c.payload
      BY <1>4, <2>1 DEF PayloadUnclaimed
    <3> QED BY <1>1, <2>3, <3>1 DEF IInv, PayloadsUnique
  <2>7. Charged'
    <3> SUFFICES ASSUME NEW p \in executed
                 PROVE  \E a \in Actions : claims'[a].payload = p /\ claims'[a].state # "CLAIMED"
      BY <1>1 DEF Charged
    <3>1. PICK a \in Actions : claims[a].payload = p /\ claims[a].state # "CLAIMED"
      BY DEF IInv, Charged
    <3>2. a # r.action
      BY <1>1, <2>3, <3>1, NoClaimFields DEF Typed
    <3> QED BY <2>3, <3>1, <3>2
  <2>8. Typed' /\ Frame(h)
    BY <1>1, <1>4, <2>1, <2>2, <2>3, Dispatches DEF Typed
  <2>9. HandlerInv(h)'
    BY <1>1, <1>4, <2>1, <2>2, <2>3, DispatchedInv
  <2> QED BY <1>1, <2>4, <2>5, <2>6, <2>7, <2>8, <2>9, StepOf
<1> QED BY <1>2, <1>3, <1>4 DEF acquire

(* The claim is SETTLING before the facilitator is asked. *)
LEMMA startSettling_Step ==
  ASSUME IInv, NEW h \in Handlers, startSettling(h)
  PROVE  IInv'
<1>1. /\ UNCHANGED <<state, processed, executed, now>> /\ Typed
      /\ Req(h) \in Requests /\ Req(h).action \in Actions /\ Holds(h)
      /\ Claim(h).payload = Req(h).payload
  BY RequestFields DEF startSettling, record, IInv, HandlerInv, At, WithClaim
<1>2. CASE transition(h, "CLAIMED", "SETTLING", -1) /\ GoTo(h, "settle")
  <2>1. /\ handler' \in [Handlers -> Handling] /\ Frame(h) /\ handler'[h].pc = "settle"
        /\ Req(h)' = Req(h)
    BY <1>1, <1>2, Moves DEF Steps
  <2>2. {"CLAIMED", "SETTLING"} \subseteq PAYMENT_CLAIM_STATES
        /\ "CLAIMED" \notin Settled /\ "SETTLING" \notin Settled
    BY DEF PAYMENT_CLAIM_STATES, Settled
  <2>3. /\ Later(Claim(h), claims'[Req(h).action])
        /\ claims'[Req(h).action].state = "SETTLING"
        /\ claims'[Req(h).action].payload = Claim(h).payload
    BY <1>1, <1>2, <2>2, Transitions DEF Claim
  <2>4. HandlerInv(h)'
    BY <1>1, <2>1, <2>3 DEF HandlerInv, At, Holds, Claim, Later, assertClaimMatches
  <2> QED BY <1>1, <1>2, <2>1, <2>2, <2>4, TransitionStep
<1>3. CASE Reply(h, "PAYMENT_RECOVERY_FAILED") /\ UNCHANGED claims
  BY <1>1, <1>3, ReplyStep
<1> QED BY <1>2, <1>3 DEF startSettling, TransitionRefused

(* Whatever the facilitator does, the payment it was asked for has a claim  *)
(* past CLAIMED.                                                            *)
LEMMA Settle_Step ==
  ASSUME IInv, NEW h \in Handlers, Settle(h)
  PROVE  IInv'
<1>1. /\ UNCHANGED <<state, processed, claims, now>> /\ Typed /\ now \in Times
      /\ Req(h) \in Requests /\ Req(h).action \in Actions /\ Holds(h)
      /\ Claim(h).payload = Req(h).payload /\ Claim(h).state # "CLAIMED"
      /\ executed' \in {executed, executed \cup {Req(h).payload}}
  BY RequestFields DEF Settle, settleSucceeds, settleRefused, settleLost, record, IInv, Typed,
     HandlerInv, At, WithClaim
<1>2. Req(h).payload \in Payloads
  BY <1>1 DEF Typed, Holds, Claim, PaymentClaim
<1>3. /\ executed \subseteq executed' /\ executed' \subseteq Payloads /\ PayloadsUnique'
      /\ \A a \in Actions : Bound(claims[a])' /\ Delivered(a)' /\ Later(claims[a], claims'[a])
  BY <1>1, <1>2 DEF IInv, Typed, PayloadsUnique, Bound, Delivered, Later
<1>4. Charged'
  BY <1>1 DEF IInv, Charged, Claim
<1>5. handler' \in [Handlers -> Handling] /\ Frame(h) /\ HandlerInv(h)'
  <2>1. CASE GoTo(h, "recordFailed")
    <3>1. /\ handler' \in [Handlers -> Handling] /\ Frame(h)
          /\ handler'[h].pc = "recordFailed" /\ Req(h)' = Req(h)
      BY <1>1, <2>1, Moves DEF Steps
    <3>2. HandlerInv(h)'
      BY <1>1, <3>1 DEF HandlerInv, At, Holds, Claim, assertClaimMatches
    <3> QED BY <3>1, <3>2
  <2>2. CASE Reply(h, "PAYMENT_SETTLEMENT_UNKNOWN")
    BY <1>1, <2>2, Replies
  <2>3. CASE /\ handler' = [handler EXCEPT ![h].pc = "recordSettled", ![h].settledAt = now]
             /\ executed' = executed \cup {Req(h).payload}
    <3>1. /\ handler' \in [Handlers -> Handling] /\ Frame(h) /\ Req(h)' = Req(h)
          /\ handler'[h].pc = "recordSettled" /\ handler'[h].settledAt = now
      BY <1>1, <2>3, MovesSettled DEF Steps
    <3>2. HandlerInv(h)'
      BY <1>1, <2>3, <3>1 DEF HandlerInv, At, Holds, Claim, assertClaimMatches
    <3> QED BY <3>1, <3>2
  <2> QED BY <2>1, <2>2, <2>3 DEF Settle, settleSucceeds, settleRefused, settleLost
<1>6. Typed'
  BY <1>1, <1>3, <1>5 DEF Typed
<1> QED BY <1>3, <1>4, <1>5, <1>6, StepOf

(* A settlement is recorded for a payment the network executed. *)
LEMMA recordSettled_Step ==
  ASSUME IInv, NEW h \in Handlers, recordSettled(h)
  PROVE  IInv'
<1>1. /\ UNCHANGED <<state, processed, executed, now>> /\ Typed
      /\ Req(h) \in Requests /\ Req(h).action \in Actions /\ Holds(h)
      /\ Claim(h).payload \in executed /\ handler[h].settledAt \in Times
  BY RequestFields DEF recordSettled, record, IInv, HandlerInv, At, WithClaim
<1>2. CASE /\ transition(h, "SETTLING", "SETTLED_PENDING_COMMIT", handler[h].settledAt)
           /\ handler' = [handler EXCEPT ![h].pc = "commit",
                                         ![h].settledAt = claims'[Req(h).action].settledAt]
  <2>1. {"SETTLING", "SETTLED_PENDING_COMMIT"} \subseteq PAYMENT_CLAIM_STATES
        /\ "SETTLING" \notin Settled /\ "SETTLED_PENDING_COMMIT" \in Settled
    BY DEF PAYMENT_CLAIM_STATES, Settled
  <2>2. /\ Later(Claim(h), claims'[Req(h).action])
        /\ claims'[Req(h).action].state = "SETTLED_PENDING_COMMIT"
    BY <1>1, <1>2, <2>1, Transitions DEF Claim
  <2>3. Bound(claims'[Req(h).action])
    <3>1. \A a \in Actions : Bound(claims[a])'
      BY <1>1, <1>2, <2>1, Transitions
    <3> QED BY <1>1, <3>1 DEF Bound
  <2>4. claims'[Req(h).action].settledAt \in Times
    BY <1>1, <2>1, <2>2, <2>3 DEF Bound, Holds, Later
  <2>5. /\ handler' \in [Handlers -> Handling] /\ Frame(h) /\ Req(h)' = Req(h)
        /\ handler'[h].pc = "commit"
        /\ handler'[h].settledAt = claims'[Req(h).action].settledAt
    <3> DEFINE at == claims'[Req(h).action].settledAt
    <3>1. handler' = [handler EXCEPT ![h].pc = "commit", ![h].settledAt = at]
      BY <1>2
    <3>2. at \in Times \cup {-1} /\ "commit" \in Steps
      BY <2>4 DEF Steps
    <3> HIDE DEF at
    <3>3. /\ handler' \in [Handlers -> Handling] /\ Frame(h) /\ Req(h)' = Req(h)
          /\ handler'[h].pc = "commit" /\ handler'[h].settledAt = at
      BY <1>1, <3>1, <3>2, MovesSettled
    <3> QED BY <3>3 DEF at
  <2>6. HandlerInv(h)'
    BY <1>1, <2>1, <2>2, <2>4, <2>5 DEF HandlerInv, At, Holds, Claim, Later, assertClaimMatches
  <2> QED BY <1>1, <1>2, <2>1, <2>5, <2>6, TransitionStep
<1>3. CASE Reply(h, "PAYMENT_RECOVERY_FAILED") /\ UNCHANGED claims
  BY <1>1, <1>3, ReplyStep
<1> QED BY <1>2, <1>3 DEF recordSettled, TransitionRefused

(* A refused settlement fails the claim. *)
LEMMA recordFailed_Step ==
  ASSUME IInv, NEW h \in Handlers, recordFailed(h)
  PROVE  IInv'
<1>1. /\ UNCHANGED <<state, processed, executed, now>> /\ Typed
      /\ Req(h) \in Requests /\ Req(h).action \in Actions /\ Holds(h)
  BY RequestFields DEF recordFailed, record, IInv, HandlerInv, At, WithClaim
<1>3. CASE transition(h, "SETTLING", "FAILED", -1) /\ Reply(h, "PAYMENT_SETTLEMENT_FAILED")
  <2>1. {"SETTLING", "FAILED"} \subseteq PAYMENT_CLAIM_STATES
        /\ "SETTLING" \notin Settled /\ "FAILED" \notin Settled
    BY DEF PAYMENT_CLAIM_STATES, Settled
  <2>2. handler' \in [Handlers -> Handling] /\ Frame(h) /\ HandlerInv(h)'
    BY <1>1, <1>3, Replies
  <2> QED BY <1>1, <1>3, <2>1, <2>2, TransitionStep
<1>4. CASE Reply(h, "PAYMENT_RECOVERY_FAILED") /\ UNCHANGED claims
  BY <1>1, <1>4, ReplyStep
<1> QED BY <1>3, <1>4 DEF recordFailed, TransitionRefused

(* A claim found SETTLING is reconciled with the network, not settled again. *)
LEMMA Reconcile_Step ==
  ASSUME IInv, NEW h \in Handlers, Reconcile(h)
  PROVE  IInv'
<1>1. /\ UNCHANGED <<state, processed, claims, executed, now>> /\ Typed /\ now \in Times
      /\ Req(h) \in Requests /\ Req(h).action \in Actions /\ Holds(h)
  BY RequestFields DEF Reconcile, reconcileUnknown, reconcileConfirmed, reconcileFailed, record, IInv,
     Typed, HandlerInv, At, WithClaim
<1>2. CASE Reply(h, "PAYMENT_SETTLEMENT_UNKNOWN")
  BY <1>1, <1>2, ReplyStep
<1>3. CASE GoTo(h, "recordFailed")
  <2>1. /\ handler' \in [Handlers -> Handling] /\ Frame(h)
        /\ handler'[h].pc = "recordFailed" /\ Req(h)' = Req(h)
    BY <1>1, <1>3, Moves DEF Steps
  <2>2. HandlerInv(h)'
    BY <1>1, <2>1 DEF HandlerInv, At, Holds, Claim, assertClaimMatches
  <2> QED BY <1>1, <2>1, <2>2, LocalStep
<1>4. CASE /\ Claim(h).payload \in executed
           /\ handler' = [handler EXCEPT ![h].pc = "recordSettled", ![h].settledAt = now]
  <2>1. /\ handler' \in [Handlers -> Handling] /\ Frame(h) /\ Req(h)' = Req(h)
        /\ handler'[h].pc = "recordSettled" /\ handler'[h].settledAt = now
    BY <1>1, <1>4, MovesSettled DEF Steps
  <2>2. Claim(h).state # "CLAIMED"
    <3>1. PICK a \in Actions :
            claims[a].payload = Claim(h).payload /\ claims[a].state # "CLAIMED"
      BY <1>4 DEF IInv, Charged
    <3>2. a = Req(h).action
      BY <1>1, <3>1 DEF IInv, PayloadsUnique, Claim, Holds
    <3> QED BY <3>1, <3>2 DEF Claim
  <2>3. HandlerInv(h)'
    BY <1>1, <1>4, <2>1, <2>2 DEF HandlerInv, At, Holds, Claim, assertClaimMatches
  <2> QED BY <1>1, <2>1, <2>3, LocalStep
<1> QED BY <1>2, <1>3, <1>4 DEF Reconcile, reconcileUnknown, reconcileConfirmed, reconcileFailed

(* What is committed is what the settled claim is bound to. *)
LEMMA commit_Step ==
  ASSUME IInv, NEW h \in Handlers, commit(h)
  PROVE  IInv'
<1> DEFINE act == Req(h).action
<1>1. /\ UNCHANGED <<claims, executed, now>> /\ Typed /\ GoTo(h, "finalize")
      /\ Req(h) \in Requests /\ act \in Actions /\ Holds(h)
      /\ Claim(h).state \in Settled /\ handler[h].settledAt \in Times
  BY RequestFields DEF commit, record, IInv, HandlerInv, At, WithClaim
<1>2. /\ handler' \in [Handlers -> Handling] /\ Frame(h) /\ handler'[h].pc = "finalize"
      /\ Req(h)' = Req(h) /\ handler'[h].settledAt = handler[h].settledAt
  BY <1>1, Moves DEF Steps
<1>3. HandlerInv(h)'
  BY <1>1, <1>2 DEF HandlerInv, At, Holds, Claim, assertClaimMatches
<1>4. CASE UNCHANGED <<state, processed>>
  BY <1>1, <1>2, <1>3, <1>4, LocalStep
<1>5. CASE /\ processed' = [processed EXCEPT ![act] = Event(h)]
           /\ state' \in {"TENDER_OPENED", "BIDDING"}
  <2>1. Claim(h).payload \in Payloads /\ Claim(h).bid = Req(h).bid
    BY <1>1 DEF Typed, Holds, Claim, PaymentClaim, assertClaimMatches
  <2>2. /\ Event(h) \in Commits /\ Event(h).payload = Claim(h).payload
        /\ Event(h).bid = Claim(h).bid
    BY <1>1, <2>1, RequestFields DEF Event, Commits
  <2>3. /\ processed' \in [Actions -> Commits \cup {NotProcessed}]
        /\ processed'[act] = Event(h)
        /\ \A a \in Actions \ {act} : processed'[a] = processed[a]
    BY <1>1, <1>5, <2>2 DEF Typed
  <2>4. Typed' /\ PayloadsUnique' /\ Charged'
    BY <1>1, <1>2, <1>5, <2>3 DEF IInv, Typed, PayloadsUnique, Charged, LifecycleStates
  <2>5. ASSUME NEW a \in Actions
        PROVE  Bound(claims[a])' /\ Delivered(a)' /\ Later(claims[a], claims'[a])
    <3>1. Bound(claims[a]) /\ Delivered(a)
      BY DEF IInv
    <3>2. Bound(claims[a])' /\ Later(claims[a], claims'[a])
      BY <1>1, <3>1 DEF Bound, Later
    <3>3. CASE a = act
      BY <1>1, <2>2, <2>3, <3>2, <3>3 DEF Delivered, Claim, Holds
    <3>4. CASE a # act
      BY <1>1, <2>3, <3>1, <3>2, <3>4 DEF Delivered
    <3> QED BY <3>3, <3>4
  <2> QED BY <1>1, <1>2, <1>3, <2>4, <2>5, StepOf
<1> QED BY <1>4, <1>5 DEF commit, record

(* The claim is closed after its commit. *)
LEMMA finalize_Step ==
  ASSUME IInv, NEW h \in Handlers, finalize(h)
  PROVE  IInv'
<1>1. /\ UNCHANGED <<state, processed, executed, now>> /\ Typed
      /\ Req(h) \in Requests /\ Req(h).action \in Actions /\ Holds(h)
      /\ Claim(h).state \in Settled
  BY RequestFields DEF finalize, record, IInv, HandlerInv, At, WithClaim
<1>3. PICK code : Reply(h, code)
  BY DEF finalize
<1>4. handler' \in [Handlers -> Handling] /\ Frame(h) /\ HandlerInv(h)'
  BY <1>1, <1>3, Replies
<1>5. CASE transition(h, "SETTLED_PENDING_COMMIT", "COMMITTED", Claim(h).settledAt)
  <2>1. {"SETTLED_PENDING_COMMIT", "COMMITTED"} \subseteq PAYMENT_CLAIM_STATES
        /\ "SETTLED_PENDING_COMMIT" \in Settled /\ "COMMITTED" \in Settled
    BY DEF PAYMENT_CLAIM_STATES, Settled
  <2>2. Claim(h).payload \in executed /\ Claim(h).settledAt \in Times
    BY <1>1 DEF IInv, Bound, Holds, Claim
  <2> QED BY <1>1, <1>4, <1>5, <2>1, <2>2, TransitionStep
<1>6. CASE UNCHANGED claims
  BY <1>1, <1>4, <1>6, LocalStep
<1> QED BY <1>5, <1>6 DEF finalize, TransitionRefused

(* The rest answers the request, drops it, or does not touch it. *)
LEMMA other_Step ==
  ASSUME IInv,
         \/ \E h \in Handlers : verifyFails(h) \/ commitFails(h) \/ rebuild(h) \/ crash(h)
         \/ ESCROW_FUNDING_CONFIRMED \/ AUCTION_CLOSE_CONFIRMED \/ tick
  PROVE  IInv'
<1>1. ASSUME NEW h \in Handlers, verifyFails(h) \/ commitFails(h) \/ rebuild(h)
      PROVE  IInv'
  <2>2. PICK code : Reply(h, code)
    BY <1>1 DEF verifyFails, commitFails, rebuild
  <2>3. UNCHANGED <<state, processed, claims, executed, now>>
    BY <1>1 DEF verifyFails, commitFails, rebuild, record
  <2> QED BY <2>2, <2>3, ReplyStep
<1>2. ASSUME NEW h \in Handlers, crash(h)
      PROVE  IInv'
  <2>1. /\ handler' = [handler EXCEPT ![h] = Idle] /\ handler \in [Handlers -> Handling]
        /\ UNCHANGED <<state, processed, claims, executed, now>>
    BY <1>2 DEF crash, record, IInv, Typed
  <2>2. handler' \in [Handlers -> Handling] /\ Frame(h) /\ handler'[h].pc = "idle"
    BY <2>1, IdleHandling DEF Frame
  <2>3. HandlerInv(h)'
    BY <2>2 DEF HandlerInv, At, WithClaim
  <2> QED BY <2>1, <2>2, <2>3, LocalStep
<1>3. CASE ESCROW_FUNDING_CONFIRMED \/ AUCTION_CLOSE_CONFIRMED \/ tick
  <2>1. UNCHANGED <<processed, claims, executed, handler>>
    BY <1>3 DEF ESCROW_FUNDING_CONFIRMED, AUCTION_CLOSE_CONFIRMED, tick, record
  <2>2. state' \in LifecycleStates
    BY <1>3 DEF ESCROW_FUNDING_CONFIRMED, AUCTION_CLOSE_CONFIRMED, tick, record, IInv, Typed,
       LifecycleStates
  <2>3. now' \in Times
    BY <1>3, AccessConstants DEF ESCROW_FUNDING_CONFIRMED, AUCTION_CLOSE_CONFIRMED, tick, record, IInv,
       Typed, Times
  <2>4. Typed' /\ PayloadsUnique' /\ Charged'
    BY <2>1, <2>2, <2>3 DEF IInv, Typed, PayloadsUnique, Charged
  <2>5. \A a \in Actions : Bound(claims[a])' /\ Delivered(a)'
    BY <2>1 DEF IInv, Bound, Delivered
  <2>6. \A h \in Handlers : HandlerInv(h)'
    BY <2>1 DEF IInv, HandlerInv, At, Req, Holds, Claim, assertBinding, assertClaimMatches
  <2> QED BY <2>4, <2>5, <2>6 DEF IInv
<1> QED BY <1>1, <1>2, <1>3

-----------------------------------------------------------------------------
(* The theorems *)

(* The invariant holds at the start. *)
LEMMA InitInvariant == Init => IInv
<1> SUFFICES ASSUME Init PROVE IInv
  OBVIOUS
<1>1. Typed
  BY IdleHandling, AccessConstants DEF Init, Typed, LifecycleStates, Times
<1>2. \A a \in Actions : Bound(claims[a]) /\ Delivered(a)
  BY DEF Init, Bound, Delivered
<1>3. PayloadsUnique /\ Charged
  BY DEF Init, PayloadsUnique, Charged
<1>4. \A h \in Handlers : HandlerInv(h)
  BY IdleHandling DEF Init, HandlerInv, At, WithClaim
<1> QED BY <1>1, <1>2, <1>3, <1>4 DEF IInv

(* Every step keeps it. *)
LEMMA StepInvariant ==
  ASSUME IInv, sent \in Clients, [Next]_vars
  PROVE  IInv'
<1>1. CASE UNCHANGED vars
  <2>1. Typed' /\ PayloadsUnique' /\ Charged'
    BY <1>1 DEF vars, record, IInv, Typed, PayloadsUnique, Charged
  <2>2. \A a \in Actions : Bound(claims[a])' /\ Delivered(a)'
    BY <1>1 DEF vars, record, IInv, Bound, Delivered
  <2>3. \A h \in Handlers : HandlerInv(h)'
    BY <1>1 DEF vars, record, IInv, HandlerInv, At, Req, Holds, Claim, assertBinding, assertClaimMatches
  <2> QED BY <2>1, <2>2, <2>3 DEF IInv
<1>2. ASSUME NEW h \in Handlers, Proceed(h)
      PROVE  IInv'
  BY <1>2, lookup_Step, body_Step, execute_Step, acquire_Step, startSettling_Step, Settle_Step,
     recordSettled_Step, recordFailed_Step, Reconcile_Step, commit_Step, finalize_Step,
     other_Step DEF Proceed
<1>3. ASSUME NEW h \in Handlers, NEW r \in sent, receive(h, r)
      PROVE  IInv'
  <2>1. r \in Requests
    BY DEF Requests
  <2> QED BY <1>3, <2>1, receive_Step
<1> QED BY <1>1, <1>2, <1>3, other_Step DEF Next

(* What clients send does not change. *)
LEMMA SentFixed ==
  ASSUME [Next]_vars
  PROVE  UNCHANGED sent
BY DEF Next, vars, receive, Proceed, lookup, findBody, putBody, execute, verifyFails, acquire,
   startSettling, Settle, settleSucceeds, settleRefused, settleLost, recordSettled, recordFailed,
   Reconcile, reconcileUnknown, reconcileConfirmed, reconcileFailed, commit, commitFails,
   finalize, rebuild, crash, ESCROW_FUNDING_CONFIRMED, AUCTION_CLOSE_CONFIRMED, tick

(* Whatever requests race, retry and die, a handler's reading of its claim  *)
(* is enough for what executePaymentClaim does next.                        *)
THEOREM InvariantAlways == Spec => [](IInv /\ sent \in Clients)
<1>1. Init => IInv /\ sent \in Clients
  BY InitInvariant DEF Init
<1>2. IInv /\ sent \in Clients /\ [Next]_vars => (IInv /\ sent \in Clients)'
  BY StepInvariant, SentFixed
<1> QED BY <1>1, <1>2, PTL DEF Spec

(* Every action the routes commit to the record was paid for by a transfer  *)
(* of its own, executed, and made for that resource.                        *)
THEOREM CommittedAlwaysPaid == Spec => []CommittedIsPaid
<1>1. ASSUME IInv PROVE CommittedIsPaid
  <2> SUFFICES ASSUME NEW a \in Actions, processed[a] # NotProcessed
               PROVE  /\ processed[a].payload \in executed
                      /\ PaysFor[processed[a].payload] = processed[a].bid
                      /\ \A b \in Actions \ {a} : processed[b].payload # processed[a].payload
    BY DEF CommittedIsPaid
  <2>1. /\ claims[a] # NoClaim /\ claims[a].state \in Settled /\ Bound(claims[a])
        /\ processed[a].payload = claims[a].payload /\ processed[a].bid = claims[a].bid
    BY <1>1 DEF IInv, Delivered
  <2>2. processed[a].payload \in executed /\ executed \subseteq Payloads
    BY <1>1, <2>1 DEF Bound, IInv, Typed
  <2>3. ASSUME NEW b \in Actions \ {a}, processed[b].payload = processed[a].payload
        PROVE  FALSE
    <3>1. processed[b] # NotProcessed
      BY <2>2, <2>3, NoClaimFields DEF NotProcessed
    <3>2. claims[b].payload = claims[a].payload
      BY <1>1, <2>1, <2>3, <3>1 DEF IInv, Delivered
    <3> QED BY <1>1, <2>1, <3>2 DEF IInv, PayloadsUnique
  <2> QED BY <2>1, <2>2, <2>3 DEF Bound
<1> QED BY <1>1, InvariantAlways, PTL

(* Whoever is charged has one claim in the journal, past CLAIMED, however   *)
(* the handler that settled it ended.                                       *)
THEOREM ChargedAlwaysClaimed == Spec => []ChargedIsClaimed
<1>1. ASSUME IInv PROVE ChargedIsClaimed
  <2> SUFFICES ASSUME NEW p \in executed
               PROVE  \E a \in Actions :
                        /\ claims[a].payload = p /\ claims[a].state # "CLAIMED"
                        /\ \A b \in Actions \ {a} : claims[b].payload # p
    BY DEF ChargedIsClaimed
  <2>1. PICK a \in Actions : claims[a].payload = p /\ claims[a].state # "CLAIMED"
    BY <1>1 DEF IInv, Charged
  <2>2. claims[a] # NoClaim
    BY <1>1, <2>1, NoClaimFields DEF IInv, Typed
  <2>3. \A b \in Actions \ {a} : claims[b].payload # p
    BY <1>1, <2>1, <2>2 DEF IInv, PayloadsUnique
  <2> QED BY <2>1, <2>3
<1> QED BY <1>1, InvariantAlways, PTL

-----------------------------------------------------------------------------
(* A payment is settled once but for a race *)

(* A payment no two requests were about to settle at once is sent to the    *)
(* facilitator at most once, with its claim past CLAIMED, and the payer of  *)
(* a failed claim was charged only if the gate could not read the answer.   *)
Sent ==
  /\ settles \in [Payloads -> Nat]
  /\ \A p \in Payloads \ raced :
       /\ settles[p] \in 0..1
       /\ settles[p] = 1 =>
            \E a \in Actions : claims[a].payload = p /\ claims[a].state # "CLAIMED"
  /\ \A a \in Actions : claims[a].state = "FAILED" /\ claims[a].payload \in executed =>
       claims[a].payload \in raced \cup malformed

(* Without a race a handler about to settle has its claim for itself: no    *)
(* other handler settles it or fails it.                                    *)
Alone(h) ==
  /\ handler[h].pc \in {"reconcile", "recordFailed"} => Claim(h).state # "CLAIMED"
  /\ Claim(h).payload \notin raced =>
       /\ At(h, "startSettling") => Claim(h).state = "CLAIMED"
       /\ At(h, "settle") =>
            /\ Claim(h).state = "SETTLING"
            /\ settles[Claim(h).payload] = 0 /\ Claim(h).payload \notin executed
            /\ \A g \in Handlers \ {h} :
                 handler[g].pc \in {"settle", "recordFailed"} => Req(g).action # Req(h).action
       /\ At(h, "recordFailed") /\ Claim(h).payload \in executed =>
            Claim(h).payload \in malformed

OnceInv == Sent /\ \A h \in Handlers : Alone(h)

(* The steps at which Alone says something. *)
Contended == {"startSettling", "settle", "reconcile", "recordFailed"}

(* A handler at one of them has a request with a claim. *)
LEMMA ContendedClaim ==
  ASSUME IInv, NEW g \in Handlers, handler[g].pc \in Contended
  PROVE  /\ Req(g) \in Requests /\ Req(g).action \in Actions /\ Holds(g)
         /\ Claim(g) \in PaymentClaim /\ Claim(g).payload \in Payloads
         /\ handler[g].pc \in {"startSettling", "settle"} => Req(g).payload = Claim(g).payload
<1>1. HandlerInv(g) /\ ~At(g, "idle") /\ handler[g].pc \in WithClaim
  BY DEF IInv, Contended, At, WithClaim
<1>2. /\ Req(g) \in Requests /\ Req(g).action \in Actions /\ Holds(g)
      /\ handler[g].pc \in {"startSettling", "settle"} => Req(g).payload = Claim(g).payload
  BY <1>1, RequestFields DEF HandlerInv
<1> QED BY <1>2 DEF IInv, Typed, Claim, Holds, PaymentClaim

(* The claim bound to a payment is the only one. *)
LEMMA SamePayment ==
  ASSUME IInv, NEW g \in Handlers, NEW h \in Handlers, Req(g).action \in Actions,
         Req(h).action \in Actions, Holds(h), Claim(g).payload = Claim(h).payload
  PROVE  Req(g).action = Req(h).action
BY DEF IInv, PayloadsUnique, Claim, Holds

(* What is known of the payments survives a step that sends none. *)
LEMMA SentStep ==
  ASSUME IInv, Sent, UNCHANGED <<executed, settles, malformed>>, raced \subseteq raced',
         \A a \in Actions : Later(claims[a], claims'[a]),
         \A a \in Actions : claims'[a].state = "FAILED" /\ claims'[a].payload \in executed =>
           claims'[a].payload \in raced \cup malformed
  PROVE  Sent'
<1>1. ASSUME NEW p \in Payloads \ raced, settles[p] = 1
      PROVE  \E a \in Actions : claims'[a].payload = p /\ claims'[a].state # "CLAIMED"
  <2>1. PICK a \in Actions : claims[a].payload = p /\ claims[a].state # "CLAIMED"
    BY <1>1 DEF Sent
  <2>2. claims[a] # NoClaim
    BY <2>1, NoClaimFields
  <2> QED BY <2>1, <2>2 DEF Later
<1> QED BY <1>1 DEF Sent

(* A step of handler h that sends no payment and goes neither to the        *)
(* facilitator nor to the failure: the claims of the others that are about  *)
(* to settle stay as they are.                                              *)
LEMMA OnceStep ==
  ASSUME IInv, OnceInv, NEW h \in Handlers, Frame(h),
         UNCHANGED <<executed, settles, raced, malformed>>,
         handler'[h].pc \notin {"settle", "recordFailed"}, Alone(h)',
         \A a \in Actions : Later(claims[a], claims'[a]),
         \A a \in Actions : claims'[a].state = "FAILED" /\ claims'[a].payload \in executed =>
           claims'[a].payload \in raced \cup malformed,
         \A g \in Handlers \ {h} :
           handler[g].pc \in {"startSettling", "settle"} /\ Claim(g).payload \notin raced =>
             claims'[Req(g).action].state = Claim(g).state
  PROVE  OnceInv'
<1>1. Sent'
  BY SentStep DEF OnceInv
<1>2. ASSUME NEW g \in Handlers \ {h} PROVE Alone(g)'
  <2>1. handler'[g] = handler[g] /\ Req(g)' = Req(g) /\ Alone(g)
    BY DEF Frame, OnceInv, Req
  <2>2. CASE handler[g].pc \notin Contended
    BY <2>1, <2>2 DEF Alone, Contended, At
  <2>3. CASE handler[g].pc \in Contended
    <3>1. Req(g).action \in Actions /\ Holds(g)
      BY <2>3, ContendedClaim
    <3>2. /\ Claim(g)' = claims'[Req(g).action] /\ Later(Claim(g), Claim(g)')
      BY <2>1, <3>1 DEF Claim
    <3>3. /\ Claim(g)'.payload = Claim(g).payload
          /\ Claim(g).state # "CLAIMED" => Claim(g)'.state # "CLAIMED"
      BY <3>1, <3>2 DEF Holds, Later
    <3>4. handler[g].pc \in {"startSettling", "settle"} /\ Claim(g).payload \notin raced =>
            Claim(g)'.state = Claim(g).state
      BY <3>2
    <3>5. \A f \in Handlers \ {g} : handler'[f].pc \in {"settle", "recordFailed"} =>
            handler[f].pc \in {"settle", "recordFailed"} /\ Req(f)' = Req(f)
      BY DEF Frame, Req
    <3> QED BY <2>1, <3>3, <3>4, <3>5 DEF Alone, At
  <2> QED BY <2>2, <2>3
<1> QED BY <1>1, <1>2 DEF OnceInv

(* A step that does not touch the journal. *)
LEMMA OnceLocal ==
  ASSUME IInv, OnceInv, NEW h \in Handlers, Frame(h),
         UNCHANGED <<claims, executed, settles, raced, malformed>>,
         handler'[h].pc \notin {"settle", "recordFailed"}, Alone(h)'
  PROVE  OnceInv'
<1>1. \A a \in Actions : Later(claims[a], claims'[a])
  BY DEF Later
<1>2. \A g \in Handlers \ {h} : claims'[Req(g).action].state = Claim(g).state
  BY DEF Claim
<1> QED BY <1>1, <1>2, OnceStep DEF OnceInv, Sent

(* An answer. *)
LEMMA OnceReply ==
  ASSUME IInv, OnceInv, NEW h \in Handlers, NEW code, Reply(h, code),
         UNCHANGED <<claims, executed, settles, raced, malformed>>
  PROVE  OnceInv'
<1>1. Frame(h) /\ handler'[h].pc = "idle"
  BY Replies DEF IInv
<1>2. Alone(h)'
  BY <1>1 DEF Alone, At
<1> QED BY <1>1, <1>2, OnceLocal

(* The claim of a payment never sent, and never charged. *)
LEMMA ClaimOfPayment ==
  ASSUME IInv, OnceInv, NEW h \in Handlers, handler[h].pc \in Contended,
         Claim(h).state = "CLAIMED", Claim(h).payload \notin raced
  PROVE  settles[Claim(h).payload] = 0 /\ Claim(h).payload \notin executed
<1>1. Claim(h).payload \in Payloads /\ Req(h).action \in Actions /\ Holds(h)
  BY ContendedClaim
<1>2. \A a \in Actions : claims[a].payload = Claim(h).payload => claims[a].state = "CLAIMED"
  BY <1>1 DEF IInv, PayloadsUnique, Claim, Holds
<1>3. settles[Claim(h).payload] # 1 /\ settles[Claim(h).payload] \in 0..1
  BY <1>1, <1>2 DEF OnceInv, Sent
<1>4. Claim(h).payload \notin executed
  BY <1>2 DEF IInv, Charged
<1> QED BY <1>3, <1>4

(* Up to the claim, and after the settlement. *)
LEMMA Aside_Once ==
  ASSUME IInv, OnceInv, NEW h \in Handlers,
         \/ \E r \in Requests : receive(h, r)
         \/ lookup(h) \/ findBody(h) \/ putBody(h) \/ verifyFails(h) \/ crash(h)
         \/ commit(h) \/ commitFails(h) \/ rebuild(h)
  PROVE  OnceInv'
<1>1. UNCHANGED <<claims, executed, settles, raced, malformed>> /\ Typed
  BY DEF receive, lookup, findBody, putBody, verifyFails, crash, commit, commitFails, rebuild,
     IInv, history
<1>2. handler'[h].pc \in {"idle", "lookup", "findBody", "putBody", "execute", "finalize"}
      /\ Frame(h)
  <2>0. handler \in [Handlers -> Handling] /\ handler[h] \in Handling
    BY <1>1 DEF Typed
  <2>1. CASE \E r \in Requests : receive(h, r)
    BY <2>0, <2>1 DEF receive, Idle, Frame
  <2>2. CASE \E code : Reply(h, code)
    BY <2>0, <2>2 DEF Reply, Idle, Frame
  <2>3. CASE crash(h)
    BY <2>0, <2>3 DEF crash, Idle, Frame
  <2>4. ASSUME NEW pc \in {"putBody", "execute", "finalize"}, GoTo(h, pc)
        PROVE  handler'[h].pc = pc /\ Frame(h)
    BY <2>0, <2>4 DEF GoTo, Handling, Frame
  <2>5. CASE lookup(h) /\ ~\E code : Reply(h, code)
    <3>1. PICK pc \in {"execute", "findBody"} :
            handler'[h] = [handler[h] EXCEPT !.pc = pc, !.claimed = (Claim(h) # NoClaim),
                                             !.seen = NothingSeen]
      BY <2>0, <2>5 DEF lookup
    <3>2. Frame(h)
      BY <2>0, <2>5 DEF lookup, Frame
    <3> QED BY <2>0, <3>1, <3>2 DEF Handling
  <2> QED BY <2>1, <2>2, <2>3, <2>4, <2>5 DEF lookup, findBody, putBody, verifyFails, commit,
             commitFails, rebuild
<1>3. Alone(h)'
  BY <1>2 DEF Alone, At
<1> QED BY <1>1, <1>2, <1>3, OnceLocal

(* A claim taken up is as it was read. *)
LEMMA DispatchedAlone ==
  ASSUME IInv, NEW h \in Handlers, Req(h) \in Requests, NEW c \in PaymentClaim,
         Dispatch(h, c), Bound(c), claims'[Req(h).action] = c
  PROVE  Alone(h)' /\ Frame(h) /\ handler'[h].pc \notin {"settle", "recordFailed"}
<1>1. Frame(h)
  BY Dispatches
<1>2. CASE handler'[h].pc = "idle"
  BY <1>1, <1>2 DEF Alone, At
<1>3. CASE handler'[h].pc # "idle"
  <2>1. /\ Req(h)' = Req(h) /\ Claim(h)' = c
        /\ \/ c.state = "CLAIMED" /\ handler'[h].pc = "startSettling"
           \/ c.state = "SETTLING" /\ handler'[h].pc = "reconcile"
           \/ c.state = "SETTLED_PENDING_COMMIT" /\ handler'[h].pc = "commit"
           \/ c.state = "COMMITTED" /\ handler'[h].pc = "rebuild"
    BY <1>3, Dispatches DEF Claim
  <2> QED BY <1>1, <2>1 DEF Alone, At
<1> QED BY <1>2, <1>3

(* The claim is read, or made. *)
LEMMA ClaimTaken ==
  ASSUME IInv, OnceInv, NEW h \in Handlers, execute(h) \/ acquire(h)
  PROVE  OnceInv'
<1> DEFINE r == Req(h)
           c == [bid |-> r.bid, body |-> r.body, payload |-> r.payload,
                 state |-> "CLAIMED", settledAt |-> -1]
<1>1. /\ UNCHANGED <<executed, settles, raced, malformed>> /\ Typed
      /\ r \in Requests /\ r.action \in Actions
      /\ acquire(h) => assertBinding(r)
  BY RequestFields DEF execute, acquire, history, IInv, HandlerInv, At
<1>2. CASE Claim(h) # NoClaim /\ Dispatch(h, Claim(h)) /\ UNCHANGED claims
  <2>1. Claim(h) \in PaymentClaim /\ Bound(Claim(h)) /\ claims'[Req(h).action] = Claim(h)
    BY <1>1, <1>2 DEF Typed, IInv, Claim
  <2> QED BY <1>1, <1>2, <2>1, DispatchedAlone, OnceLocal
<1>3. CASE UNCHANGED claims /\ (\E code : Reply(h, code))
  BY <1>1, <1>3, OnceReply
<1>4. CASE UNCHANGED claims /\ GoTo(h, "acquire")
  <2>1. handler'[h].pc = "acquire" /\ Frame(h)
    BY <1>1, <1>4, Moves DEF Steps
  <2>2. Alone(h)'
    BY <2>1 DEF Alone, At
  <2> QED BY <1>1, <1>4, <2>1, <2>2, OnceLocal
<1>5. CASE /\ acquire(h) /\ Claim(h) = NoClaim
           /\ claims' = [claims EXCEPT ![r.action] = c] /\ Dispatch(h, c)
  <2>1. /\ c \in PaymentClaim /\ c.payload = r.payload /\ c.state = "CLAIMED"
        /\ c.bid = r.bid
    BY <1>1, <1>5, RequestFields DEF PaymentClaim, PAYMENT_CLAIM_STATES, assertBinding
  <2> HIDE DEF c
  <2>2. Bound(c)
    BY <1>1, <1>5, <2>1 DEF Bound, assertBinding, Settled
  <2>3. /\ claims'[r.action] = c /\ claims[r.action] = NoClaim
        /\ \A a \in Actions \ {r.action} : claims'[a] = claims[a]
    BY <1>1, <1>5, <2>1 DEF Typed, Claim
  <2>4. \A a \in Actions :
          /\ Later(claims[a], claims'[a])
          /\ claims'[a].state = "FAILED" /\ claims'[a].payload \in executed =>
               claims'[a].payload \in raced \cup malformed
    BY <1>1, <2>1, <2>3 DEF Later, OnceInv, Sent
  <2>5. ASSUME NEW g \in Handlers \ {h}, handler[g].pc \in {"startSettling", "settle"}
        PROVE  claims'[Req(g).action].state = Claim(g).state
    <3>1. Req(g).action \in Actions /\ Holds(g)
      BY <2>5, ContendedClaim DEF Contended
    <3>2. Req(g).action # r.action
      BY <2>3, <3>1 DEF Holds, Claim
    <3> QED BY <2>3, <3>1, <3>2 DEF Claim
  <2>6. Alone(h)' /\ Frame(h) /\ handler'[h].pc \notin {"settle", "recordFailed"}
    BY <1>1, <1>5, <2>1, <2>2, <2>3, DispatchedAlone
  <2> QED BY <1>1, <2>4, <2>5, <2>6, OnceStep
<1> QED BY <1>2, <1>3, <1>4, <1>5 DEF execute, acquire

(* transitionIn touches the claim of the handler's own action, and leaves   *)
(* the state of one in neither of the two states as it is.                  *)
LEMMA TransitionTouches ==
  ASSUME IInv, NEW h \in Handlers, Req(h).action \in Actions, Holds(h),
         NEW from, NEW to, NEW at, transition(h, from, to, at)
  PROVE  /\ \A a \in Actions \ {Req(h).action} : claims'[a] = claims[a]
         /\ claims'[Req(h).action].payload = Claim(h).payload
         /\ claims'[Req(h).action].state = to
         /\ Claim(h).state \in {from, to}
<1>1. Claim(h) \in PaymentClaim /\ claims \in [Actions -> PaymentClaim \cup {NoClaim}]
  BY DEF IInv, Typed, Claim, Holds
<1>2. CASE Claim(h).state = to /\ UNCHANGED claims
  BY <1>1, <1>2 DEF Claim
<1>3. CASE /\ Claim(h).state = from
           /\ claims' = [claims EXCEPT ![Req(h).action].state = to,
                                       ![Req(h).action].settledAt = at]
  <2>1. claims'[Req(h).action] = [Claim(h) EXCEPT !.state = to, !.settledAt = at]
    BY <1>1, <1>3 DEF Claim
  <2>2. claims'[Req(h).action].payload = Claim(h).payload /\ claims'[Req(h).action].state = to
    BY <1>1, <2>1 DEF PaymentClaim
  <2> QED BY <1>1, <1>3, <2>2
<1> QED BY <1>2, <1>3 DEF transition

(* A claim moved on past its settlement: nobody else is about to settle it. *)
LEMMA OnceTransition ==
  ASSUME IInv, OnceInv, NEW h \in Handlers, Req(h).action \in Actions, Holds(h), Frame(h),
         UNCHANGED <<executed, settles, raced, malformed>>,
         NEW from, NEW to, NEW at, transition(h, from, to, at), from # "CLAIMED", to # "CLAIMED",
         handler'[h].pc \notin {"settle", "recordFailed"}, Alone(h)',
         \A a \in Actions : Later(claims[a], claims'[a]),
         to = "FAILED" /\ Claim(h).payload \in executed =>
           Claim(h).payload \in raced \cup malformed,
         \A g \in Handlers \ {h} :
           At(g, "settle") /\ Req(g).action = Req(h).action => Claim(h).payload \in raced
  PROVE  OnceInv'
<1>1. /\ \A a \in Actions \ {Req(h).action} : claims'[a] = claims[a]
      /\ claims'[Req(h).action].payload = Claim(h).payload
      /\ claims'[Req(h).action].state = to
      /\ Claim(h).state \in {from, to}
  BY TransitionTouches
<1>2. \A a \in Actions : claims'[a].state = "FAILED" /\ claims'[a].payload \in executed =>
        claims'[a].payload \in raced \cup malformed
  BY <1>1 DEF OnceInv, Sent
<1>3. ASSUME NEW g \in Handlers \ {h}, handler[g].pc \in {"startSettling", "settle"},
             Claim(g).payload \notin raced
      PROVE  claims'[Req(g).action].state = Claim(g).state
  <2>1. Req(g).action \in Actions
    BY <1>3, ContendedClaim DEF Contended
  <2>2. CASE Req(g).action # Req(h).action
    BY <1>1, <2>1, <2>2 DEF Claim
  <2>3. CASE Req(g).action = Req(h).action
    <3>1. Claim(g) = Claim(h) /\ At(g, "startSettling")
      BY <1>3, <2>3 DEF Claim, At
    <3>2. Claim(g).state = "CLAIMED"
      BY <1>3, <3>1 DEF OnceInv, Alone
    <3> QED BY <1>1, <3>1, <3>2
  <2> QED BY <2>2, <2>3
<1> QED BY <1>2, <1>3, OnceStep

(* The claim leaves CLAIMED under one handler, or under two that race. *)
LEMMA startSettling_Once ==
  ASSUME IInv, OnceInv, NEW h \in Handlers, startSettling(h)
  PROVE  OnceInv'
<1>1. /\ UNCHANGED <<processed, executed, settles, malformed>> /\ Typed
      /\ Req(h) \in Requests /\ Req(h).action \in Actions /\ Holds(h) /\ At(h, "startSettling")
      /\ Claim(h).payload = Req(h).payload /\ Claim(h).payload \in Payloads
      /\ handler[h].pc \in Contended
  BY ContendedClaim DEF startSettling, record, IInv, At, Contended
<1>2. CASE Reply(h, "PAYMENT_RECOVERY_FAILED") /\ UNCHANGED <<claims, raced>>
  BY <1>1, <1>2, OnceReply
<1>3. CASE /\ transition(h, "CLAIMED", "SETTLING", -1) /\ GoTo(h, "settle")
           /\ raced' = IF Racing(h) THEN raced \cup {Req(h).payload} ELSE raced
  <2>1. handler'[h].pc = "settle" /\ Req(h)' = Req(h) /\ Frame(h)
    BY <1>1, <1>3, Moves DEF Steps
  <2>2. /\ \A a \in Actions \ {Req(h).action} : claims'[a] = claims[a]
        /\ claims'[Req(h).action].payload = Claim(h).payload
        /\ claims'[Req(h).action].state = "SETTLING"
        /\ Claim(h).state \in {"CLAIMED", "SETTLING"}
    BY <1>1, <1>3, TransitionTouches
  <2>3. {"CLAIMED", "SETTLING"} \subseteq PAYMENT_CLAIM_STATES
        /\ "CLAIMED" \notin Settled /\ "SETTLING" \notin Settled
    BY DEF PAYMENT_CLAIM_STATES, Settled
  <2>4. \A a \in Actions : Later(claims[a], claims'[a])
    BY <1>1, <1>3, <2>3, Transitions
  <2>5. raced \subseteq raced' /\ (Racing(h) => Claim(h).payload \in raced')
    BY <1>1, <1>3
  <2>6. Sent'
    <3>1. \A a \in Actions : claims'[a].state = "FAILED" /\ claims'[a].payload \in executed =>
            claims'[a].payload \in raced \cup malformed
      BY <2>2 DEF OnceInv, Sent
    <3> QED BY <1>1, <2>4, <2>5, <3>1, SentStep DEF OnceInv
  <2>7. ASSUME NEW g \in Handlers \ {h}, handler[g].pc \in Contended,
               Req(g).action = Req(h).action, Claim(h).payload \notin raced'
        PROVE  handler[g].pc = "reconcile"
    <3>1. Claim(g) = Claim(h) /\ Claim(h).payload \notin raced /\ ~Racing(h)
      BY <2>5, <2>7 DEF Claim
    <3>2. Claim(h).state = "CLAIMED"
      BY <1>1, <3>1 DEF OnceInv, Alone
    <3>3. ~At(g, "startSettling")
      BY <2>7, <3>1 DEF Racing
    <3>4. ~At(g, "settle") /\ ~At(g, "recordFailed")
      BY <3>1, <3>2 DEF OnceInv, Alone, At
    <3> QED BY <2>7, <3>3, <3>4 DEF At, Contended
  <2>8. Alone(h)'
    <3>1. Claim(h)'.payload = Claim(h).payload /\ Claim(h)'.state = "SETTLING"
      BY <2>1, <2>2 DEF Claim
    <3> SUFFICES ASSUME Claim(h).payload \notin raced'
                 PROVE  /\ settles[Claim(h).payload] = 0 /\ Claim(h).payload \notin executed
                        /\ \A g \in Handlers \ {h} :
                             handler'[g].pc \in {"settle", "recordFailed"} =>
                               Req(g)'.action # Req(h)'.action
      BY <1>1, <2>1, <3>1 DEF Alone, At
    <3>2. Claim(h).payload \notin raced /\ Claim(h).state = "CLAIMED"
      BY <1>1, <2>5 DEF OnceInv, Alone
    <3>3. settles[Claim(h).payload] = 0 /\ Claim(h).payload \notin executed
      BY <1>1, <3>2, ClaimOfPayment
    <3>4. ASSUME NEW g \in Handlers \ {h}, handler'[g].pc \in {"settle", "recordFailed"}
          PROVE  Req(g)'.action # Req(h)'.action
      <4>1. handler[g].pc \in {"settle", "recordFailed"} /\ Req(g)' = Req(g)
        BY <2>1, <3>4 DEF Frame, Req
      <4> QED BY <2>1, <2>7, <4>1 DEF Contended
    <3> QED BY <3>3, <3>4
  <2>9. ASSUME NEW g \in Handlers \ {h} PROVE Alone(g)'
    <3>1. handler'[g] = handler[g] /\ Req(g)' = Req(g) /\ Alone(g)
      BY <2>1 DEF Frame, OnceInv, Req
    <3>2. CASE handler[g].pc \notin Contended
      BY <3>1, <3>2 DEF Alone, Contended, At
    <3>3. CASE handler[g].pc \in Contended /\ Req(g).action = Req(h).action
      <4>1. Claim(g)' = claims'[Req(h).action] /\ Claim(g) = Claim(h)
        BY <3>1, <3>3 DEF Claim
      <4> QED BY <2>2, <2>7, <3>1, <3>3, <4>1 DEF Alone, At
    <3>4. CASE handler[g].pc \in Contended /\ Req(g).action # Req(h).action
      <4>1. Claim(g)' = Claim(g)
        BY <2>2, <3>1, <3>4, ContendedClaim DEF Claim
      <4>2. \A f \in Handlers \ {g} : handler'[f].pc \in {"settle", "recordFailed"} =>
              \/ handler[f].pc \in {"settle", "recordFailed"} /\ Req(f)' = Req(f)
              \/ f = h /\ Req(f)' = Req(h)
        BY <2>1 DEF Frame, Req
      <4> QED BY <1>1, <2>5, <3>1, <3>4, <4>1, <4>2 DEF Alone, At
    <3> QED BY <3>2, <3>3, <3>4
  <2> QED BY <2>6, <2>8, <2>9 DEF OnceInv
<1> QED BY <1>2, <1>3 DEF startSettling, TransitionRefused

(* The facilitator is asked: without a race for the first time, and for a   *)
(* claim that is neither open nor failed.                                   *)
LEMMA Settle_Once ==
  ASSUME IInv, OnceInv, NEW h \in Handlers, Settle(h)
  PROVE  OnceInv'
<1> DEFINE p == Claim(h).payload
<1>1. /\ UNCHANGED <<claims, raced>> /\ Typed /\ SettleCalled(h) /\ At(h, "settle")
      /\ handler[h].pc \in Contended
      /\ malformed' \in {malformed, malformed \cup {Req(h).payload}}
      /\ executed' \in {executed, executed \cup {Req(h).payload}}
      /\ now \in Times
  BY DEF Settle, settleSucceeds, settleRefused, settleLost, history, IInv, Typed, At, Contended
<1>2. /\ Req(h).action \in Actions /\ Holds(h) /\ p \in Payloads /\ Req(h).payload = p
  BY <1>1, ContendedClaim DEF At
<1>3. p \notin raced => /\ Claim(h).state = "SETTLING" /\ settles[p] = 0 /\ p \notin executed
                        /\ \A g \in Handlers \ {h} :
                             handler[g].pc \in {"settle", "recordFailed"} =>
                               Req(g).action # Req(h).action
  BY <1>1 DEF OnceInv, Alone
<1>4. /\ Frame(h)
      /\ \/ handler'[h].pc = "idle"
         \/ /\ Req(h)' = Req(h) /\ Claim(h)' = Claim(h)
            /\ \/ handler'[h].pc = "recordSettled"
               \/ handler'[h].pc = "recordFailed" /\ (executed' = executed \/ p \in malformed')
  <2>1. CASE Reply(h, "PAYMENT_SETTLEMENT_UNKNOWN")
    BY <1>1, <2>1, Replies
  <2>2. CASE GoTo(h, "recordFailed") /\ (executed' = executed \/ p \in malformed')
    <3>1. Frame(h) /\ Req(h)' = Req(h) /\ handler'[h].pc = "recordFailed"
      BY <1>1, <2>2, Moves DEF Steps
    <3>2. Claim(h)' = Claim(h)
      BY <1>1, <3>1 DEF Claim
    <3> QED BY <2>2, <3>1, <3>2
  <2>3. CASE handler' = [handler EXCEPT ![h].pc = "recordSettled", ![h].settledAt = now]
    <3>1. Frame(h) /\ Req(h)' = Req(h) /\ handler'[h].pc = "recordSettled"
      BY <1>1, <2>3, MovesSettled DEF Steps
    <3>2. Claim(h)' = Claim(h)
      BY <1>1, <3>1 DEF Claim
    <3> QED BY <3>1, <3>2
  <2> QED BY <1>2, <2>1, <2>2, <2>3 DEF Settle, settleSucceeds, settleRefused, settleLost
<1> HIDE DEF p
<1>5. /\ settles' \in [Payloads -> Nat] /\ settles'[p] = settles[p] + 1
      /\ \A q \in Payloads \ {p} : settles'[q] = settles[q]
  BY <1>1, <1>2 DEF SettleCalled, OnceInv, Sent
<1>6. Sent'
  <2>1. ASSUME NEW q \in Payloads \ raced'
        PROVE  /\ settles'[q] \in 0..1
               /\ settles'[q] = 1 =>
                    \E a \in Actions : claims'[a].payload = q /\ claims'[a].state # "CLAIMED"
    <3>1. CASE q = p
      BY <1>1, <1>2, <1>3, <1>5, <2>1, <3>1 DEF Claim, p
    <3>2. CASE q # p
      BY <1>1, <1>5, <2>1, <3>2 DEF OnceInv, Sent
    <3> QED BY <3>1, <3>2
  <2>2. ASSUME NEW a \in Actions, claims'[a].state = "FAILED", claims'[a].payload \in executed'
        PROVE  claims'[a].payload \in raced' \cup malformed'
    <3>1. CASE claims[a].payload = p
      <4>1. a = Req(h).action
        BY <1>2, <3>1 DEF IInv, PayloadsUnique, Claim, Holds, p
      <4> QED BY <1>1, <1>3, <2>2, <3>1, <4>1 DEF Claim
    <3>2. CASE claims[a].payload # p
      BY <1>1, <1>2, <2>2, <3>2 DEF OnceInv, Sent
    <3> QED BY <3>1, <3>2
  <2> QED BY <1>5, <2>1, <2>2 DEF Sent
<1>7. Alone(h)'
  BY <1>1, <1>2, <1>3, <1>4 DEF Alone, At, IInv, HandlerInv, p
<1>8. ASSUME NEW g \in Handlers \ {h} PROVE Alone(g)'
  <2>1. handler'[g] = handler[g] /\ Req(g)' = Req(g) /\ Claim(g)' = Claim(g) /\ Alone(g)
    BY <1>1, <1>4 DEF Frame, OnceInv, Req, Claim
  <2>2. CASE handler[g].pc \notin Contended
    BY <2>1, <2>2 DEF Alone, Contended, At
  <2>3. CASE handler[g].pc \in Contended /\ Claim(g).payload = p
    <3>1. Req(g).action = Req(h).action
      BY <1>2, <2>3, ContendedClaim, SamePayment DEF p
    <3>2. p \notin raced => handler[g].pc \notin {"settle", "recordFailed"}
      BY <1>3, <3>1
    <3> QED BY <1>1, <2>1, <2>3, <3>2 DEF Alone, At
  <2>4. CASE handler[g].pc \in Contended /\ Claim(g).payload # p
    <3>1. /\ Claim(g).payload \in executed' <=> Claim(g).payload \in executed
          /\ Claim(g).payload \in malformed => Claim(g).payload \in malformed'
          /\ Claim(g).payload \in Payloads
          /\ settles'[Claim(g).payload] = settles[Claim(g).payload]
      BY <1>1, <1>2, <1>5, <2>4, ContendedClaim
    <3>2. \A f \in Handlers \ {g} : handler'[f].pc \in {"settle", "recordFailed"} =>
            handler[f].pc \in {"settle", "recordFailed"} /\ Req(f)' = Req(f)
      BY <1>1, <1>4 DEF Frame, Req, At
    <3> QED BY <1>1, <2>1, <2>4, <3>1, <3>2 DEF Alone, At
  <2> QED BY <2>2, <2>3, <2>4
<1> QED BY <1>6, <1>7, <1>8 DEF OnceInv

(* What came of the settlement is recorded. *)
LEMMA record_Once ==
  ASSUME IInv, OnceInv, NEW h \in Handlers, recordSettled(h) \/ recordFailed(h)
  PROVE  OnceInv'
<1>1. /\ UNCHANGED <<processed, executed, settles, raced, malformed>> /\ Typed
      /\ Req(h) \in Requests /\ Req(h).action \in Actions /\ Holds(h)
  BY RequestFields DEF recordSettled, recordFailed, record, history, IInv, HandlerInv, At,
     WithClaim
<1>2. {"SETTLING", "FAILED", "SETTLED_PENDING_COMMIT"} \subseteq PAYMENT_CLAIM_STATES
      /\ "SETTLING" \notin Settled /\ "FAILED" \notin Settled
      /\ "SETTLED_PENDING_COMMIT" \in Settled
  BY DEF PAYMENT_CLAIM_STATES, Settled
<1>3. CASE Reply(h, "PAYMENT_RECOVERY_FAILED") /\ UNCHANGED claims
  BY <1>1, <1>3, OnceReply
<1>4. CASE /\ At(h, "recordSettled")
           /\ transition(h, "SETTLING", "SETTLED_PENDING_COMMIT", handler[h].settledAt)
           /\ handler' = [handler EXCEPT ![h].pc = "commit",
                                         ![h].settledAt = claims'[Req(h).action].settledAt]
  <2>1. Claim(h).payload \in executed /\ handler[h].settledAt \in Times
    BY <1>4 DEF IInv, HandlerInv, At
  <2>2. \A a \in Actions : Later(claims[a], claims'[a])
    BY <1>1, <1>2, <1>4, <2>1, Transitions
  <2>3. handler'[h].pc = "commit" /\ Frame(h)
    BY <1>1, <1>4 DEF Typed, Handling, Frame
  <2>4. Alone(h)'
    BY <2>3 DEF Alone, At
  <2>5. \A g \in Handlers \ {h} :
          At(g, "settle") /\ Req(g).action = Req(h).action => Claim(h).payload \in raced
    BY <2>1 DEF OnceInv, Alone, Claim
  <2> QED BY <1>1, <1>4, <2>2, <2>3, <2>4, <2>5, OnceTransition
<1>5. CASE /\ At(h, "recordFailed")
           /\ transition(h, "SETTLING", "FAILED", -1) /\ Reply(h, "PAYMENT_SETTLEMENT_FAILED")
  <2>1. Claim(h).payload \in executed => Claim(h).payload \in raced \cup malformed
    BY <1>5 DEF OnceInv, Alone
  <2>2. \A a \in Actions : Later(claims[a], claims'[a])
    BY <1>1, <1>2, <1>5, Transitions
  <2>3. handler'[h].pc = "idle" /\ Frame(h)
    BY <1>1, <1>5, Replies
  <2>4. Alone(h)'
    BY <2>3 DEF Alone, At
  <2>5. \A g \in Handlers \ {h} :
          At(g, "settle") /\ Req(g).action = Req(h).action => Claim(h).payload \in raced
    BY <1>5 DEF OnceInv, Alone, Claim, At
  <2> QED BY <1>1, <1>5, <2>1, <2>2, <2>3, <2>4, <2>5, OnceTransition
<1> QED BY <1>3, <1>4, <1>5 DEF recordSettled, recordFailed, TransitionRefused

(* The reconciler fails a claim only when nobody is about to settle it. *)
LEMMA Reconcile_Once ==
  ASSUME IInv, OnceInv, NEW h \in Handlers, Reconcile(h)
  PROVE  OnceInv'
<1>1. /\ UNCHANGED <<claims, executed, settles, raced, malformed>> /\ Typed /\ now \in Times
      /\ At(h, "reconcile") /\ handler[h].pc \in Contended
  BY DEF Reconcile, reconcileUnknown, reconcileConfirmed, reconcileFailed, history, IInv, Typed,
     At, Contended
<1>2. CASE Reply(h, "PAYMENT_SETTLEMENT_UNKNOWN")
  BY <1>1, <1>2, OnceReply
<1>3. CASE handler' = [handler EXCEPT ![h].pc = "recordSettled", ![h].settledAt = now]
  <2>1. handler'[h].pc = "recordSettled" /\ Frame(h)
    BY <1>1, <1>3, MovesSettled DEF Steps
  <2>2. Alone(h)'
    BY <2>1 DEF Alone, At
  <2> QED BY <1>1, <2>1, <2>2, OnceLocal
<1>4. CASE /\ GoTo(h, "recordFailed") /\ Claim(h).payload \notin executed
           /\ \A g \in Handlers : At(g, "settle") => Req(g).payload # Claim(h).payload
  <2>1. handler'[h].pc = "recordFailed" /\ Req(h)' = Req(h) /\ Frame(h)
    BY <1>1, <1>4, Moves DEF Steps
  <2>2. Claim(h)' = Claim(h) /\ Claim(h).state # "CLAIMED"
    BY <1>1, <2>1 DEF Claim, OnceInv, Alone, At
  <2>3. Alone(h)'
    BY <1>1, <1>4, <2>1, <2>2 DEF Alone, At
  <2>4. Sent'
    BY <1>1 DEF OnceInv, Sent
  <2>5. ASSUME NEW g \in Handlers \ {h} PROVE Alone(g)'
    <3>1. handler'[g] = handler[g] /\ Req(g)' = Req(g) /\ Claim(g)' = Claim(g) /\ Alone(g)
      BY <1>1, <2>1 DEF Frame, OnceInv, Req, Claim
    <3>2. \A f \in Handlers \ {g} : handler'[f].pc \in {"settle", "recordFailed"} =>
            \/ handler[f].pc \in {"settle", "recordFailed"} /\ Req(f)' = Req(f)
            \/ f = h /\ Req(f)' = Req(h)
      BY <2>1 DEF Frame, Req
    <3>3. At(g, "settle") => Req(g).action # Req(h).action
      <4> SUFFICES ASSUME At(g, "settle"), Req(g).action = Req(h).action PROVE FALSE
        OBVIOUS
      <4>1. Claim(g) = Claim(h) /\ handler[g].pc \in Contended
        BY DEF Claim, At, Contended
      <4>2. Req(g).payload = Claim(g).payload
        BY <4>1, ContendedClaim DEF At
      <4> QED BY <1>4, <4>1, <4>2
    <3> QED BY <1>1, <3>1, <3>2, <3>3 DEF Alone, At
  <2> QED BY <2>3, <2>4, <2>5 DEF OnceInv
<1> QED BY <1>2, <1>3, <1>4 DEF Reconcile, reconcileUnknown, reconcileConfirmed, reconcileFailed

(* The claim is closed. *)
LEMMA finalize_Once ==
  ASSUME IInv, OnceInv, NEW h \in Handlers, finalize(h)
  PROVE  OnceInv'
<1>1. /\ UNCHANGED <<processed, executed, settles, raced, malformed>> /\ Typed
      /\ Req(h) \in Requests /\ Req(h).action \in Actions /\ Holds(h)
      /\ Claim(h).state \in Settled
  BY RequestFields DEF finalize, record, history, IInv, HandlerInv, At, WithClaim
<1>2. handler'[h].pc = "idle" /\ Frame(h)
  <2>1. PICK code : Reply(h, code)
    BY DEF finalize
  <2> QED BY <1>1, <2>1, Replies
<1>3. Alone(h)'
  BY <1>2 DEF Alone, At
<1>4. CASE transition(h, "SETTLED_PENDING_COMMIT", "COMMITTED", Claim(h).settledAt)
  <2>1. {"SETTLED_PENDING_COMMIT", "COMMITTED"} \subseteq PAYMENT_CLAIM_STATES
        /\ "SETTLED_PENDING_COMMIT" \in Settled /\ "COMMITTED" \in Settled
        /\ "SETTLING" \notin Settled
    BY DEF PAYMENT_CLAIM_STATES, Settled
  <2>2. Claim(h).payload \in executed /\ Claim(h).settledAt \in Times
    BY <1>1 DEF IInv, Bound, Holds, Claim
  <2>3. \A a \in Actions : Later(claims[a], claims'[a])
    BY <1>1, <1>4, <2>1, <2>2, Transitions
  <2>4. \A g \in Handlers \ {h} :
          At(g, "settle") /\ Req(g).action = Req(h).action => Claim(h).payload \in raced
    BY <1>1, <2>1 DEF OnceInv, Alone, Claim
  <2> QED BY <1>1, <1>2, <1>3, <1>4, <2>3, <2>4, OnceTransition
<1>5. CASE UNCHANGED claims
  BY <1>1, <1>2, <1>3, <1>5, OnceLocal
<1> QED BY <1>4, <1>5 DEF finalize, TransitionRefused

(* Every step keeps it. *)
LEMMA OnceStepInvariant ==
  ASSUME IInv, OnceInv, sent \in Clients, [Next]_vars
  PROVE  OnceInv'
<1>1. CASE \/ UNCHANGED vars \/ ESCROW_FUNDING_CONFIRMED \/ AUCTION_CLOSE_CONFIRMED \/ tick
  <2>1. UNCHANGED <<claims, executed, settles, raced, malformed, handler>>
    BY <1>1 DEF vars, history, ESCROW_FUNDING_CONFIRMED, AUCTION_CLOSE_CONFIRMED, tick
  <2> QED BY <2>1 DEF OnceInv, Sent, Alone, At, Claim, Req
<1>2. ASSUME NEW h \in Handlers,
             (\E r \in sent : receive(h, r)) \/ Proceed(h) \/ crash(h)
      PROVE  OnceInv'
  <2>1. \A r \in sent : r \in Requests
    BY DEF Requests
  <2> QED BY <1>2, <2>1, Aside_Once, ClaimTaken, startSettling_Once, Settle_Once, record_Once,
             Reconcile_Once, finalize_Once DEF Proceed
<1> QED BY <1>1, <1>2 DEF Next

(* Whatever is retried and crashes, executePaymentClaim asks the            *)
(* facilitator a second time only for a payment that two requests had       *)
(* verified before either began to settle it, and a FAILED claim's payer    *)
(* was charged only after such a race or an answer the gate could not read. *)
THEOREM SettledOnce == Spec => []SettlementConclusive
<1>1. Init => OnceInv
  <2> SUFFICES ASSUME Init PROVE OnceInv
    OBVIOUS
  <2>1. Sent
    BY NoClaimFields DEF Init, Sent
  <2>2. \A h \in Handlers : Alone(h)
    BY IdleHandling DEF Init, Alone, At
  <2> QED BY <2>1, <2>2 DEF OnceInv
<1>2. IInv /\ sent \in Clients /\ OnceInv /\ [Next]_vars => OnceInv'
  BY OnceStepInvariant
<1>3. OnceInv => SettlementConclusive
  <2> SUFFICES ASSUME OnceInv PROVE SettlementConclusive
    OBVIOUS
  <2>1. \A p \in Payloads \ raced : settles[p] \in 0..1
    BY DEF OnceInv, Sent
  <2>2. \A p \in Payloads : settles[p] > 1 => p \in raced
    BY <2>1
  <2> QED BY <2>2 DEF OnceInv, Sent, SettlementConclusive
<1> QED BY <1>1, <1>2, <1>3, InvariantAlways, PTL DEF Spec
==============================================================================
