----------------------- MODULE ReservationServiceProofs -----------------------
(***************************************************************************)
(* Proofs about the reservation service, for any number of invocations,    *)
(* signed transactions and crashes: what the network takes is the payment  *)
(* of the record, what cannot be undone is done once, and the record is    *)
(* right about its payment.                                                *)
(***************************************************************************)
EXTENDS ReservationService, TLAPS

(* The steps of a call, by what a call there works on. *)
PaymentSteps ==
  {"start", "verify", "claim", "settle", "settling", "open", "loop", "poll", "confirm",
   "mfail", "timeout", "reserve", "lookup", "resume", "retry", "script"}
ReservedSteps ==
  {"events", "deliver", "hclaim", "publish", "publishing", "hpub", "hresolving", "resolver",
   "hfail", "complete"}
Steps ==
  PaymentSteps \cup ReservedSteps \cup
  {"idle", "selectUsdc", "selectHbar", "challenge", "replace"}

HcsStates == {"none", "CLAIMED", "RESOLVING", "PUBLISHED", "MANUAL_REVIEW_REQUIRED",
              "FAILED_CONCLUSIVE"}
Invocation ==
  [pc: Steps, fresh: BOOLEAN, t: Tx \cup {None}, full: BOOLEAN, hs: HcsStates \ {"PUBLISHED"}]

LedgerStates == OnLedger \cup {"absent", "landed", "failed"}

Typed ==
  /\ rec \in Record \cup {None}
  /\ wk \in [Worker -> Invocation]
  /\ sent \subseteq Tx
  /\ ledger \in [Tx -> LedgerStates]
  /\ window \in [Tx -> {"valid", "expired", "past"}]
  /\ settles \in [Tx -> 0..1] /\ publishes \in 0..1 /\ topic \in 0..publishes

Unpaid == {"OFFER_CREATED", "OPTION_SELECTED", "PAYMENT_CHALLENGE_ISSUED"}
Unclaimed == Unpaid \cup {"PAYMENT_SUBMISSION_STARTED", "FACILITATOR_VERIFIED",
                          "PAYMENT_REJECTED"}
Failed == {"SETTLEMENT_FAILED", "PAYMENT_REJECTED"}

(* A transaction the network has not taken and never will. *)
Dead(t) == window[t] = "past" /\ ledger[t] = "absent"

(* What its state says of a record. *)
Early(r) ==
  /\ r.state \in Unpaid => r.pay = None
  /\ r.state \in Unclaimed => r.claim = None /\ r.tx = None
  /\ ~r.chal => r.state \in {"OFFER_CREATED", "OPTION_SELECTED"}
  /\ r.failure = "CONCLUSIVELY_FAILED" => r.state \in Failed

(* Its payment did not verify, or the lock was refused to the commit that  *)
(* would have said it did.                                                 *)
Unverified(r) ==
  \/ denied
  \/ ledger[r.tx] \in {"failed", "short"}
  \/ ledger[r.tx] = "extraLeg" /\ r.sel = "USDC"

(* What it says of the ledger and of the topic. *)
Truthful(r) ==
  /\ r.failure = "CONCLUSIVELY_FAILED" => r.pay # None /\ Dead(r.pay)
  /\ r.state = "PAYMENT_CONFIRMED" \/ r.reserved => VerifyMirrorPayment(r.sel, r.tx)
  /\ r.state = "CONFIRMATION_FAILED" => Unverified(r)
  /\ r.hcs = "PUBLISHED" => topic = 1

RecordOk(r) == r \in Record /\ Valid(r) /\ Early(r) /\ Truthful(r)

(* What a call that holds the stored record r knows of it. *)
Knows(k, r) ==
  /\ k.pc \in {"selectUsdc", "selectHbar"} => r.state = "OFFER_CREATED"
  /\ k.pc = "selectUsdc" => "USDC" \in Option
  /\ k.pc = "selectHbar" => "HBAR" \in Option
  /\ k.pc = "challenge" => r.sel # None /\ ~r.chal
  /\ k.pc = "start" => r.state = "PAYMENT_CHALLENGE_ISSUED"
  /\ k.pc = "verify" => r.state = "PAYMENT_SUBMISSION_STARTED"
  /\ k.pc = "claim" => r.state = "FACILITATOR_VERIFIED"
  /\ k.pc \in {"settle", "settling"} =>
       r.state = "FACILITATOR_SETTLE_CLAIMED" /\ r.claim = k.t
  /\ k.pc = "open" => r.state = "FACILITATOR_SETTLED"
  /\ k.pc = "confirm" => /\ r.state \in {"MIRROR_CONFIRMATION_PENDING", "PAYMENT_CONFIRMED"}
                         /\ VerifyMirrorPayment(r.sel, r.tx)
  /\ k.pc = "mfail" =>
       /\ r.state \in {"MIRROR_CONFIRMATION_PENDING", "CONFIRMATION_FAILED"}
       /\ Unverified(r)
  /\ k.pc = "timeout" =>
       r.state \in {"MIRROR_CONFIRMATION_PENDING", "CONFIRMATION_TIMED_OUT"}
  /\ k.pc = "reserve" => r.state = "PAYMENT_CONFIRMED"
  /\ k.pc = "hclaim" => r.hcs = "none"
  /\ k.pc = "lookup" =>
       /\ r.state \in {"FACILITATOR_SETTLE_CLAIMED", "PAYMENT_SUBMISSION_STARTED",
                       "FACILITATOR_VERIFIED"}
       /\ r.pay = k.t
  /\ k.pc = "retry" => r.state = "CONFIRMATION_TIMED_OUT"
  /\ k.pc = "script" => ~r.reserved /\ r.pay = k.t
  /\ k.pc = "replace" => r.failure = "CONCLUSIVELY_FAILED"

(* What is so of a call whatever has been written since it read. *)
Holds(k) ==
  /\ k.pc # "idle" => rec # None
  /\ k.pc \in PaymentSteps => k.t \in Tx
  /\ k.pc \in ReservedSteps => rec.reserved
  /\ k.pc = "settle" /\ window[k.t] # "past" => rec.claim = k.t /\ settles[k.t] = 0
  /\ k.pc = "publish" => rec.hcs # "none" /\ publishes = 0
  /\ k.pc = "hpub" => topic = 1

(* The transaction of the record is the only one that can still be taken, *)
(* or has been.                                                           *)
OnePayment ==
  \A t \in Tx : ledger[t] # "absent" \/ (t \in sent /\ window[t] # "past") =>
                  rec # None /\ rec.pay = t

(* A transaction that can still be taken is settled under its claim only. *)
Claimed ==
  \A t \in Tx : settles[t] > 0 /\ window[t] # "past" => rec # None /\ rec.claim = t

Published == publishes > 0 => rec # None /\ rec.hcs # "none"

(* A lookup after the window has the last word. *)
Closed == \A t \in Tx : window[t] = "past" => ledger[t] # "landed"

(* The claims of the record give each call that cannot be undone to one    *)
(* invocation.                                                             *)
Exclusive ==
  \A v, w \in Worker :
    /\ wk[v].pc = "settle" /\ wk[w].pc = "settle" /\ wk[v].t = wk[w].t
         /\ window[wk[w].t] # "past" => v = w
    /\ wk[v].pc = "publish" /\ wk[w].pc = "publish" => v = w

IInv ==
  /\ Typed /\ OnePayment /\ Claimed /\ Published /\ Closed /\ Exclusive
  /\ rec # None => RecordOk(rec)
  /\ \A w \in Worker : Holds(wk[w]) /\ (wk[w].fresh => Knows(wk[w], rec))

-----------------------------------------------------------------------------
(* A step of one invocation *)

(* The other invocations are where they were, and hold the stored record   *)
(* only if they did and it is still the one.                               *)
Frame(w) ==
  /\ wk' \in [Worker -> Invocation]
  /\ \A v \in Worker \ {w} :
       /\ wk'[v].pc = wk[v].pc /\ wk'[v].t = wk[v].t
       /\ wk'[v].fresh => wk[v].fresh /\ rec' = rec

(* What a step of w must satisfy for the invariant to hold again. *)
LEMMA StepOf ==
  ASSUME IInv, rec # None, NEW w \in Worker, Frame(w), RecordOk(rec)',
         UNCHANGED <<ledger, window, settles, publishes, topic>>, denied => denied',
         sent' \subseteq Tx, OnePayment',
         \/ rec'.claim = rec.claim \/ rec.claim = None
         \/ window[rec.claim] = "past",
         rec.hcs # "none" => rec'.hcs # "none", rec.reserved => rec'.reserved,
         Holds(wk[w])', wk'[w].fresh => Knows(wk[w], rec)',
         wk'[w].pc = "settle" => rec.claim = None,
         wk'[w].pc = "publish" => rec.hcs = "none"
  PROVE  IInv'
<1>0. rec' # None /\ Typed'
  BY NoRecordAssumption DEF RecordOk, IInv, Typed, Frame
<1>1. ASSUME NEW t \in Tx, window[t] # "past", rec.claim = t
      PROVE  rec'.claim = t
  BY <1>1, ReservationAssumption
<1>2. Claimed' /\ Published' /\ Closed'
  BY <1>0, <1>1 DEF IInv, Claimed, Published, Closed
<1>3. ASSUME NEW v \in Worker \ {w}
      PROVE  /\ wk'[v].pc = wk[v].pc /\ wk'[v].t = wk[v].t
             /\ Holds(wk[v])' /\ (wk'[v].fresh => Knows(wk[v], rec)')
             /\ wk[v].pc = "settle" /\ window[wk[v].t] # "past" =>
                  wk[v].t \in Tx /\ rec.claim = wk[v].t
             /\ wk[v].pc = "publish" => rec.hcs # "none"
  <2>1. /\ wk'[v].pc = wk[v].pc /\ wk'[v].t = wk[v].t
        /\ Holds(wk[v]) /\ (wk[v].fresh => Knows(wk[v], rec))
        /\ wk'[v].fresh => wk[v].fresh /\ rec' = rec
    BY DEF Frame, IInv
  <2>2. Holds(wk[v])'
    BY <1>0, <1>1, <2>1 DEF Holds, PaymentSteps, ReservedSteps
  <2>3. wk'[v].fresh => Knows(wk[v], rec)'
    BY <2>1 DEF Knows, VerifyMirrorPayment, VerifyHbar, VerifyUsdc, Unverified
  <2> QED BY <2>1, <2>2, <2>3 DEF Holds, PaymentSteps
<1>4. Exclusive'
  <2> SUFFICES ASSUME NEW u \in Worker, NEW v \in Worker, u # v
               PROVE  /\ ~(/\ wk'[u].pc = "settle" /\ wk'[v].pc = "settle"
                           /\ wk'[u].t = wk'[v].t /\ window'[wk'[v].t] # "past")
                      /\ ~(wk'[u].pc = "publish" /\ wk'[v].pc = "publish")
    BY DEF Exclusive
  <2>1. CASE u # w /\ v # w
    BY <1>3, <2>1 DEF IInv, Exclusive
  <2>2. CASE u = w \/ v = w
    BY <1>3, <2>2, ReservationAssumption
  <2> QED BY <2>1, <2>2
<1>5. \A v \in Worker : Holds(wk[v])' /\ (wk'[v].fresh => Knows(wk[v], rec)')
  BY <1>3
<1> QED BY <1>0, <1>2, <1>4, <1>5 DEF IInv

(* An invocation that is over. *)
LEMMA IdleFields == Idle \in Invocation /\ Idle.pc = "idle" /\ ~Idle.fresh
BY DEF Idle, Invocation, Steps, HcsStates

(* Where an invocation goes with the stored record in hand. *)
LEMMA AtFields ==
  ASSUME wk \in [Worker -> Invocation], NEW w \in Worker, NEW pc \in Steps
  PROVE  /\ At(w, pc) \in Invocation /\ At(w, pc).pc = pc /\ At(w, pc).t = wk[w].t
         /\ At(w, pc).full = wk[w].full /\ At(w, pc).hs = wk[w].hs
<1>1. wk[w] \in Invocation
  OBVIOUS
<1> QED BY <1>1 DEF At, Invocation

(* Where it begins. *)
LEMMA BeginFields ==
  ASSUME NEW w \in Worker, NEW pc \in Steps, NEW t \in Tx \cup {None}
  PROVE  Begin(w, t, pc) \in Invocation /\ Begin(w, t, pc).pc = pc /\ Begin(w, t, pc).t = t
BY IdleFields DEF Begin, Invocation

(* Going on with the record as it is. *)
LEMMA Went ==
  ASSUME wk \in [Worker -> Invocation], NEW w \in Worker, NEW k \in Invocation, Go(w, k)
  PROVE  Frame(w) /\ wk'[w] = k /\ rec' = rec
BY DEF Go, Frame

(* Writing the record. *)
LEMMA Wrote ==
  ASSUME wk \in [Worker -> Invocation], NEW w \in Worker, NEW k \in Invocation, NEW next,
         Write(w, next, k)
  PROVE  Frame(w) /\ wk'[w] = k /\ rec' = next
<1>1. \A v \in Worker : [wk[v] EXCEPT !.fresh = FALSE] \in Invocation
  BY DEF Invocation
<1>2. /\ rec' = next
      /\ wk' = [v \in Worker |-> IF v = w THEN k ELSE [wk[v] EXCEPT !.fresh = FALSE]]
  BY DEF Write
<1>3. \A v \in Worker : wk[v] \in Invocation
  OBVIOUS
<1>4. \A v \in Worker \ {w} : /\ wk'[v] = [wk[v] EXCEPT !.fresh = FALSE]
                              /\ wk'[v].pc = wk[v].pc /\ wk'[v].t = wk[v].t /\ ~wk'[v].fresh
  BY <1>2, <1>3 DEF Invocation
<1> QED BY <1>1, <1>2, <1>4 DEF Frame

(* What an invocation may go on as, with record r, where it has not won a  *)
(* claim.                                                                  *)
GoesOn(k, r) ==
  /\ k \in Invocation /\ k.pc \notin {"settle", "publish", "hpub"}
  /\ k.pc \in PaymentSteps => k.t \in Tx
  /\ k.pc \in ReservedSteps => r.reserved
  /\ Knows(k, r)

(* Over, it may go on with any record. *)
LEMMA IdleGoesOn == \A r : GoesOn(Idle, r)
BY IdleFields DEF GoesOn, Knows, PaymentSteps, ReservedSteps

(* A step that reads, or that loses the record to another. *)
LEMMA GoStep ==
  ASSUME IInv, rec # None, NEW w \in Worker, NEW k, Go(w, k), GoesOn(k, rec),
         UNCHANGED <<sent, ledger, window, settles, publishes, topic, denied>>
  PROVE  IInv'
<1>1. Frame(w) /\ wk'[w] = k /\ rec' = rec
  BY Went DEF IInv, Typed, GoesOn
<1>2. RecordOk(rec)' /\ OnePayment' /\ sent' \subseteq Tx
  BY <1>1 DEF IInv, RecordOk, Truthful, Dead, OnePayment, Typed, VerifyMirrorPayment,
     VerifyHbar, VerifyUsdc, Unverified
<1>3. Holds(wk[w])'
  BY <1>1 DEF GoesOn, Holds
<1>4. Knows(wk[w], rec)'
  BY <1>1 DEF GoesOn, Knows, VerifyMirrorPayment, VerifyHbar, VerifyUsdc, Unverified
<1> QED BY <1>1, <1>2, <1>3, <1>4, StepOf DEF GoesOn

(* A next record that leaves the payment and the claims alone. *)
Keeps(next) ==
  /\ next \in Record /\ Early(next) /\ Truthful(next)
  /\ next.pay = rec.pay /\ next.claim = rec.claim
  /\ (rec.hcs # "none" => next.hcs # "none") /\ (rec.reserved => next.reserved)

(* A commit of such a record. *)
LEMMA CommitStep ==
  ASSUME IInv, rec # None, NEW w \in Worker, NEW next, NEW k, Commit(w, next, k),
         UNCHANGED <<sent, ledger, window, settles, publishes, topic, denied>>,
         wk[w].fresh /\ Valid(next) => Keeps(next) /\ GoesOn(k, next)
  PROVE  IInv'
<1>1. CASE wk[w].fresh /\ Valid(next)
  <2>1. Write(w, next, k) /\ k \in Invocation
    BY <1>1 DEF Commit, GoesOn
  <2>2. Frame(w) /\ wk'[w] = k /\ rec' = next
    BY <2>1, Wrote DEF IInv, Typed
  <2>3. RecordOk(rec)'
    BY <1>1, <2>2 DEF Keeps, RecordOk, Truthful, Dead, VerifyMirrorPayment, VerifyHbar, VerifyUsdc, Unverified
  <2>4. rec' # None
    BY <2>3, NoRecordAssumption DEF RecordOk
  <2>5. OnePayment' /\ sent' \subseteq Tx
    BY <1>1, <2>2, <2>4 DEF Keeps, IInv, OnePayment, Typed
  <2>6. Holds(wk[w])'
    BY <1>1, <2>2, <2>4 DEF GoesOn, Holds
  <2>7. Knows(wk[w], rec)'
    BY <1>1, <2>2 DEF GoesOn, Knows, VerifyMirrorPayment, VerifyHbar, VerifyUsdc, Unverified
  <2> QED BY <1>1, <2>2, <2>3, <2>5, <2>6, <2>7, StepOf DEF Keeps, GoesOn
<1>2. CASE ~(wk[w].fresh /\ Valid(next))
  <2>1. Go(w, Idle)
    BY <1>2 DEF Commit
  <2> QED BY <2>1, IdleGoesOn, GoStep
<1> QED BY <1>1, <1>2

(* The same, where a conflict goes on with the latest record. *)
LEMMA CommitOrConflictStep ==
  ASSUME IInv, rec # None, NEW w \in Worker, NEW next, NEW k, NEW onConflict,
         CommitOrConflict(w, next, k, onConflict),
         UNCHANGED <<sent, ledger, window, settles, publishes, topic, denied>>,
         wk[w].fresh /\ Valid(next) => Keeps(next) /\ GoesOn(k, next),
         ~wk[w].fresh => GoesOn(onConflict, rec)
  PROVE  IInv'
<1>1. CASE wk[w].fresh
  <2>1. Commit(w, next, k)
    BY <1>1 DEF CommitOrConflict
  <2> QED BY <2>1, CommitStep
<1>2. CASE ~wk[w].fresh
  <2>1. Go(w, onConflict)
    BY <1>2 DEF CommitOrConflict
  <2> QED BY <1>2, <2>1, GoStep
<1> QED BY <1>1, <1>2

-----------------------------------------------------------------------------
(* The steps up to the settlement *)

(* An invocation that is under way has a record, and knows what it says if *)
(* nobody has written since it was read.                                   *)
LEMMA UnderWay ==
  ASSUME IInv, NEW w \in Worker, wk[w].pc # "idle"
  PROVE  /\ rec # None /\ rec \in Record /\ Valid(rec) /\ Early(rec) /\ Truthful(rec)
         /\ wk \in [Worker -> Invocation] /\ wk[w] \in Invocation
         /\ wk[w].pc \in PaymentSteps => wk[w].t \in Tx
         /\ wk[w].pc \in ReservedSteps => rec.reserved
         /\ wk[w].fresh => Knows(wk[w], rec)
BY DEF IInv, Typed, Holds, RecordOk

(* One that begins has a record too. *)
LEMMA Beginning ==
  ASSUME IInv, NEW w \in Worker, Reads(w)
  PROVE  /\ rec # None /\ rec \in Record /\ Valid(rec) /\ Early(rec) /\ Truthful(rec)
         /\ wk \in [Worker -> Invocation]
BY DEF IInv, Typed, RecordOk, Reads

(* selectOption reads the record. *)
LEMMA SelectReadStep ==
  ASSUME IInv, NEW w \in Worker, NEW o \in Option, SelectRead(w, o)
  PROVE  IInv'
<1> DEFINE pc == IF o = "USDC" THEN "selectUsdc" ELSE "selectHbar"
<1>1. /\ Reads(w) /\ rec.state = "OFFER_CREATED" /\ Go(w, Begin(w, None, pc))
      /\ UNCHANGED world /\ pc \in {"selectUsdc", "selectHbar"}
      /\ (pc = "selectUsdc" => "USDC" \in Option) /\ (pc = "selectHbar" => "HBAR" \in Option)
  BY ReservationAssumption DEF SelectRead
<1> HIDE DEF pc
<1>2. GoesOn(Begin(w, None, pc), rec)
  BY <1>1, BeginFields DEF GoesOn, Knows, Steps, PaymentSteps, ReservedSteps
<1> QED BY <1>1, <1>2, Beginning, GoStep DEF world

(* It writes the option to a record nobody has moved since. *)
LEMMA SelectCommitStep ==
  ASSUME IInv, NEW w \in Worker, SelectCommit(w)
  PROVE  IInv'
<1> DEFINE o == IF wk[w].pc = "selectUsdc" THEN "USDC" ELSE "HBAR"
           next == [rec EXCEPT !.sel = o, !.state = "OPTION_SELECTED"]
<1>1. wk[w].pc \in {"selectUsdc", "selectHbar"} /\ Commit(w, next, Idle) /\ UNCHANGED world
  BY DEF SelectCommit
<1>2. /\ rec # None /\ rec \in Record /\ Valid(rec) /\ Early(rec) /\ Truthful(rec)
      /\ wk[w].fresh => rec.state = "OFFER_CREATED" /\ o \in Option
  BY <1>1, UnderWay DEF Knows
<1> HIDE DEF o
<1>3. ASSUME wk[w].fresh, Valid(next) PROVE Keeps(next)
  <2>1. /\ next \in Record /\ next.state = "OPTION_SELECTED"
        /\ next.pay = rec.pay /\ next.claim = rec.claim /\ next.tx = rec.tx
        /\ next.chal = rec.chal /\ next.failure = rec.failure /\ next.hcs = rec.hcs
        /\ next.reserved = rec.reserved
    <3>1. rec \in Record /\ o \in Option
      BY <1>2, <1>3
    <3> QED BY <3>1 DEF Record, State
  <2> HIDE DEF next
  <2> QED BY <1>2, <1>3, <2>1 DEF Keeps, Early, Truthful, Unpaid, Unclaimed, Failed, Valid,
        ValidReservation, PostReservation
<1> HIDE DEF next
<1> QED BY <1>1, <1>2, <1>3, IdleGoesOn, CommitStep DEF world

(* issueChallenge reads a selection without a challenge. *)
LEMMA ChallengeReadStep ==
  ASSUME IInv, NEW w \in Worker, ChallengeRead(w)
  PROVE  IInv'
<1>1. /\ Reads(w) /\ rec.sel # None /\ ~rec.chal /\ Go(w, Begin(w, None, "challenge"))
      /\ UNCHANGED world
  BY DEF ChallengeRead
<1>2. GoesOn(Begin(w, None, "challenge"), rec)
  BY <1>1, BeginFields DEF GoesOn, Knows, Steps, PaymentSteps, ReservedSteps
<1> QED BY <1>1, <1>2, Beginning, GoStep DEF world

(* It writes the challenge once. *)
LEMMA ChallengeCommitStep ==
  ASSUME IInv, NEW w \in Worker, ChallengeCommit(w)
  PROVE  IInv'
<1> DEFINE next == [rec EXCEPT !.chal = TRUE, !.state = "PAYMENT_CHALLENGE_ISSUED"]
<1>1. wk[w].pc = "challenge" /\ CommitOrConflict(w, next, Idle, Idle) /\ UNCHANGED world
  BY DEF ChallengeCommit
<1>2. /\ rec # None /\ rec \in Record /\ Valid(rec) /\ Early(rec) /\ Truthful(rec)
      /\ wk[w].fresh => rec.state \in {"OFFER_CREATED", "OPTION_SELECTED"}
  BY <1>1, UnderWay DEF Knows, Early
<1>3. ASSUME wk[w].fresh, Valid(next) PROVE Keeps(next)
  <2>1. /\ next \in Record /\ next.state = "PAYMENT_CHALLENGE_ISSUED"
        /\ next.pay = rec.pay /\ next.claim = rec.claim /\ next.tx = rec.tx
        /\ next.chal /\ next.failure = rec.failure /\ next.hcs = rec.hcs
        /\ next.reserved = rec.reserved
    BY <1>2 DEF Record, State
  <2> HIDE DEF next
  <2> QED BY <1>2, <1>3, <2>1 DEF Keeps, Early, Truthful, Unpaid, Unclaimed, Failed, Valid,
        ValidReservation, PostReservation
<1> HIDE DEF next
<1> QED BY <1>1, <1>2, <1>3, IdleGoesOn, CommitOrConflictStep DEF world

(* submitPayment, with the payload the record is about or before there is one. *)
LEMMA SubmitReadStep ==
  ASSUME IInv, NEW w \in Worker, NEW t \in Tx, SubmitRead(w, t)
  PROVE  IInv'
<1>0. /\ rec # None /\ rec \in Record /\ Valid(rec) /\ Early(rec) /\ Truthful(rec)
      /\ wk \in [Worker -> Invocation]
  BY Beginning DEF SubmitRead
<1>1. ASSUME NEW pc \in {"start", "claim", "open", "loop"}, Go(w, Begin(w, t, pc)),
             pc = "start" => rec.state = "PAYMENT_CHALLENGE_ISSUED",
             pc = "claim" => rec.state = "FACILITATOR_VERIFIED",
             pc = "open" => rec.state = "FACILITATOR_SETTLED", UNCHANGED sent
      PROVE  IInv'
  <2>1. GoesOn(Begin(w, t, pc), rec)
    BY <1>1, BeginFields DEF GoesOn, Knows, Steps, PaymentSteps, ReservedSteps
  <2> QED BY <1>0, <1>1, <2>1, GoStep DEF SubmitRead
<1>2. CASE /\ rec.state = "PAYMENT_CHALLENGE_ISSUED" /\ Go(w, Begin(w, t, "start"))
           /\ UNCHANGED sent
  BY <1>1, <1>2
<1>3. CASE /\ rec.state = "PAYMENT_SUBMISSION_STARTED" /\ rec.pay = t
           /\ Go(w, Begin(w, t, "verify")) /\ Transmit(t)
  <2>1. /\ Begin(w, t, "verify") \in Invocation /\ Begin(w, t, "verify").pc = "verify"
        /\ Begin(w, t, "verify").t = t
    BY BeginFields DEF Steps, PaymentSteps
  <2>2. Frame(w) /\ wk'[w] = Begin(w, t, "verify") /\ rec' = rec
    BY <1>0, <1>3, <2>1, Went
  <2>3. sent' \subseteq Tx /\ OnePayment' /\ UNCHANGED <<ledger, window, settles, publishes, topic, denied>>
    BY <1>0, <1>3, <2>2 DEF SubmitRead, Transmit, IInv, Typed, OnePayment
  <2>4. RecordOk(rec)'
    BY <1>0, <2>2, <2>3 DEF RecordOk, Truthful, Dead, VerifyMirrorPayment, VerifyHbar, VerifyUsdc, Unverified
  <2>5. Holds(wk[w])' /\ Knows(wk[w], rec)'
    BY <1>0, <1>3, <2>1, <2>2 DEF Holds, Knows, ReservedSteps
  <2> QED BY <1>0, <2>1, <2>2, <2>3, <2>4, <2>5, StepOf
<1>4. CASE /\ rec.state = "FACILITATOR_VERIFIED" /\ Go(w, Begin(w, t, "claim"))
           /\ UNCHANGED sent
  BY <1>1, <1>4
<1>5. CASE /\ rec.state \in {"FACILITATOR_SETTLED", "MIRROR_CONFIRMATION_PENDING"}
           /\ Go(w, Begin(w, t, IF rec.state = "FACILITATOR_SETTLED" THEN "open" ELSE "loop"))
           /\ UNCHANGED sent
  BY <1>1, <1>5
<1> QED BY <1>2, <1>3, <1>4, <1>5 DEF SubmitRead

(* The payload is recorded before it is handed over, and no earlier one can land. *)
LEMMA StartCommitStep ==
  ASSUME IInv, NEW w \in Worker, StartCommit(w)
  PROVE  IInv'
<1> DEFINE t == wk[w].t
           next == [rec EXCEPT !.pay = t, !.state = "PAYMENT_SUBMISSION_STARTED"]
<1>1. /\ wk[w].pc = "start" /\ CommitOrConflict(w, next, At(w, "verify"), Idle)
      /\ IF wk[w].fresh THEN Transmit(t) ELSE UNCHANGED sent
      /\ UNCHANGED <<ledger, window, settles, publishes, topic, denied>>
  BY DEF StartCommit
<1>2. /\ rec # None /\ rec \in Record /\ Valid(rec) /\ Early(rec) /\ Truthful(rec)
      /\ wk \in [Worker -> Invocation] /\ t \in Tx /\ t # None
      /\ wk[w].fresh => rec.state = "PAYMENT_CHALLENGE_ISSUED"
  BY <1>1, UnderWay, ReservationAssumption DEF Knows, PaymentSteps
<1> HIDE DEF t
<1>3. /\ next \in Record /\ next.state = "PAYMENT_SUBMISSION_STARTED" /\ next.pay = t
      /\ next.claim = rec.claim /\ next.tx = rec.tx /\ next.chal = rec.chal
      /\ next.sel = rec.sel /\ next.failure = rec.failure /\ next.hcs = rec.hcs
      /\ next.reserved = rec.reserved /\ next.events = rec.events
  <2>1. rec \in Record /\ t \in Tx
    BY <1>2
  <2> QED BY <2>1 DEF Record, State
<1> HIDE DEF next
<1>4. CASE ~wk[w].fresh
  BY <1>1, <1>2, <1>4, IdleGoesOn, GoStep DEF CommitOrConflict
<1>5. CASE wk[w].fresh
  <2>1. /\ rec.state = "PAYMENT_CHALLENGE_ISSUED" /\ rec.pay = None /\ rec.claim = None
        /\ rec.tx = None /\ ~rec.reserved /\ rec.sel # None /\ rec.chal
        /\ ~rec.events /\ rec.hcs = "none" /\ rec.failure # "CONCLUSIVELY_FAILED"
    BY <1>2, <1>5 DEF Early, Unpaid, Unclaimed, Failed, Valid, ValidReservation, ValidOutbox,
       ValidSelection, PostReservation, RequiresChallenge
  <2>2. Valid(next)
    BY <1>2, <1>3, <2>1 DEF Valid, ValidSelection, ValidPayment, ValidClaim, ValidSettlement,
       ValidReservation, ValidOutbox, RequiresChallenge, RequiresPayload, RequiresVerifyOk,
       RequiresSettleClaim, RequiresSettledTx, RequiresMirrorPoll, RequiresMirrorSuccess,
       PostReservation
  <2>3. Write(w, next, At(w, "verify")) /\ sent' = sent \cup {t}
    BY <1>1, <1>5, <2>2 DEF CommitOrConflict, Commit, Transmit
  <2>4. /\ At(w, "verify") \in Invocation /\ At(w, "verify").pc = "verify"
        /\ At(w, "verify").t = t
    BY <1>2, AtFields DEF Steps, PaymentSteps, t
  <2>5. Frame(w) /\ wk'[w] = At(w, "verify") /\ rec' = next
    BY <1>2, <2>3, <2>4, Wrote
  <2>6. Early(next) /\ Truthful(next)
    BY <1>3, <2>1 DEF Early, Truthful, Unpaid, Unclaimed
  <2>7. RecordOk(rec)' /\ rec' # None
    BY <1>1, <1>3, <2>2, <2>5, <2>6, NoRecordAssumption
    DEF RecordOk, Truthful, Dead, VerifyMirrorPayment, VerifyHbar, VerifyUsdc, Unverified
  <2>8. \A u \in Tx : ledger[u] = "absent" /\ ~(u \in sent /\ window[u] # "past")
    BY <2>1, ReservationAssumption DEF IInv, OnePayment
  <2>9. OnePayment' /\ sent' \subseteq Tx
    BY <1>1, <1>2, <1>3, <2>3, <2>5, <2>7, <2>8 DEF IInv, OnePayment, Typed
  <2>10. Holds(wk[w])' /\ Knows(wk[w], rec)'
    BY <1>2, <1>3, <2>4, <2>5, <2>7 DEF Holds, Knows, ReservedSteps
  <2>11. rec'.claim = rec.claim /\ rec.hcs = "none" /\ ~rec.reserved /\ wk'[w].pc = "verify"
    BY <1>3, <2>1, <2>4, <2>5
  <2> QED BY <1>1, <1>2, <2>5, <2>7, <2>9, <2>10, <2>11, StepOf
<1> QED BY <1>4, <1>5

(* The facilitator has verified the payload, or not. *)
LEMMA VerifyReturnStep ==
  ASSUME IInv, NEW w \in Worker, VerifyReturn(w)
  PROVE  IInv'
<1> DEFINE ok == [rec EXCEPT !.verify = "ok", !.state = "FACILITATOR_VERIFIED"]
           bad == [rec EXCEPT !.verify = "bad", !.failure = "other",
                              !.state = "PAYMENT_REJECTED"]
<1>1. /\ wk[w].pc = "verify" /\ UNCHANGED world
      /\ CommitOrConflict(w, ok, At(w, "claim"), Idle) \/ Commit(w, bad, Idle)
  BY DEF VerifyReturn
<1>2. /\ rec # None /\ rec \in Record /\ Valid(rec) /\ Early(rec) /\ Truthful(rec)
      /\ wk \in [Worker -> Invocation] /\ wk[w].t \in Tx
      /\ wk[w].fresh => rec.state = "PAYMENT_SUBMISSION_STARTED"
  BY <1>1, UnderWay DEF Knows, PaymentSteps
<1>3. ASSUME wk[w].fresh PROVE Keeps(ok) /\ GoesOn(At(w, "claim"), ok)
  <2>1. /\ ok \in Record /\ ok.state = "FACILITATOR_VERIFIED" /\ ok.pay = rec.pay
        /\ ok.claim = rec.claim /\ ok.tx = rec.tx /\ ok.chal = rec.chal
        /\ ok.failure = rec.failure /\ ok.hcs = rec.hcs /\ ok.reserved = rec.reserved
    BY <1>2 DEF Record, State
  <2> HIDE DEF ok
  <2>2. Keeps(ok)
    BY <1>2, <1>3, <2>1 DEF Keeps, Early, Truthful, Unpaid, Unclaimed, Failed, Valid,
       ValidReservation, PostReservation
  <2>3. GoesOn(At(w, "claim"), ok)
    BY <1>2, <2>1, AtFields DEF GoesOn, Knows, Steps, PaymentSteps, ReservedSteps
  <2> QED BY <2>2, <2>3
<1>4. ASSUME wk[w].fresh PROVE Keeps(bad)
  <2>1. /\ bad \in Record /\ bad.state = "PAYMENT_REJECTED" /\ bad.pay = rec.pay
        /\ bad.claim = rec.claim /\ bad.tx = rec.tx /\ bad.chal = rec.chal
        /\ bad.failure = "other" /\ bad.hcs = rec.hcs /\ bad.reserved = rec.reserved
    <3>1. rec \in Record
      BY <1>2
    <3>2. "PAYMENT_REJECTED" \in State
      BY DEF State, PaymentFailure
    <3> QED BY ZenonT(60), <3>1, <3>2 DEF Record
  <2> HIDE DEF bad
  <2> QED BY <1>2, <1>4, <2>1 DEF Keeps, Early, Truthful, Unpaid, Unclaimed, Failed, Valid,
        ValidReservation, PostReservation
<1> HIDE DEF ok, bad
<1>5. CASE CommitOrConflict(w, ok, At(w, "claim"), Idle)
  BY <1>1, <1>2, <1>3, <1>5, IdleGoesOn, CommitOrConflictStep DEF world
<1>6. CASE Commit(w, bad, Idle)
  BY <1>1, <1>2, <1>4, <1>6, IdleGoesOn, CommitStep DEF world
<1> QED BY <1>1, <1>5, <1>6

(* The claim gives the settlement of the payment to this invocation. *)
LEMMA ClaimCommitStep ==
  ASSUME IInv, NEW w \in Worker, ClaimCommit(w)
  PROVE  IInv'
<1> DEFINE t == wk[w].t
           next == [rec EXCEPT !.claim = t, !.state = "FACILITATOR_SETTLE_CLAIMED"]
<1>1. /\ wk[w].pc = "claim" /\ CommitOrConflict(w, next, At(w, "settle"), Idle)
      /\ UNCHANGED world
  BY DEF ClaimCommit
<1>2. /\ rec # None /\ rec \in Record /\ Valid(rec) /\ Early(rec) /\ Truthful(rec)
      /\ wk \in [Worker -> Invocation] /\ t \in Tx /\ t # None
      /\ wk[w].fresh => rec.state = "FACILITATOR_VERIFIED"
  BY <1>1, UnderWay, ReservationAssumption DEF Knows, PaymentSteps
<1> HIDE DEF t
<1>3. /\ next \in Record /\ next.state = "FACILITATOR_SETTLE_CLAIMED" /\ next.pay = rec.pay
      /\ next.claim = t /\ next.tx = rec.tx /\ next.chal = rec.chal
      /\ next.failure = rec.failure /\ next.hcs = rec.hcs /\ next.reserved = rec.reserved
  <2>1. rec \in Record /\ t \in Tx
    BY <1>2
  <2> QED BY <2>1 DEF Record, State
<1> HIDE DEF next
<1>4. CASE ~(wk[w].fresh /\ Valid(next))
  BY <1>1, <1>2, <1>4, IdleGoesOn, GoStep DEF CommitOrConflict, Commit, world
<1>5. CASE wk[w].fresh /\ Valid(next)
  <2>1. rec.claim = None /\ ~rec.reserved /\ rec.hcs = "none" /\ rec.chal
        /\ rec.failure # "CONCLUSIVELY_FAILED"
    BY <1>2, <1>5 DEF Early, Unclaimed, Failed, Valid, ValidReservation, ValidOutbox,
       ValidSelection, RequiresChallenge, RequiresPayload, RequiresVerifyOk, PostReservation
  <2>2. Write(w, next, At(w, "settle"))
    BY <1>1, <1>5 DEF CommitOrConflict, Commit
  <2>3. /\ At(w, "settle") \in Invocation /\ At(w, "settle").pc = "settle"
        /\ At(w, "settle").t = t
    BY <1>2, AtFields DEF Steps, PaymentSteps, t
  <2>4. Frame(w) /\ wk'[w] = At(w, "settle") /\ rec' = next
    BY <1>2, <2>2, <2>3, Wrote
  <2>5. Early(next) /\ Truthful(next)
    BY <1>3, <2>1 DEF Early, Truthful, Unpaid, Unclaimed
  <2>6. RecordOk(rec)' /\ rec' # None
    BY <1>1, <1>3, <1>5, <2>4, <2>5, NoRecordAssumption
    DEF RecordOk, Truthful, Dead, VerifyMirrorPayment, VerifyHbar, VerifyUsdc, world
  <2>7. OnePayment' /\ sent' \subseteq Tx
    BY <1>1, <1>3, <2>4, <2>6 DEF IInv, OnePayment, Typed, world
  <2>8. window[t] # "past" => settles[t] = 0
    BY <1>2, <2>1 DEF IInv, Claimed, Typed
  <2>9. Holds(wk[w])' /\ Knows(wk[w], rec)'
    BY <1>1, <1>2, <1>3, <2>3, <2>4, <2>6, <2>8 DEF Holds, Knows, ReservedSteps, world
  <2>10. UNCHANGED <<ledger, window, settles, publishes, topic, denied>> /\ wk'[w].pc = "settle"
    BY <1>1, <2>3, <2>4 DEF world
  <2> QED BY <1>2, <2>1, <2>4, <2>6, <2>7, <2>9, <2>10, StepOf
<1> QED BY <1>4, <1>5

(* It is made once while the payment can still be taken. *)
LEMMA SettleCallStep ==
  ASSUME IInv, NEW w \in Worker, SettleCall(w)
  PROVE  IInv'
<1> DEFINE t == wk[w].t
<1>1. /\ wk[w].pc = "settle" /\ sent' = sent \cup {t}
      /\ settles' = [settles EXCEPT ![t] = IF window[t] = "past" THEN @ ELSE @ + 1]
      /\ wk' = [wk EXCEPT ![w].pc = "settling"]
      /\ UNCHANGED <<rec, ledger, window, publishes, topic, denied>>
  BY DEF SettleCall, Transmit
<1>2. /\ rec # None /\ rec \in Record /\ Valid(rec) /\ RecordOk(rec)
      /\ wk \in [Worker -> Invocation] /\ wk[w] \in Invocation /\ t \in Tx /\ t # None
      /\ wk[w].fresh => Knows(wk[w], rec)
      /\ window[t] # "past" => rec.claim = t /\ rec.pay = t /\ settles[t] = 0
      /\ settles \in [Tx -> 0..1]
  BY <1>1, UnderWay, ReservationAssumption
  DEF PaymentSteps, IInv, Typed, Holds, RecordOk, Valid, ValidClaim
<1>3. /\ wk' = [wk EXCEPT ![w] = wk'[w]] /\ wk'[w] = [wk[w] EXCEPT !.pc = "settling"]
      /\ wk[w] \in Invocation
  BY <1>1, <1>2
<1>4. /\ wk'[w] \in Invocation /\ wk'[w].pc = "settling" /\ wk'[w].t = t
      /\ wk'[w].fresh = wk[w].fresh
  BY <1>3 DEF Invocation, Steps, PaymentSteps
<1>5. wk' \in [Worker -> Invocation] /\ \A v \in Worker \ {w} : wk'[v] = wk[v]
  BY <1>2, <1>3, <1>4
<1> HIDE DEF t
<1>6. /\ settles' \in [Tx -> 0..1] /\ \A u \in Tx : u # t => settles'[u] = settles[u]
      /\ window[t] = "past" => settles' = settles
  BY <1>1, <1>2
<1>7. Typed'
  BY <1>1, <1>2, <1>5, <1>6 DEF IInv, Typed
<1>8. OnePayment' /\ Claimed' /\ Published' /\ Closed'
  BY <1>1, <1>2, <1>6 DEF IInv, OnePayment, Claimed, Published, Closed
<1>9. Exclusive'
  <2>1. \A v \in Worker : wk'[v].pc \in {"settle", "publish"} =>
            v # w /\ wk'[v].pc = wk[v].pc /\ wk'[v].t = wk[v].t
    BY <1>4, <1>5
  <2> QED BY <1>1, <2>1 DEF IInv, Exclusive
<1>10. RecordOk(rec)'
  BY <1>1, <1>2 DEF RecordOk, Truthful, Dead, VerifyMirrorPayment, VerifyHbar, VerifyUsdc, Unverified
<1>11. ASSUME NEW v \in Worker
       PROVE  Holds(wk[v])' /\ (wk'[v].fresh => Knows(wk[v], rec)')
  <2>1. CASE v = w
    <3>1. wk[w].fresh => rec.state = "FACILITATOR_SETTLE_CLAIMED" /\ rec.claim = t
      BY <1>1, <1>2 DEF Knows, t
    <3> QED BY <1>1, <1>2, <1>4, <2>1, <3>1 DEF Holds, Knows, ReservedSteps, PaymentSteps
  <2>2. CASE v # w
    <3>1. wk'[v] = wk[v] /\ Holds(wk[v]) /\ (wk[v].fresh => Knows(wk[v], rec))
      BY <1>5, <2>2 DEF IInv
    <3>2. wk[v].pc = "settle" /\ window[wk[v].t] # "past" => wk[v].t # t
      BY <1>1, <2>2 DEF IInv, Exclusive, t
    <3>3. Holds(wk[v])'
      BY <1>1, <1>6, <3>1, <3>2 DEF Holds, PaymentSteps
    <3>4. wk'[v].fresh => Knows(wk[v], rec)'
      BY <1>1, <3>1 DEF Knows, VerifyMirrorPayment, VerifyHbar, VerifyUsdc, Unverified
    <3> QED BY <3>3, <3>4
  <2> QED BY <2>1, <2>2
<1> QED BY <1>7, <1>8, <1>9, <1>10, <1>11 DEF IInv

(* Fail writes the state and the failure code and nothing else. *)
LEMMA FailFields ==
  ASSUME NEW r \in Record, NEW s \in State, NEW code \in {"none", "CONCLUSIVELY_FAILED", "other"}
  PROVE  /\ Fail(r, s, code) \in Record
         /\ Fail(r, s, code).state = s /\ Fail(r, s, code).failure = code
         /\ Fail(r, s, code).sel = r.sel /\ Fail(r, s, code).pay = r.pay
         /\ Fail(r, s, code).claim = r.claim /\ Fail(r, s, code).tx = r.tx
         /\ Fail(r, s, code).chal = r.chal /\ Fail(r, s, code).hcs = r.hcs
         /\ Fail(r, s, code).reserved = r.reserved
BY ZenonT(60) DEF Fail, Record

(* A failure of a payment that was handed over, whatever the reason, says  *)
(* nothing false of it if it does not call it conclusive.                  *)
LEMMA FailKeeps ==
  ASSUME rec \in Record, Valid(rec), Early(rec), Truthful(rec),
         NEW r \in Record, NEW s \in {"SETTLEMENT_FAILED", "PAYMENT_REJECTED",
           "MANUAL_REVIEW_REQUIRED", "CONFIRMATION_TIMED_OUT", "MIRROR_CONFIRMATION_PENDING"},
         NEW code \in {"none", "other"},
         r.pay = rec.pay, r.claim = rec.claim, r.chal = rec.chal, r.hcs = rec.hcs,
         Valid(Fail(r, s, code)), rec.state \notin Unpaid \cup PostReservation,
         s = "PAYMENT_REJECTED" => rec.claim = None /\ r.tx = None
  PROVE  Keeps(Fail(r, s, code))
<1> DEFINE next == Fail(r, s, code)
<1>1. s \in State /\ code \in {"none", "CONCLUSIVELY_FAILED", "other"}
  BY DEF State, PaymentFailure
<1>2. /\ next \in Record /\ next.state = s /\ next.failure = code
      /\ next.pay = rec.pay /\ next.claim = rec.claim /\ next.tx = r.tx
      /\ next.chal = rec.chal /\ next.hcs = rec.hcs /\ next.reserved = r.reserved
  BY SMTT(30), <1>1, FailFields
<1>3. Valid(next)
  OBVIOUS
<1> HIDE DEF next
<1>4. ~next.reserved /\ next.hcs # "PUBLISHED" /\ ~rec.reserved
  BY <1>2, <1>3 DEF Valid, ValidReservation, ValidOutbox, PostReservation
<1>5. Keeps(next)
  BY <1>2, <1>4 DEF Keeps, Early, Truthful, Unpaid, Unclaimed, Failed
<1> QED BY <1>5 DEF next

(* The facilitator answers: no answer makes the record call the payment dead. *)
LEMMA SettleReturnStep ==
  ASSUME IInv, NEW w \in Worker, SettleReturn(w)
  PROVE  IInv'
<1> DEFINE t == wk[w].t
           bad == [rec EXCEPT !.settle = "bad"]
           ok == [rec EXCEPT !.settle = "ok"]
           next == [rec EXCEPT !.settle = "ok", !.tx = t, !.state = "FACILITATOR_SETTLED"]
<1>1. /\ wk[w].pc = "settling" /\ UNCHANGED world
      /\ \/ Commit(w, Fail(bad, "SETTLEMENT_FAILED", "other"), Idle)
         \/ Commit(w, Fail(ok, "MANUAL_REVIEW_REQUIRED", "other"), Idle)
         \/ Commit(w, Fail(ok, "SETTLEMENT_FAILED", "other"), Idle)
         \/ Commit(w, next, At(w, "open"))
  BY DEF SettleReturn
<1>2. /\ rec # None /\ rec \in Record /\ Valid(rec) /\ Early(rec) /\ Truthful(rec)
      /\ wk \in [Worker -> Invocation] /\ t \in Tx
      /\ wk[w].fresh => rec.state = "FACILITATOR_SETTLE_CLAIMED" /\ rec.claim = t
  BY <1>1, UnderWay DEF Knows, PaymentSteps
<1>3. /\ bad \in Record /\ bad.pay = rec.pay /\ bad.claim = rec.claim /\ bad.chal = rec.chal
      /\ bad.hcs = rec.hcs
  BY <1>2 DEF Record
<1>4. /\ ok \in Record /\ ok.pay = rec.pay /\ ok.claim = rec.claim /\ ok.chal = rec.chal
      /\ ok.hcs = rec.hcs
  BY <1>2 DEF Record
<1> HIDE DEF t
<1>5. /\ next \in Record /\ next.state = "FACILITATOR_SETTLED" /\ next.pay = rec.pay
      /\ next.claim = rec.claim /\ next.chal = rec.chal /\ next.failure = rec.failure
      /\ next.hcs = rec.hcs /\ next.reserved = rec.reserved
  <2>1. rec \in Record /\ t \in Tx /\ "FACILITATOR_SETTLED" \in State
    BY <1>2 DEF State
  <2> QED BY <2>1 DEF Record
<1>6. ASSUME wk[w].fresh
      PROVE  /\ rec.state \notin Unpaid \cup PostReservation /\ rec.chal /\ ~rec.reserved
             /\ rec.hcs = "none" /\ rec.failure # "CONCLUSIVELY_FAILED"
  BY <1>2, <1>6 DEF Early, Unpaid, Unclaimed, Failed, Valid, ValidReservation, ValidOutbox,
     ValidSelection, RequiresChallenge, RequiresPayload, RequiresVerifyOk, RequiresSettleClaim,
     PostReservation
<1> HIDE DEF bad, ok, next
<1>7. CASE Commit(w, next, At(w, "open"))
  <2>1. ASSUME wk[w].fresh PROVE Keeps(next) /\ GoesOn(At(w, "open"), next)
    <3>1. Keeps(next)
      BY <1>2, <1>5, <1>6, <2>1 DEF Keeps, Early, Truthful, Unpaid, Unclaimed
    <3>2. GoesOn(At(w, "open"), next)
      BY <1>2, <1>5, AtFields DEF GoesOn, Knows, Steps, PaymentSteps, ReservedSteps, t
    <3> QED BY <3>1, <3>2
  <2> QED BY <1>1, <1>2, <1>7, <2>1, CommitStep DEF world
<1>8. ASSUME NEW r \in {bad, ok}, NEW s \in {"SETTLEMENT_FAILED", "MANUAL_REVIEW_REQUIRED"},
             Commit(w, Fail(r, s, "other"), Idle)
      PROVE  IInv'
  <2>1. wk[w].fresh /\ Valid(Fail(r, s, "other")) => Keeps(Fail(r, s, "other"))
    BY <1>2, <1>3, <1>4, <1>6, FailKeeps
  <2> QED BY <1>1, <1>2, <1>8, <2>1, IdleGoesOn, CommitStep DEF world
<1> QED BY <1>1, <1>7, <1>8

-----------------------------------------------------------------------------
(* The steps of the confirmation *)

(* The states the confirmation moves on from. *)
LEMMA LegalStates ==
  ASSUME NEW s \in State
  PROVE  /\ Legal(s, "PAYMENT_CONFIRMED") =>
              s \in {"MIRROR_CONFIRMATION_PENDING", "PAYMENT_CONFIRMED"}
         /\ Legal(s, "CONFIRMATION_FAILED") =>
              s \in {"MIRROR_CONFIRMATION_PENDING", "CONFIRMATION_FAILED"}
         /\ Legal(s, "CONFIRMATION_TIMED_OUT") =>
              s \in {"MIRROR_CONFIRMATION_PENDING", "CONFIRMATION_TIMED_OUT"}
BY DEF Legal, LegalFrom, State, PostReservation, PaymentFailure

(* A record with a transaction is about its payment. *)
LEMMA TransactionIsPayment ==
  ASSUME NEW r \in Record, Valid(r), r.state \in RequiresSettledTx
  PROVE  r.tx \in Tx /\ r.tx = r.pay /\ r.claim = r.pay
BY DEF Record, Valid, ValidPayment, ValidClaim, ValidSettlement, RequiresPayload,
   RequiresVerifyOk, RequiresSettleClaim

(* The record of a payment that goes on, neither confirmed nor failed. *)
LEMMA MoveKeeps ==
  ASSUME rec \in Record, Valid(rec), Early(rec), rec.state \notin Unpaid \cup PostReservation,
         NEW next \in Record, Valid(next), next.state \in {"FACILITATOR_SETTLED",
           "MIRROR_CONFIRMATION_PENDING"},
         next.pay = rec.pay, next.claim = rec.claim, next.chal = rec.chal, next.hcs = rec.hcs,
         next.failure # "CONCLUSIVELY_FAILED"
  PROVE  Keeps(next)
<1>1. ~next.reserved /\ next.hcs # "PUBLISHED" /\ ~rec.reserved
  BY DEF Valid, ValidReservation, ValidOutbox, PostReservation
<1> QED BY <1>1 DEF Keeps, Early, Truthful, Unpaid, Unclaimed, Failed

(* The confirmation begins, or goes on for whoever began it. *)
LEMMA MirrorOpenStep ==
  ASSUME IInv, NEW w \in Worker, MirrorOpen(w)
  PROVE  IInv'
<1> DEFINE next == [rec EXCEPT !.poll = TRUE, !.state = "MIRROR_CONFIRMATION_PENDING"]
<1>1. /\ wk[w].pc = "open" /\ CommitOrConflict(w, next, At(w, "loop"), At(w, "loop"))
      /\ UNCHANGED <<sent, ledger, window, settles, publishes, topic, denied>>
  BY DEF MirrorOpen
<1>2. /\ rec # None /\ rec \in Record /\ Valid(rec) /\ Early(rec)
      /\ wk \in [Worker -> Invocation] /\ wk[w].t \in Tx
      /\ wk[w].fresh => rec.state = "FACILITATOR_SETTLED"
  BY <1>1, UnderWay DEF Knows, PaymentSteps
<1>3. /\ next \in Record /\ next.state = "MIRROR_CONFIRMATION_PENDING" /\ next.pay = rec.pay
      /\ next.claim = rec.claim /\ next.chal = rec.chal /\ next.failure = rec.failure
      /\ next.hcs = rec.hcs
  <2>1. rec \in Record /\ "MIRROR_CONFIRMATION_PENDING" \in State
    BY <1>2 DEF State
  <2> QED BY <2>1 DEF Record
<1> HIDE DEF next
<1>4. wk[w].fresh => /\ rec.state \notin Unpaid \cup PostReservation
                     /\ rec.failure # "CONCLUSIVELY_FAILED"
  BY <1>2 DEF Unpaid, Early, Failed, PostReservation
<1>5. wk[w].fresh /\ Valid(next) => Keeps(next)
  BY <1>2, <1>3, <1>4, MoveKeeps
<1>6. \A r : GoesOn(At(w, "loop"), r)
  BY <1>2, AtFields DEF GoesOn, Knows, Steps, PaymentSteps, ReservedSteps
<1> QED BY <1>1, <1>2, <1>5, <1>6, CommitOrConflictStep

(* The head of the polling loop. *)
LEMMA LoopReadStep ==
  ASSUME IInv, NEW w \in Worker, LoopRead(w)
  PROVE  IInv'
<1>1. wk[w].pc = "loop" /\ (Go(w, At(w, "poll")) \/ Go(w, Idle)) /\ UNCHANGED world
  BY DEF LoopRead
<1>2. rec # None /\ wk \in [Worker -> Invocation] /\ wk[w].t \in Tx
  BY <1>1, UnderWay DEF PaymentSteps
<1>3. GoesOn(At(w, "poll"), rec)
  BY <1>2, AtFields DEF GoesOn, Knows, Steps, PaymentSteps, ReservedSteps
<1> QED BY <1>1, <1>2, <1>3, IdleGoesOn, GoStep DEF world

(* What a poll concludes is so of the record it goes on with. *)
LEMMA AfterPollGoesOn ==
  ASSUME IInv, NEW w \in Worker, wk[w].pc = "poll", rec # None,
         NEW r \in Record, Valid(r), Truthful(r), r.pay = rec.pay,
         NEW s \in {MirrorStatus(wk[w].t), "TRANSPORT_ERROR"}
  PROVE  GoesOn(AfterPoll(w, r, s), r)
<1> DEFINE t == wk[w].t
<1>1. wk \in [Worker -> Invocation] /\ t \in Tx /\ rec \in Record
      /\ ledger \in [Tx -> LedgerStates]
  BY UnderWay DEF PaymentSteps, IInv, Typed
<1>2. r.state \in State
  BY DEF Record
<1>3. ASSUME ledger[t] # "absent", r.state \in RequiresSettledTx PROVE r.tx = t
  <2>1. rec.pay = t
    BY <1>1, <1>3 DEF IInv, OnePayment
  <2>2. r.tx = r.pay
    BY <1>3, TransactionIsPayment
  <2> QED BY <2>1, <2>2
<1>4. /\ s = "FAILED" => ledger[t] = "failed"
      /\ s = "SUCCESS" => ledger[t] \in OnLedger
      /\ s \in {"SUCCESS", "FAILED", "NOT_FOUND", "TRANSPORT_ERROR"}
  BY DEF MirrorStatus, t
<1> HIDE DEF t
<1>5. \A pc \in Steps : /\ At(w, pc) \in Invocation /\ At(w, pc).pc = pc /\ At(w, pc).t = t
  BY <1>1, AtFields DEF t
<1>6. GoesOn(Idle, r) /\ GoesOn(At(w, "loop"), r)
  BY <1>1, <1>5, IdleGoesOn DEF GoesOn, Knows, Steps, PaymentSteps, ReservedSteps
<1>7. ASSUME Legal(r.state, "CONFIRMATION_TIMED_OUT") PROVE GoesOn(At(w, "timeout"), r)
  BY <1>1, <1>2, <1>5, <1>7, LegalStates DEF GoesOn, Knows, Steps, PaymentSteps, ReservedSteps
<1>8. ASSUME Legal(r.state, "CONFIRMATION_FAILED"), s \in {"SUCCESS", "FAILED"},
             s = "SUCCESS" => \/ ~VerifyMirrorPayment(r.sel, t)
                              \/ ~Legal(r.state, "PAYMENT_CONFIRMED")
      PROVE  GoesOn(At(w, "mfail"), r)
  <2>1. r.state \in {"MIRROR_CONFIRMATION_PENDING", "CONFIRMATION_FAILED"}
    BY <1>2, <1>8, LegalStates
  <2>2. r.tx = t
    BY <1>3, <1>4, <1>8, <2>1 DEF RequiresSettledTx, RequiresMirrorPoll, OnLedger
  <2>3. Legal("MIRROR_CONFIRMATION_PENDING", "PAYMENT_CONFIRMED")
    BY DEF Legal, LegalFrom
  <2>4. r.sel \in {"USDC", "HBAR"}
    BY <2>1, ReservationAssumption
    DEF Record, Valid, ValidSelection, RequiresChallenge, RequiresPayload, RequiresVerifyOk,
        RequiresSettleClaim, RequiresSettledTx, RequiresMirrorPoll
  <2>5. Unverified(r)
    BY <1>4, <1>8, <2>1, <2>2, <2>3, <2>4
    DEF OnLedger, VerifyMirrorPayment, VerifyHbar, VerifyUsdc, Truthful, Unverified
  <2> QED BY <1>1, <1>5, <2>1, <2>5 DEF GoesOn, Knows, Steps, PaymentSteps, ReservedSteps
<1>9. ASSUME Legal(r.state, "PAYMENT_CONFIRMED"), s = "SUCCESS", VerifyMirrorPayment(r.sel, t)
      PROVE  GoesOn(At(w, "confirm"), r)
  <2>1. r.state \in {"MIRROR_CONFIRMATION_PENDING", "PAYMENT_CONFIRMED"}
    BY <1>2, <1>9, LegalStates
  <2>2. r.tx = t
    BY <1>3, <1>4, <1>9, <2>1 DEF RequiresSettledTx, RequiresMirrorPoll, RequiresMirrorSuccess,
       OnLedger
  <2> QED BY <1>1, <1>5, <1>9, <2>1, <2>2 DEF GoesOn, Knows, Steps, PaymentSteps, ReservedSteps
<1>10. CASE s = "FAILED"
  BY <1>6, <1>8, <1>10 DEF AfterPoll
<1>11. CASE s = "SUCCESS"
  BY <1>6, <1>8, <1>9, <1>11 DEF AfterPoll, t
<1>12. CASE s \in {"NOT_FOUND", "TRANSPORT_ERROR"}
  BY <1>6, <1>7, <1>12 DEF AfterPoll
<1> QED BY <1>4, <1>10, <1>11, <1>12

(* One poll of the Mirror. *)
LEMMA PollReturnStep ==
  ASSUME IInv, NEW w \in Worker, PollReturn(w)
  PROVE  IInv'
<1>1. PICK s \in {MirrorStatus(wk[w].t), "TRANSPORT_ERROR"} :
        LET m == IF s = "SUCCESS" THEN "SUCCESS" ELSE "other"
            next == IF s = "TRANSPORT_ERROR" THEN rec ELSE [rec EXCEPT !.mirror = m]
        IN  CommitOrConflict(w, next, AfterPoll(w, next, s), AfterPoll(w, rec, s))
  BY DEF PollReturn
<1> DEFINE m == IF s = "SUCCESS" THEN "SUCCESS" ELSE "other"
           next == IF s = "TRANSPORT_ERROR" THEN rec ELSE [rec EXCEPT !.mirror = m]
<1>2. /\ CommitOrConflict(w, next, AfterPoll(w, next, s), AfterPoll(w, rec, s))
      /\ wk[w].pc = "poll" /\ UNCHANGED world
  BY <1>1 DEF PollReturn
<1>3. rec # None /\ rec \in Record /\ Valid(rec) /\ Early(rec) /\ Truthful(rec)
  BY <1>2, UnderWay
<1>4. m \in {"SUCCESS", "other"}
  OBVIOUS
<1> HIDE DEF m
<1>5. /\ next \in Record /\ next.state = rec.state /\ next.sel = rec.sel /\ next.pay = rec.pay
      /\ next.claim = rec.claim /\ next.tx = rec.tx /\ next.chal = rec.chal
      /\ next.failure = rec.failure /\ next.hcs = rec.hcs /\ next.reserved = rec.reserved
  <2>1. rec \in Record
    BY <1>3
  <2> QED BY <1>4, <2>1 DEF Record
<1> HIDE DEF next
<1>6. Keeps(next)
  BY <1>3, <1>5 DEF Keeps, Early, Truthful, Unverified
<1>7. Valid(next) => GoesOn(AfterPoll(w, next, s), next)
  BY <1>2, <1>3, <1>5, <1>6, AfterPollGoesOn DEF Keeps
<1>8. GoesOn(AfterPoll(w, rec, s), rec)
  BY <1>2, <1>3, AfterPollGoesOn
<1> QED BY <1>2, <1>3, <1>6, <1>7, <1>8, CommitOrConflictStep DEF world

(* PAYMENT_CONFIRMED is written over a payment that verified. *)
LEMMA ConfirmCommitStep ==
  ASSUME IInv, NEW w \in Worker, ConfirmCommit(w)
  PROVE  IInv'
<1> DEFINE next == [rec EXCEPT !.mirror = "SUCCESS", !.state = "PAYMENT_CONFIRMED"]
<1>1. /\ wk[w].pc = "confirm" /\ Commit(w, next, At(w, "reserve")) /\ UNCHANGED world
  BY DEF ConfirmCommit
<1>2. /\ rec # None /\ rec \in Record /\ Valid(rec) /\ Early(rec) /\ Truthful(rec)
      /\ wk \in [Worker -> Invocation] /\ wk[w].t \in Tx
      /\ wk[w].fresh => /\ rec.state \in {"MIRROR_CONFIRMATION_PENDING", "PAYMENT_CONFIRMED"}
                        /\ VerifyMirrorPayment(rec.sel, rec.tx)
  BY <1>1, UnderWay DEF Knows, PaymentSteps
<1>3. /\ next \in Record /\ next.state = "PAYMENT_CONFIRMED" /\ next.pay = rec.pay
      /\ next.claim = rec.claim /\ next.tx = rec.tx /\ next.chal = rec.chal
      /\ next.sel = rec.sel /\ next.failure = rec.failure /\ next.hcs = rec.hcs
  <2>1. rec \in Record /\ "PAYMENT_CONFIRMED" \in State
    BY <1>2 DEF State
  <2> QED BY <2>1 DEF Record
<1> HIDE DEF next
<1>4. ASSUME wk[w].fresh, Valid(next) PROVE Keeps(next) /\ GoesOn(At(w, "reserve"), next)
  <2>1. ~next.reserved /\ next.hcs = "none" /\ rec.chal /\ ~rec.reserved
    BY <1>2, <1>3, <1>4 DEF Valid, ValidReservation, ValidOutbox, PostReservation, Early
  <2>2. Keeps(next)
    BY <1>2, <1>3, <1>4, <2>1 DEF Keeps, Early, Truthful, Unpaid, Unclaimed, Failed
  <2>3. GoesOn(At(w, "reserve"), next)
    BY <1>2, <1>3, AtFields DEF GoesOn, Knows, Steps, PaymentSteps, ReservedSteps
  <2> QED BY <2>2, <2>3
<1> QED BY <1>1, <1>2, <1>4, CommitStep DEF world

(* The commit that is refused its lock. *)
LEMMA ConfirmDeniedStep ==
  ASSUME IInv, NEW w \in Worker, ConfirmDenied(w)
  PROVE  IInv'
<1> DEFINE legal == Legal(rec.state, "CONFIRMATION_FAILED")
           k == IF legal THEN [wk[w] EXCEPT !.pc = "mfail"] ELSE Idle
<1>1. /\ wk[w].pc = "confirm" /\ denied' /\ wk' = [wk EXCEPT ![w] = k]
      /\ UNCHANGED <<rec, sent, ledger, window, settles, publishes, topic>>
  BY DEF ConfirmDenied
<1>2. /\ rec # None /\ RecordOk(rec) /\ wk \in [Worker -> Invocation] /\ wk[w] \in Invocation
      /\ wk[w].t \in Tx /\ (wk[w].fresh => Knows(wk[w], rec))
  BY <1>1, UnderWay DEF IInv, PaymentSteps
<1>3. /\ k \in Invocation /\ k.pc \in {"mfail", "idle"}
      /\ k.pc = "mfail" => k.t = wk[w].t /\ legal
  BY <1>2, IdleFields DEF Invocation, Steps, PaymentSteps
<1>4. legal => rec.state \in {"MIRROR_CONFIRMATION_PENDING", "CONFIRMATION_FAILED"}
  BY <1>2, LegalStates DEF RecordOk, Record
<1> HIDE DEF k, legal
<1>5. Frame(w) /\ wk'[w] = k
  BY <1>1, <1>2, <1>3 DEF Frame
<1>6. RecordOk(rec)' /\ OnePayment' /\ sent' \subseteq Tx
  BY <1>1, <1>2 DEF IInv, RecordOk, Truthful, Dead, OnePayment, Typed, VerifyMirrorPayment,
     VerifyHbar, VerifyUsdc, Unverified
<1>7. Holds(wk[w])'
  BY <1>1, <1>2, <1>3, <1>5 DEF Holds, ReservedSteps, PaymentSteps
<1>8. Knows(wk[w], rec)'
  BY <1>1, <1>3, <1>4, <1>5 DEF Knows, Unverified
<1> QED BY <1>1, <1>2, <1>3, <1>5, <1>6, <1>7, <1>8, StepOf

(* CONFIRMATION_FAILED is written over one that did not. *)
LEMMA ConfirmationFailedStep ==
  ASSUME IInv, NEW w \in Worker, ConfirmationFailed(w)
  PROVE  IInv'
<1> DEFINE next == Fail(rec, "CONFIRMATION_FAILED", "other")
<1>1. wk[w].pc = "mfail" /\ Commit(w, next, Idle) /\ UNCHANGED world
  BY DEF ConfirmationFailed
<1>2. /\ rec # None /\ rec \in Record /\ Valid(rec) /\ Early(rec) /\ Truthful(rec)
      /\ wk[w].fresh =>
           /\ rec.state \in {"MIRROR_CONFIRMATION_PENDING", "CONFIRMATION_FAILED"}
           /\ Unverified(rec)
  BY <1>1, UnderWay DEF Knows
<1>3. /\ next \in Record /\ next.state = "CONFIRMATION_FAILED" /\ next.failure = "other"
      /\ next.pay = rec.pay /\ next.claim = rec.claim /\ next.tx = rec.tx
      /\ next.chal = rec.chal /\ next.hcs = rec.hcs /\ next.sel = rec.sel
  <2>1. rec \in Record /\ "CONFIRMATION_FAILED" \in State
    BY <1>2 DEF State, PaymentFailure
  <2> QED BY <2>1, FailFields
<1> HIDE DEF next
<1>4. ASSUME wk[w].fresh, Valid(next) PROVE Keeps(next)
  <2>1. ~next.reserved /\ next.hcs = "none" /\ rec.chal /\ ~rec.reserved
    BY <1>2, <1>3, <1>4 DEF Valid, ValidReservation, ValidOutbox, PostReservation, Early
  <2> QED BY <1>2, <1>3, <1>4, <2>1
          DEF Keeps, Early, Truthful, Unverified, Unpaid, Unclaimed, Failed
<1> QED BY <1>1, <1>2, <1>4, IdleGoesOn, CommitStep DEF world

(* The deadline leaves the payment undecided. *)
LEMMA TimeoutCommitStep ==
  ASSUME IInv, NEW w \in Worker, TimeoutCommit(w)
  PROVE  IInv'
<1> DEFINE next == Fail(rec, "CONFIRMATION_TIMED_OUT", "other")
<1>1. wk[w].pc = "timeout" /\ Commit(w, next, Idle) /\ UNCHANGED world
  BY DEF TimeoutCommit
<1>2. /\ rec # None /\ rec \in Record /\ Valid(rec) /\ Early(rec) /\ Truthful(rec)
      /\ wk[w].fresh => rec.state \notin Unpaid \cup PostReservation
  BY <1>1, UnderWay DEF Knows, Unpaid, PostReservation
<1>3. wk[w].fresh /\ Valid(next) => Keeps(next)
  BY <1>2, FailKeeps
<1> QED BY <1>1, <1>2, <1>3, IdleGoesOn, CommitStep DEF world

(* The route is reserved for a confirmed payment. *)
LEMMA ReserveCommitStep ==
  ASSUME IInv, NEW w \in Worker, ReserveCommit(w)
  PROVE  IInv'
<1> DEFINE next == [rec EXCEPT !.reserved = TRUE, !.state = "ROUTE_RESERVED"]
           k == [At(w, "events") EXCEPT !.full = TRUE]
<1>1. wk[w].pc = "reserve" /\ Commit(w, next, k) /\ UNCHANGED world
  BY DEF ReserveCommit
<1>2. /\ rec # None /\ rec \in Record /\ Valid(rec) /\ Early(rec) /\ Truthful(rec)
      /\ wk \in [Worker -> Invocation] /\ (wk[w].fresh => rec.state = "PAYMENT_CONFIRMED")
  BY <1>1, UnderWay DEF Knows
<1>3. /\ next \in Record /\ next.state = "ROUTE_RESERVED" /\ next.pay = rec.pay
      /\ next.claim = rec.claim /\ next.tx = rec.tx /\ next.chal = rec.chal
      /\ next.sel = rec.sel /\ next.failure = rec.failure /\ next.hcs = rec.hcs
      /\ next.reserved
  <2>1. rec \in Record /\ "ROUTE_RESERVED" \in State
    BY <1>2 DEF State, PostReservation
  <2> QED BY <2>1 DEF Record
<1>4. k \in Invocation /\ k.pc = "events"
  <2>1. At(w, "events") \in Invocation /\ At(w, "events").pc = "events"
    BY <1>2, AtFields DEF Steps, ReservedSteps
  <2> QED BY <2>1 DEF Invocation
<1> HIDE DEF next, k
<1>5. ASSUME wk[w].fresh, Valid(next) PROVE Keeps(next) /\ GoesOn(k, next)
  <2>1. rec.chal /\ VerifyMirrorPayment(rec.sel, rec.tx) /\ rec.failure # "CONCLUSIVELY_FAILED"
    BY <1>2, <1>5 DEF Early, Truthful, Failed
  <2>2. Keeps(next)
    BY <1>2, <1>3, <2>1 DEF Keeps, Early, Truthful, Unpaid, Unclaimed
  <2>3. GoesOn(k, next)
    BY <1>3, <1>4 DEF GoesOn, Knows, PaymentSteps, ReservedSteps
  <2> QED BY <2>2, <2>3
<1> QED BY <1>1, <1>2, <1>5, CommitStep DEF world

-----------------------------------------------------------------------------
(* Resuming, reconciling and replacing *)

(* Where a resumed payment goes is where its record says. *)
LEMMA ResumeGoesOn ==
  ASSUME rec \in Record, Valid(rec), NEW w \in Worker
  PROVE  GoesOn(ResumeAs(w, ResumePc(rec)), rec)
<1>1. ASSUME NEW pc \in {"lookup", "retry", "open", "loop"}, rec.state \in RequiresPayload,
             pc = "lookup" => rec.state = "FACILITATOR_SETTLE_CLAIMED",
             pc = "retry" => rec.state = "CONFIRMATION_TIMED_OUT",
             pc = "open" => rec.state = "FACILITATOR_SETTLED"
      PROVE  GoesOn(Begin(w, rec.pay, pc), rec)
  <2>1. rec.pay \in Tx
    BY <1>1 DEF Record, Valid, ValidPayment
  <2> QED BY <1>1, <2>1, BeginFields DEF GoesOn, Knows, Steps, PaymentSteps, ReservedSteps
<1>2. CASE ResumePc(rec) = "idle"
  BY <1>2, IdleGoesOn DEF ResumeAs
<1>3. CASE ResumePc(rec) # "idle"
  <2>1. /\ ResumePc(rec) \in {"lookup", "retry", "open", "loop"}
        /\ ResumePc(rec) = "lookup" => rec.state = "FACILITATOR_SETTLE_CLAIMED"
        /\ ResumePc(rec) = "retry" => rec.state = "CONFIRMATION_TIMED_OUT"
        /\ ResumePc(rec) = "open" => rec.state = "FACILITATOR_SETTLED"
        /\ ResumePc(rec) = "loop" => rec.state = "MIRROR_CONFIRMATION_PENDING"
    BY <1>3 DEF ResumePc
  <2>2. rec.state \in RequiresPayload
    BY <2>1 DEF RequiresPayload, RequiresVerifyOk, RequiresSettleClaim, RequiresSettledTx,
       RequiresMirrorPoll
  <2> QED BY <1>1, <1>3, <2>1, <2>2 DEF ResumeAs
<1> QED BY <1>2, <1>3

(* resumePaymentConfirmation, as a call and after an adoption. *)
LEMMA ResumeStep ==
  ASSUME IInv, NEW w \in Worker, ResumeRead(w) \/ ResumeAgain(w)
  PROVE  IInv'
<1>1. Go(w, ResumeAs(w, ResumePc(rec))) /\ UNCHANGED world
  BY DEF ResumeRead, ResumeAgain
<1>2. rec # None /\ rec \in Record /\ Valid(rec)
  BY Beginning, UnderWay DEF ResumeRead, ResumeAgain
<1> QED BY <1>1, <1>2, ResumeGoesOn, GoStep DEF world

(* reconcilePayment of a payload without a settle claim. *)
LEMMA ReconcileReadStep ==
  ASSUME IInv, NEW w \in Worker, ReconcileRead(w)
  PROVE  IInv'
<1>1. /\ Reads(w) /\ rec.state \in {"PAYMENT_SUBMISSION_STARTED", "FACILITATOR_VERIFIED"}
      /\ Go(w, Begin(w, rec.pay, "lookup")) /\ UNCHANGED world
  BY DEF ReconcileRead
<1>2. rec # None /\ rec.pay \in Tx
  BY <1>1, Beginning DEF Record, Valid, ValidPayment, RequiresPayload, RequiresVerifyOk
<1>3. GoesOn(Begin(w, rec.pay, "lookup"), rec)
  BY <1>1, <1>2, BeginFields DEF GoesOn, Knows, Steps, PaymentSteps, ReservedSteps
<1> QED BY <1>1, <1>2, <1>3, GoStep DEF world

(* A timed-out confirmation gets a new deadline, or a review. *)
LEMMA RetryCommitStep ==
  ASSUME IInv, NEW w \in Worker, RetryCommit(w)
  PROVE  IInv'
<1> DEFINE again == Fail(rec, "MIRROR_CONFIRMATION_PENDING", "none")
           review == Fail(rec, "MANUAL_REVIEW_REQUIRED", "other")
<1>1. /\ wk[w].pc = "retry" /\ (Commit(w, again, At(w, "loop")) \/ Commit(w, review, Idle))
      /\ UNCHANGED <<sent, ledger, window, settles, publishes, topic, denied>>
  BY DEF RetryCommit
<1>2. /\ rec # None /\ rec \in Record /\ Valid(rec) /\ Early(rec) /\ Truthful(rec)
      /\ wk \in [Worker -> Invocation] /\ wk[w].t \in Tx
      /\ wk[w].fresh => rec.state \notin Unpaid \cup PostReservation
  BY <1>1, UnderWay DEF Knows, PaymentSteps, Unpaid, PostReservation
<1>3. /\ wk[w].fresh /\ Valid(again) => Keeps(again)
      /\ wk[w].fresh /\ Valid(review) => Keeps(review)
  BY <1>2, FailKeeps
<1>4. \A r : GoesOn(At(w, "loop"), r)
  BY <1>2, AtFields DEF GoesOn, Knows, Steps, PaymentSteps, ReservedSteps
<1> HIDE DEF again, review
<1> QED BY <1>1, <1>2, <1>3, <1>4, IdleGoesOn, CommitStep

(* Adopting a transaction that was found. *)
LEMMA AdoptKeeps ==
  ASSUME rec \in Record, Valid(rec), Early(rec), rec.state = "FACILITATOR_SETTLE_CLAIMED",
         Valid(Adopt(rec))
  PROVE  Keeps(Adopt(rec))
<1> DEFINE next == Adopt(rec)
<1>1. /\ next \in Record /\ next.state = "MIRROR_CONFIRMATION_PENDING" /\ next.pay = rec.pay
      /\ next.claim = rec.claim /\ next.chal = rec.chal /\ next.failure = rec.failure
      /\ next.hcs = rec.hcs
  <2>1. rec \in Record /\ "MIRROR_CONFIRMATION_PENDING" \in State
    BY DEF State
  <2>2. rec.claim \in Tx \cup {None}
    BY DEF Record
  <2> QED BY <2>1, <2>2 DEF Adopt, Record
<1>2. Valid(next)
  OBVIOUS
<1> HIDE DEF next
<1>3. rec.state \notin Unpaid \cup PostReservation /\ next.failure # "CONCLUSIVELY_FAILED"
  BY <1>1 DEF Unpaid, Early, Failed, PostReservation
<1>4. Keeps(next)
  BY <1>1, <1>2, <1>3, MoveKeeps
<1> QED BY <1>4 DEF next

(* A payment is called conclusively failed when it cannot land any more. *)
LEMMA ConclusiveKeeps ==
  ASSUME IInv, rec \in Record, Valid(rec), Early(rec), NEW t \in Tx, rec.pay = t, ~rec.reserved,
         MirrorStatus(t) = "NOT_FOUND", BoundaryElapsed(t),
         Valid(Fail(rec, FailureState(rec), "CONCLUSIVELY_FAILED"))
  PROVE  Keeps(Fail(rec, FailureState(rec), "CONCLUSIVELY_FAILED"))
<1> DEFINE s == FailureState(rec)
           next == Fail(rec, s, "CONCLUSIVELY_FAILED")
<1>1. s \in State /\ s \in Failed
      /\ (s = "PAYMENT_REJECTED" => rec.state = "PAYMENT_SUBMISSION_STARTED")
  BY DEF State, PaymentFailure, FailureState, Failed
<1> HIDE DEF s
<1>2. /\ next \in Record /\ next.state = s /\ next.failure = "CONCLUSIVELY_FAILED"
      /\ next.pay = rec.pay /\ next.claim = rec.claim /\ next.tx = rec.tx
      /\ next.chal = rec.chal /\ next.hcs = rec.hcs
  BY <1>1, FailFields
<1>3. Valid(next)
  BY DEF s
<1> HIDE DEF next
<1>4. t # None /\ Dead(t)
  BY ReservationAssumption
  DEF IInv, Closed, Typed, LedgerStates, MirrorStatus, BoundaryElapsed, Dead
<1>5. ~next.reserved /\ next.hcs = "none" /\ rec.chal
  BY <1>1, <1>2, <1>3, <1>4
  DEF Valid, ValidReservation, ValidOutbox, PostReservation, Early, Failed, Unpaid
<1>6. Keeps(next)
  BY <1>1, <1>2, <1>4, <1>5 DEF Keeps, Early, Truthful, Unpaid, Unclaimed, Failed
<1> QED BY <1>6 DEF next, s

(* What a lookup of the transaction concludes. *)
LEMMA LookupReturnStep ==
  ASSUME IInv, NEW w \in Worker, LookupReturn(w)
  PROVE  IInv'
<1> DEFINE t == wk[w].t
           m == IF rec.state = "FACILITATOR_SETTLE_CLAIMED" THEN "other" ELSE rec.mirror
           seen == [rec EXCEPT !.mirror = m]
<1>1. /\ wk[w].pc = "lookup"
      /\ UNCHANGED <<sent, ledger, window, settles, publishes, topic, denied>>
      /\ \/ /\ rec.state = "FACILITATOR_SETTLE_CLAIMED"
            /\ Commit(w, Adopt(rec), At(w, "resume"))
         \/ Commit(w, Fail(rec, "MANUAL_REVIEW_REQUIRED", "other"), Idle)
         \/ Commit(w, Fail(seen, FailureState(rec), "other"), Idle)
         \/ /\ MirrorStatus(t) = "NOT_FOUND" /\ BoundaryElapsed(t)
            /\ Commit(w, Fail(rec, FailureState(rec), "CONCLUSIVELY_FAILED"), Idle)
         \/ Go(w, Idle)
  BY DEF LookupReturn
<1>2. /\ rec # None /\ rec \in Record /\ Valid(rec) /\ Early(rec) /\ Truthful(rec)
      /\ wk \in [Worker -> Invocation] /\ t \in Tx
      /\ wk[w].fresh =>
           /\ rec.state \in {"FACILITATOR_SETTLE_CLAIMED", "PAYMENT_SUBMISSION_STARTED",
                             "FACILITATOR_VERIFIED"}
           /\ rec.pay = t
  BY <1>1, UnderWay DEF Knows, PaymentSteps
<1>3. wk[w].fresh => rec.state \notin Unpaid \cup PostReservation /\ ~rec.reserved
  BY <1>2 DEF Unpaid, PostReservation, Valid, ValidReservation
<1>4. /\ seen \in Record /\ seen.pay = rec.pay /\ seen.claim = rec.claim /\ seen.tx = rec.tx
      /\ seen.chal = rec.chal /\ seen.hcs = rec.hcs
  <2>1. rec \in Record
    BY <1>2
  <2>2. m \in {"none", "SUCCESS", "other"}
    BY <2>1 DEF Record
  <2> HIDE DEF m
  <2> QED BY <2>1, <2>2 DEF Record
<1> HIDE DEF t, m, seen
<1>5. CASE rec.state = "FACILITATOR_SETTLE_CLAIMED" /\ Commit(w, Adopt(rec), At(w, "resume"))
  <2>1. \A r : GoesOn(At(w, "resume"), r)
    BY <1>2, AtFields DEF GoesOn, Knows, Steps, PaymentSteps, ReservedSteps, t
  <2>2. Valid(Adopt(rec)) => Keeps(Adopt(rec))
    BY <1>2, <1>5, AdoptKeeps
  <2> QED BY <1>1, <1>2, <1>5, <2>1, <2>2, CommitStep
<1>6. CASE Commit(w, Fail(rec, "MANUAL_REVIEW_REQUIRED", "other"), Idle)
  <2>1. wk[w].fresh /\ Valid(Fail(rec, "MANUAL_REVIEW_REQUIRED", "other")) =>
          Keeps(Fail(rec, "MANUAL_REVIEW_REQUIRED", "other"))
    BY <1>2, <1>3, FailKeeps
  <2> QED BY <1>1, <1>2, <1>6, <2>1, IdleGoesOn, CommitStep
<1>7. CASE Commit(w, Fail(seen, FailureState(rec), "other"), Idle)
  <2>1. /\ FailureState(rec) \in {"SETTLEMENT_FAILED", "PAYMENT_REJECTED"}
        /\ FailureState(rec) = "PAYMENT_REJECTED" => rec.claim = None /\ rec.tx = None
    BY <1>2 DEF FailureState, Early, Unclaimed
  <2>2. wk[w].fresh /\ Valid(Fail(seen, FailureState(rec), "other")) =>
          Keeps(Fail(seen, FailureState(rec), "other"))
    BY <1>2, <1>3, <1>4, <2>1, FailKeeps
  <2> QED BY <1>1, <1>2, <1>7, <2>2, IdleGoesOn, CommitStep
<1>8. CASE /\ MirrorStatus(t) = "NOT_FOUND" /\ BoundaryElapsed(t)
           /\ Commit(w, Fail(rec, FailureState(rec), "CONCLUSIVELY_FAILED"), Idle)
  <2>1. wk[w].fresh /\ Valid(Fail(rec, FailureState(rec), "CONCLUSIVELY_FAILED")) =>
          Keeps(Fail(rec, FailureState(rec), "CONCLUSIVELY_FAILED"))
    BY <1>2, <1>3, <1>8, ConclusiveKeeps
  <2> QED BY <1>1, <1>2, <1>8, <2>1, IdleGoesOn, CommitStep
<1>9. CASE Go(w, Idle)
  BY <1>1, <1>2, <1>9, IdleGoesOn, GoStep
<1> QED BY <1>1, <1>5, <1>6, <1>7, <1>8, <1>9

(* reconcile-payment.ts reads a record with a payload. *)
LEMMA ScriptReadStep ==
  ASSUME IInv, NEW w \in Worker, ScriptRead(w)
  PROVE  IInv'
<1>1. /\ Reads(w) /\ ~rec.reserved /\ rec.pay # None /\ Go(w, Begin(w, rec.pay, "script"))
      /\ UNCHANGED world
  BY DEF ScriptRead
<1>2. rec # None /\ rec.pay \in Tx
  BY <1>1, Beginning DEF Record
<1>3. GoesOn(Begin(w, rec.pay, "script"), rec)
  BY <1>1, <1>2, BeginFields DEF GoesOn, Knows, Steps, PaymentSteps, ReservedSteps
<1> QED BY <1>1, <1>2, <1>3, GoStep DEF world

(* It writes what its lookup concludes. *)
LEMMA ScriptReturnStep ==
  ASSUME IInv, NEW w \in Worker, ScriptReturn(w)
  PROVE  IInv'
<1> DEFINE t == wk[w].t
<1>1. /\ wk[w].pc = "script"
      /\ UNCHANGED <<sent, ledger, window, settles, publishes, topic, denied>>
      /\ \/ /\ rec.state = "FACILITATOR_SETTLE_CLAIMED" /\ Commit(w, Adopt(rec), Idle)
         \/ Commit(w, Fail(rec, FailureState(rec), "other"), Idle)
         \/ /\ MirrorStatus(t) = "NOT_FOUND" /\ BoundaryElapsed(t)
            /\ Commit(w, Fail(rec, FailureState(rec), "CONCLUSIVELY_FAILED"), Idle)
         \/ Go(w, Idle)
  BY DEF ScriptReturn
<1>2. /\ rec # None /\ rec \in Record /\ Valid(rec) /\ Early(rec) /\ Truthful(rec)
      /\ t \in Tx /\ t # None /\ (wk[w].fresh => ~rec.reserved /\ rec.pay = t)
  BY <1>1, UnderWay, ReservationAssumption DEF Knows, PaymentSteps
<1>3. wk[w].fresh => rec.state \notin Unpaid \cup PostReservation
  BY <1>2 DEF Valid, ValidReservation, Early
<1> HIDE DEF t
<1>5. CASE rec.state = "FACILITATOR_SETTLE_CLAIMED" /\ Commit(w, Adopt(rec), Idle)
  <2>1. Valid(Adopt(rec)) => Keeps(Adopt(rec))
    BY <1>2, <1>5, AdoptKeeps
  <2> QED BY <1>1, <1>2, <1>5, <2>1, IdleGoesOn, CommitStep
<1>7. CASE Commit(w, Fail(rec, FailureState(rec), "other"), Idle)
  <2>1. /\ FailureState(rec) \in {"SETTLEMENT_FAILED", "PAYMENT_REJECTED"}
        /\ FailureState(rec) = "PAYMENT_REJECTED" => rec.claim = None /\ rec.tx = None
    BY <1>2 DEF FailureState, Early, Unclaimed
  <2>2. wk[w].fresh /\ Valid(Fail(rec, FailureState(rec), "other")) =>
          Keeps(Fail(rec, FailureState(rec), "other"))
    BY <1>2, <1>3, <2>1, FailKeeps
  <2> QED BY <1>1, <1>2, <1>7, <2>2, IdleGoesOn, CommitStep
<1>8. CASE /\ MirrorStatus(t) = "NOT_FOUND" /\ BoundaryElapsed(t)
           /\ Commit(w, Fail(rec, FailureState(rec), "CONCLUSIVELY_FAILED"), Idle)
  <2>1. wk[w].fresh /\ Valid(Fail(rec, FailureState(rec), "CONCLUSIVELY_FAILED")) =>
          Keeps(Fail(rec, FailureState(rec), "CONCLUSIVELY_FAILED"))
    BY <1>2, <1>8, ConclusiveKeeps
  <2> QED BY <1>1, <1>2, <1>8, <2>1, IdleGoesOn, CommitStep
<1>9. CASE Go(w, Idle)
  BY <1>1, <1>2, <1>9, IdleGoesOn, GoStep
<1> QED BY <1>1, <1>5, <1>7, <1>8, <1>9

(* authorizeReplacementAttempt reads a conclusive failure. *)
LEMMA ReplaceReadStep ==
  ASSUME IInv, NEW w \in Worker, ReplaceRead(w)
  PROVE  IInv'
<1>1. /\ Reads(w) /\ rec.failure = "CONCLUSIVELY_FAILED" /\ Go(w, Begin(w, None, "replace"))
      /\ UNCHANGED world
  BY DEF ReplaceRead
<1>2. GoesOn(Begin(w, None, "replace"), rec)
  BY <1>1, BeginFields DEF GoesOn, Knows, Steps, PaymentSteps, ReservedSteps
<1> QED BY <1>1, <1>2, Beginning, GoStep DEF world

(* The record of a new reservation. *)
LEMMA NewRecordOk == RecordOk(NewRecord) /\ NewRecord.pay = None
<1>1. NewRecord \in Record
  BY DEF NewRecord, Record, State
<1>2. Valid(NewRecord)
  BY DEF NewRecord, Valid, ValidSelection, ValidPayment, ValidClaim, ValidSettlement,
     ValidReservation, ValidOutbox, RequiresChallenge, RequiresPayload, RequiresVerifyOk,
     RequiresSettleClaim, RequiresSettledTx, RequiresMirrorPoll, RequiresMirrorSuccess,
     PostReservation
<1>3. Early(NewRecord) /\ Truthful(NewRecord) /\ NewRecord.pay = None
  BY DEF NewRecord, Early, Truthful
<1> QED BY <1>1, <1>2, <1>3 DEF RecordOk

(* The payment that is replaced can never be taken any more. *)
LEMMA ReplaceCommitStep ==
  ASSUME IInv, NEW w \in Worker, ReplaceCommit(w)
  PROVE  IInv'
<1>1. wk[w].pc = "replace" /\ Commit(w, NewRecord, Idle) /\ UNCHANGED world
  BY DEF ReplaceCommit
<1>2. /\ rec # None /\ rec \in Record /\ Valid(rec) /\ Early(rec) /\ Truthful(rec)
      /\ wk \in [Worker -> Invocation]
      /\ wk[w].fresh => rec.failure = "CONCLUSIVELY_FAILED"
  BY <1>1, UnderWay DEF Knows
<1>3. CASE ~wk[w].fresh
  BY <1>1, <1>2, <1>3, IdleGoesOn, GoStep DEF Commit, world
<1>4. CASE wk[w].fresh
  <2>1. Write(w, NewRecord, Idle)
    BY <1>1, <1>4, NewRecordOk DEF Commit, RecordOk
  <2>2. Frame(w) /\ wk'[w] = Idle /\ rec' = NewRecord
    BY <1>2, <2>1, IdleFields, Wrote
  <2>3. /\ rec.pay \in Tx /\ Dead(rec.pay) /\ rec.claim \in {None, rec.pay}
        /\ ~rec.reserved /\ rec.hcs = "none"
    BY <1>2, <1>4 DEF Truthful, Early, Failed, Record, Valid, ValidClaim, ValidReservation,
       ValidOutbox, PostReservation
  <2>4. UNCHANGED <<ledger, window, settles, publishes, topic, denied>> /\ sent' \subseteq Tx
    BY <1>1 DEF world, IInv, Typed
  <2>5. RecordOk(rec)'
    BY <2>2, <2>4, NewRecordOk
    DEF RecordOk, Truthful, Dead, VerifyMirrorPayment, VerifyHbar, VerifyUsdc, Unverified
  <2>6. OnePayment'
    BY <1>1, <2>2, <2>3 DEF IInv, OnePayment, Dead, world
  <2>7. rec' # None
    BY <2>5, NoRecordAssumption DEF RecordOk
  <2>8. Holds(wk[w])' /\ ~wk'[w].fresh /\ wk'[w].pc = "idle"
    BY <2>2, <2>7, IdleFields DEF Holds, PaymentSteps, ReservedSteps
  <2>9. \/ rec'.claim = rec.claim \/ rec.claim = None \/ window[rec.claim] = "past"
    BY <2>3 DEF Dead
  <2> QED BY <1>2, <2>2, <2>3, <2>4, <2>5, <2>6, <2>8, <2>9, StepOf
<1> QED BY <1>3, <1>4

-----------------------------------------------------------------------------
(* The steps after the reservation *)

(* Where a confirmation that got this far goes, with a reserved record. *)
LEMMA AfterGoesOn ==
  ASSUME wk \in [Worker -> Invocation], NEW w \in Worker, NEW r, r.reserved
  PROVE  GoesOn(After(w, r), r)
<1>1. GoesOn(At(w, "complete"), r)
  BY AtFields DEF GoesOn, Knows, Steps, PaymentSteps, ReservedSteps
<1> QED BY <1>1, IdleGoesOn DEF After

(* Where the publication of its evidence goes. *)
LEMMA HcsGoGoesOn ==
  ASSUME wk \in [Worker -> Invocation], NEW w \in Worker, NEW r \in Record, r.reserved
  PROVE  GoesOn(HcsGo(w, r), r)
<1>1. ASSUME NEW pc \in {"hclaim", "resolver", "hresolving"}, pc = "hclaim" => r.hcs = "none"
      PROVE  GoesOn(At(w, pc), r)
  BY <1>1, AtFields DEF GoesOn, Knows, Steps, PaymentSteps, ReservedSteps
<1>2. r.hcs \in HcsStates
  BY DEF Record, HcsStates
<1>3. ASSUME r.hcs # "PUBLISHED" PROVE GoesOn([At(w, "hfail") EXCEPT !.hs = r.hcs], r)
  <2> DEFINE k == [At(w, "hfail") EXCEPT !.hs = r.hcs]
  <2>1. At(w, "hfail") \in Invocation /\ At(w, "hfail").pc = "hfail"
    BY AtFields DEF Steps, ReservedSteps
  <2>2. k \in Invocation /\ k.pc = "hfail"
    BY <1>2, <1>3, <2>1 DEF Invocation
  <2> HIDE DEF k
  <2>3. GoesOn(k, r)
    BY <2>2 DEF GoesOn, Knows, PaymentSteps, ReservedSteps
  <2> QED BY <2>3 DEF k
<1>4. CASE r.hcs = "PUBLISHED"
  BY <1>4, AfterGoesOn DEF HcsGo
<1>5. CASE r.hcs = "none"
  BY <1>1, <1>5 DEF HcsGo
<1>6. CASE r.hcs \in {"MANUAL_REVIEW_REQUIRED", "FAILED_CONCLUSIVE"}
  BY <1>3, <1>6 DEF HcsGo
<1>7. CASE r.hcs = "RESOLVING"
  BY <1>1, <1>7 DEF HcsGo
<1>8. CASE r.hcs = "CLAIMED"
  BY <1>1, <1>8 DEF HcsGo
<1> QED BY <1>2, <1>4, <1>5, <1>6, <1>7, <1>8 DEF HcsStates

(* A reserved record whose payment is left alone. *)
LEMMA ReservedKeeps ==
  ASSUME rec \in Record, Valid(rec), Early(rec), Truthful(rec), rec.reserved,
         NEW next \in Record, next.state \in PostReservation,
         next.sel = rec.sel, next.pay = rec.pay, next.claim = rec.claim, next.tx = rec.tx,
         next.chal = rec.chal, next.failure = rec.failure, next.reserved = rec.reserved,
         rec.hcs # "none" => next.hcs # "none", next.hcs = "PUBLISHED" => topic = 1
  PROVE  Keeps(next) /\ next.reserved
<1>1. rec.state \in PostReservation
  BY DEF Valid, ValidReservation
<1>2. rec.chal /\ rec.failure # "CONCLUSIVELY_FAILED"
  BY <1>1 DEF PostReservation, Early, Failed
<1>3. VerifyMirrorPayment(next.sel, next.tx)
  BY DEF Truthful
<1>4. Early(next)
  BY <1>2 DEF Early, Unpaid, Unclaimed, PostReservation
<1>5. Truthful(next)
  BY <1>2, <1>3 DEF Truthful, PostReservation
<1> QED BY <1>4, <1>5 DEF Keeps

(* The webhooks of a reserved route are taken up again. *)
LEMMA WebhooksReadStep ==
  ASSUME IInv, NEW w \in Worker, WebhooksRead(w)
  PROVE  IInv'
<1> DEFINE pc == IF rec.events THEN "deliver" ELSE "events"
<1>1. /\ Reads(w) /\ rec.reserved /\ Go(w, Begin(w, None, pc)) /\ UNCHANGED world
      /\ pc \in {"deliver", "events"}
  BY DEF WebhooksRead
<1> HIDE DEF pc
<1>2. GoesOn(Begin(w, None, pc), rec)
  BY <1>1, BeginFields DEF GoesOn, Knows, Steps, PaymentSteps, ReservedSteps
<1> QED BY <1>1, <1>2, Beginning, GoStep DEF world

(* Both webhook events are persisted. *)
LEMMA EventsCommitStep ==
  ASSUME IInv, NEW w \in Worker, EventsCommit(w)
  PROVE  IInv'
<1> DEFINE next == [rec EXCEPT !.events = TRUE]
           other == IF rec.events THEN At(w, "deliver") ELSE Idle
<1>1. /\ wk[w].pc = "events" /\ CommitOrConflict(w, next, At(w, "deliver"), other)
      /\ UNCHANGED world
  BY DEF EventsCommit
<1>2. /\ rec # None /\ rec \in Record /\ Valid(rec) /\ Early(rec) /\ Truthful(rec)
      /\ wk \in [Worker -> Invocation] /\ rec.reserved
  BY <1>1, UnderWay DEF ReservedSteps
<1>3. /\ next \in Record /\ next.state = rec.state /\ next.sel = rec.sel /\ next.pay = rec.pay
      /\ next.claim = rec.claim /\ next.tx = rec.tx /\ next.chal = rec.chal
      /\ next.failure = rec.failure /\ next.hcs = rec.hcs /\ next.reserved = rec.reserved
  <2>1. rec \in Record
    BY <1>2
  <2> QED BY <2>1 DEF Record
<1> HIDE DEF next
<1>4. rec.state \in PostReservation /\ (rec.hcs = "PUBLISHED" => topic = 1)
  BY <1>2 DEF Valid, ValidReservation, Truthful
<1>5. Keeps(next) /\ next.reserved
  BY <1>2, <1>3, <1>4, ReservedKeeps
<1>6. \A r : r.reserved => GoesOn(At(w, "deliver"), r)
  BY <1>2, AtFields DEF GoesOn, Knows, Steps, PaymentSteps, ReservedSteps
<1>7. GoesOn(other, rec)
  BY <1>2, <1>6, IdleGoesOn
<1> HIDE DEF other
<1> QED BY <1>1, <1>2, <1>5, <1>6, <1>7, CommitOrConflictStep DEF world

(* They have been delivered, or not. *)
LEMMA DeliverReturnStep ==
  ASSUME IInv, NEW w \in Worker, DeliverReturn(w)
  PROVE  IInv'
<1>1. PICK ok \in BOOLEAN :
        LET next == Delivered(rec, ok)
            then(r) == IF wk[w].full THEN HcsGo(w, r) ELSE Idle
        IN  CommitOrConflict(w, next, then(next), then(rec))
  BY DEF DeliverReturn
<1> DEFINE next == Delivered(rec, ok)
           then(r) == IF wk[w].full THEN HcsGo(w, r) ELSE Idle
<1>2. /\ CommitOrConflict(w, next, then(next), then(rec))
      /\ wk[w].pc = "deliver" /\ UNCHANGED world
  BY <1>1 DEF DeliverReturn
<1>3. /\ rec # None /\ rec \in Record /\ Valid(rec) /\ Early(rec) /\ Truthful(rec)
      /\ wk \in [Worker -> Invocation] /\ rec.reserved
  BY <1>2, UnderWay DEF ReservedSteps
<1>4. rec.state \in PostReservation /\ (rec.hcs = "PUBLISHED" => topic = 1)
  BY <1>3 DEF Valid, ValidReservation, Truthful
<1>5. /\ next \in Record /\ next.state \in PostReservation
      /\ next.sel = rec.sel /\ next.pay = rec.pay /\ next.claim = rec.claim
      /\ next.tx = rec.tx /\ next.chal = rec.chal /\ next.failure = rec.failure
      /\ next.hcs = rec.hcs /\ next.reserved = rec.reserved
  <2>1. rec \in Record /\ rec.state \in PostReservation
    BY <1>3, <1>4
  <2>2. PICK s \in PostReservation : next = [rec EXCEPT !.state = s] \/ next = rec
    BY <2>1 DEF Delivered, To, PostReservation
  <2>3. s \in State
    BY DEF State
  <2> HIDE DEF next
  <2> QED BY <2>1, <2>2, <2>3 DEF Record
<1> HIDE DEF next
<1>6. Keeps(next) /\ next.reserved
  BY <1>3, <1>4, <1>5, ReservedKeeps
<1>7. GoesOn(then(next), next) /\ GoesOn(then(rec), rec)
  BY <1>3, <1>5, <1>6, HcsGoGoesOn, IdleGoesOn
<1> HIDE DEF then
<1> QED BY <1>2, <1>3, <1>6, <1>7, CommitOrConflictStep DEF world

(* The publication of the evidence is taken up again. *)
LEMMA HcsReadStep ==
  ASSUME IInv, NEW w \in Worker, HcsRead(w)
  PROVE  IInv'
<1>1. Reads(w) /\ rec.reserved /\ Go(w, HcsGo(w, rec)) /\ UNCHANGED world
  BY DEF HcsRead
<1> QED BY <1>1, Beginning, HcsGoGoesOn, GoStep DEF world

(* finishHcsFailed takes no claim back. *)
LEMMA FinishHcsFailedStep ==
  ASSUME IInv, NEW w \in Worker, wk[w].pc \in ReservedSteps,
         NEW hs \in HcsStates \ {"PUBLISHED"}, FinishHcsFailed(w, hs), UNCHANGED world
  PROVE  IInv'
<1> DEFINE h == IF hs = "none" THEN rec.hcs ELSE hs
           s == IF rec.state \in EvidencePending THEN "HCS_EVIDENCE_FAILED" ELSE rec.state
           next == HcsFailed(rec, hs)
<1>1. CommitOrConflict(w, next, After(w, next), After(w, rec))
  BY DEF FinishHcsFailed
<1>2. /\ rec # None /\ rec \in Record /\ Valid(rec) /\ Early(rec) /\ Truthful(rec)
      /\ wk \in [Worker -> Invocation] /\ rec.reserved
  BY UnderWay DEF ReservedSteps
<1>3. rec.state \in PostReservation /\ (rec.hcs = "PUBLISHED" => topic = 1)
  BY <1>2 DEF Valid, ValidReservation, Truthful
<1>4. /\ h \in HcsStates /\ s \in PostReservation /\ s \in State
      /\ (rec.hcs # "none" => h # "none") /\ (h = "PUBLISHED" => topic = 1)
  BY <1>2, <1>3 DEF Record, HcsStates, PostReservation, State
<1>5. /\ next \in Record /\ next.state = s /\ next.hcs = h
      /\ next.sel = rec.sel /\ next.pay = rec.pay /\ next.claim = rec.claim
      /\ next.tx = rec.tx /\ next.chal = rec.chal /\ next.failure = rec.failure
      /\ next.reserved = rec.reserved
  <2>1. rec \in Record /\ next = [rec EXCEPT !.hcs = h, !.state = s]
    BY <1>2 DEF HcsFailed
  <2> HIDE DEF h, s, next
  <2> QED BY <1>4, <2>1 DEF Record, HcsStates
<1> HIDE DEF h, s, next
<1>6. Keeps(next) /\ next.reserved
  BY <1>2, <1>4, <1>5, ReservedKeeps
<1>7. GoesOn(After(w, next), next) /\ GoesOn(After(w, rec), rec)
  BY <1>2, <1>6, AfterGoesOn
<1> QED BY <1>1, <1>2, <1>6, <1>7, CommitOrConflictStep DEF world

(* The claim gives the publication to this invocation. *)
LEMMA HcsClaimStep ==
  ASSUME IInv, NEW w \in Worker, HcsClaim(w)
  PROVE  IInv'
<1> DEFINE next == [rec EXCEPT !.hcs = "CLAIMED"]
           other == IF rec.hcs = "PUBLISHED" THEN HcsGo(w, rec) ELSE After(w, rec)
<1>1. /\ wk[w].pc = "hclaim" /\ UNCHANGED world
      /\ CommitOrConflict(w, next, At(w, "publish"), other) \/ FinishHcsFailed(w, "none")
  BY DEF HcsClaim
<1>2. /\ rec # None /\ rec \in Record /\ Valid(rec) /\ Early(rec) /\ Truthful(rec)
      /\ wk \in [Worker -> Invocation] /\ rec.reserved
      /\ wk[w].fresh => rec.hcs = "none"
  BY <1>1, UnderWay DEF ReservedSteps, Knows
<1>3. /\ next \in Record /\ next.state = rec.state /\ next.hcs = "CLAIMED"
      /\ next.sel = rec.sel /\ next.pay = rec.pay /\ next.claim = rec.claim
      /\ next.tx = rec.tx /\ next.chal = rec.chal /\ next.failure = rec.failure
      /\ next.reserved = rec.reserved
  <2>1. rec \in Record
    BY <1>2
  <2> QED BY <2>1 DEF Record
<1>4. GoesOn(other, rec)
  BY <1>2, AfterGoesOn, HcsGoGoesOn
<1> HIDE DEF next, other
<1>5. CASE FinishHcsFailed(w, "none")
  BY <1>1, <1>5, FinishHcsFailedStep DEF ReservedSteps, HcsStates
<1>6. CASE CommitOrConflict(w, next, At(w, "publish"), other) /\ ~wk[w].fresh
  BY <1>1, <1>2, <1>4, <1>6, GoStep DEF CommitOrConflict, world
<1>7. CASE CommitOrConflict(w, next, At(w, "publish"), other) /\ wk[w].fresh /\ ~Valid(next)
  BY <1>1, <1>2, <1>7, IdleGoesOn, GoStep DEF CommitOrConflict, Commit, world
<1>8. CASE CommitOrConflict(w, next, At(w, "publish"), other) /\ wk[w].fresh /\ Valid(next)
  <2>1. Write(w, next, At(w, "publish"))
    BY <1>8 DEF CommitOrConflict, Commit
  <2>2. At(w, "publish") \in Invocation /\ At(w, "publish").pc = "publish"
    BY <1>2, AtFields DEF Steps, ReservedSteps
  <2>3. Frame(w) /\ wk'[w] = At(w, "publish") /\ rec' = next
    BY <1>2, <2>1, <2>2, Wrote
  <2>4. rec.state \in PostReservation
    BY <1>2 DEF Valid, ValidReservation
  <2>5. Keeps(next)
    BY <1>2, <1>3, <2>4, ReservedKeeps
  <2>6. UNCHANGED <<ledger, window, settles, publishes, topic, denied>> /\ sent' \subseteq Tx
    BY <1>1 DEF world, IInv, Typed
  <2>7. RecordOk(rec)' /\ rec' # None
    BY <1>8, <2>3, <2>5, <2>6, NoRecordAssumption
    DEF Keeps, RecordOk, Truthful, Dead, VerifyMirrorPayment, VerifyHbar, VerifyUsdc, Unverified
  <2>8. OnePayment'
    BY <1>1, <1>3, <2>3, <2>7 DEF IInv, OnePayment, world
  <2>9. publishes = 0
    BY <1>2, <1>8 DEF IInv, Published, Typed
  <2>10. Holds(wk[w])' /\ Knows(wk[w], rec)'
    BY <1>2, <1>3, <2>2, <2>3, <2>6, <2>7, <2>9 DEF Holds, Knows, PaymentSteps, ReservedSteps
  <2>11. rec'.claim = rec.claim /\ rec.hcs = "none" /\ rec'.reserved /\ wk'[w].pc = "publish"
    BY <1>2, <1>3, <1>8, <2>2, <2>3
  <2> QED BY <1>2, <2>3, <2>6, <2>7, <2>8, <2>10, <2>11, StepOf
<1> QED BY <1>1, <1>5, <1>6, <1>7, <1>8

(* The call that cannot be taken back is made once. *)
LEMMA HcsPublishStep ==
  ASSUME IInv, NEW w \in Worker, HcsPublish(w)
  PROVE  IInv'
<1>1. /\ wk[w].pc = "publish" /\ publishes' = publishes + 1
      /\ wk' = [wk EXCEPT ![w].pc = "publishing"]
      /\ UNCHANGED <<rec, sent, ledger, window, settles, topic, denied>>
  BY DEF HcsPublish
<1>2. /\ rec # None /\ RecordOk(rec) /\ rec.reserved /\ rec.hcs # "none"
      /\ wk \in [Worker -> Invocation] /\ wk[w] \in Invocation /\ publishes = 0
  BY <1>1, UnderWay DEF ReservedSteps, IInv, Holds
<1>3. /\ wk' = [wk EXCEPT ![w] = wk'[w]] /\ wk'[w] = [wk[w] EXCEPT !.pc = "publishing"]
      /\ wk[w] \in Invocation
  BY <1>1, <1>2
<1>4. wk'[w] \in Invocation /\ wk'[w].pc = "publishing"
  BY <1>3 DEF Invocation, Steps, ReservedSteps
<1>5. wk' \in [Worker -> Invocation] /\ \A v \in Worker \ {w} : wk'[v] = wk[v]
  BY <1>2, <1>3, <1>4
<1>6. publishes' = 1 /\ topic' = 0
  BY <1>1, <1>2 DEF IInv, Typed
<1>7. Typed'
  BY <1>1, <1>2, <1>5, <1>6 DEF IInv, Typed
<1>8. OnePayment' /\ Claimed' /\ Published' /\ Closed'
  BY <1>1, <1>2 DEF IInv, OnePayment, Claimed, Published, Closed
<1>9. \A v \in Worker \ {w} : wk[v].pc # "publish"
  BY <1>1 DEF IInv, Exclusive
<1>10. Exclusive'
  <2>1. \A v \in Worker : wk'[v].pc \in {"settle", "publish"} =>
            v # w /\ wk'[v].pc = wk[v].pc /\ wk'[v].t = wk[v].t
    BY <1>4, <1>5
  <2> QED BY <1>1, <2>1 DEF IInv, Exclusive
<1>11. RecordOk(rec)'
  BY <1>1, <1>2 DEF RecordOk, Truthful, Dead, VerifyMirrorPayment, VerifyHbar, VerifyUsdc, Unverified
<1>12. ASSUME NEW v \in Worker
       PROVE  Holds(wk[v])' /\ (wk'[v].fresh => Knows(wk[v], rec)')
  <2>1. CASE v = w
    BY <1>1, <1>2, <1>4, <2>1 DEF Holds, Knows, PaymentSteps
  <2>2. CASE v # w
    <3>1. wk'[v] = wk[v] /\ Holds(wk[v]) /\ (wk[v].fresh => Knows(wk[v], rec))
      BY <1>5, <2>2 DEF IInv
    <3>2. Holds(wk[v])'
      BY <1>1, <1>9, <2>2, <3>1 DEF Holds, PaymentSteps
    <3>3. wk'[v].fresh => Knows(wk[v], rec)'
      BY <1>1, <3>1 DEF Knows, VerifyMirrorPayment, VerifyHbar, VerifyUsdc, Unverified
    <3> QED BY <3>2, <3>3
  <2> QED BY <2>1, <2>2
<1> QED BY <1>7, <1>8, <1>10, <1>11, <1>12 DEF IInv

(* An answer of the publisher or the resolver. *)
LEMMA AnswerStep ==
  ASSUME IInv, NEW w \in Worker, wk[w].pc \in {"publishing", "resolver"},
         NEW pc \in {"hpub", "hfail", "hresolving"}, NEW hs \in HcsStates \ {"PUBLISHED"},
         wk' = [wk EXCEPT ![w].pc = pc, ![w].hs = hs] \/ wk' = [wk EXCEPT ![w].pc = pc],
         pc = "hpub" => topic > 0, UNCHANGED <<rec, world>>
  PROVE  IInv'
<1>1. /\ rec # None /\ RecordOk(rec) /\ rec.reserved
      /\ wk \in [Worker -> Invocation] /\ wk[w] \in Invocation
  BY UnderWay DEF ReservedSteps, IInv
<1>2. /\ wk' = [wk EXCEPT ![w] = wk'[w]] /\ wk[w] \in Invocation
      /\ \/ wk'[w] = [wk[w] EXCEPT !.pc = pc, !.hs = hs] \/ wk'[w] = [wk[w] EXCEPT !.pc = pc]
  BY <1>1
<1>3. pc \in Steps
  BY DEF Steps, ReservedSteps
<1>4. wk'[w] \in Invocation /\ wk'[w].pc = pc
  BY <1>2, <1>3 DEF Invocation
<1>5. Frame(w)
  BY <1>1, <1>2, <1>4 DEF Frame
<1>6. RecordOk(rec)' /\ OnePayment' /\ sent' \subseteq Tx
  BY <1>1 DEF IInv, RecordOk, Truthful, Dead, OnePayment, Typed, VerifyMirrorPayment,
     VerifyHbar, VerifyUsdc, Unverified, world
<1>7. pc = "hpub" => topic = 1
  BY DEF IInv, Typed
<1>8. Holds(wk[w])' /\ Knows(wk[w], rec)'
  BY <1>1, <1>4, <1>7 DEF Holds, Knows, PaymentSteps, world
<1>9. /\ UNCHANGED <<rec, ledger, window, settles, publishes, topic, denied>>
      /\ wk'[w].pc \notin {"settle", "publish"}
  BY <1>4 DEF world
<1> QED BY <1>1, <1>5, <1>6, <1>8, <1>9, StepOf

(* A receipt is recorded for a message on the topic. *)
LEMMA HcsPublishedStep ==
  ASSUME IInv, NEW w \in Worker, HcsPublished(w)
  PROVE  IInv'
<1> DEFINE s == IF rec.state \in Recordable THEN "HCS_EVIDENCE_RECORDED" ELSE rec.state
           next == [rec EXCEPT !.hcs = "PUBLISHED", !.state = s]
<1>1. /\ wk[w].pc = "hpub" /\ CommitOrConflict(w, next, After(w, next), After(w, rec))
      /\ UNCHANGED world
  BY DEF HcsPublished
<1>2. /\ rec # None /\ rec \in Record /\ Valid(rec) /\ Early(rec) /\ Truthful(rec)
      /\ wk \in [Worker -> Invocation] /\ rec.reserved /\ topic = 1
  BY <1>1, UnderWay DEF ReservedSteps, IInv, Holds
<1>3. s \in PostReservation /\ s \in State
  BY <1>2 DEF Valid, ValidReservation, PostReservation, State
<1> HIDE DEF s
<1>4. /\ next \in Record /\ next.state = s /\ next.hcs = "PUBLISHED"
      /\ next.sel = rec.sel /\ next.pay = rec.pay /\ next.claim = rec.claim
      /\ next.tx = rec.tx /\ next.chal = rec.chal /\ next.failure = rec.failure
      /\ next.reserved = rec.reserved
  <2>1. rec \in Record
    BY <1>2
  <2> QED BY <1>3, <2>1 DEF Record
<1> HIDE DEF next
<1>5. Keeps(next) /\ next.reserved
  BY <1>2, <1>3, <1>4, ReservedKeeps
<1>6. GoesOn(After(w, next), next) /\ GoesOn(After(w, rec), rec)
  BY <1>2, <1>5, AfterGoesOn
<1> QED BY <1>1, <1>2, <1>5, <1>6, CommitOrConflictStep DEF world

(* An ambiguous claim is given to the resolver. *)
LEMMA HcsResolvingStep ==
  ASSUME IInv, NEW w \in Worker, HcsResolving(w)
  PROVE  IInv'
<1> DEFINE next == [rec EXCEPT !.hcs = "RESOLVING"]
<1>1. /\ wk[w].pc = "hresolving" /\ CommitOrConflict(w, next, At(w, "resolver"), HcsGo(w, rec))
      /\ UNCHANGED world
  BY DEF HcsResolving
<1>2. /\ rec # None /\ rec \in Record /\ Valid(rec) /\ Early(rec) /\ Truthful(rec)
      /\ wk \in [Worker -> Invocation] /\ rec.reserved
  BY <1>1, UnderWay DEF ReservedSteps
<1>3. /\ next \in Record /\ next.state = rec.state /\ next.hcs = "RESOLVING"
      /\ next.sel = rec.sel /\ next.pay = rec.pay /\ next.claim = rec.claim
      /\ next.tx = rec.tx /\ next.chal = rec.chal /\ next.failure = rec.failure
      /\ next.reserved = rec.reserved
  <2>1. rec \in Record
    BY <1>2
  <2> QED BY <2>1 DEF Record
<1> HIDE DEF next
<1>4. rec.state \in PostReservation
  BY <1>2 DEF Valid, ValidReservation
<1>5. Keeps(next) /\ next.reserved
  BY <1>2, <1>3, <1>4, ReservedKeeps
<1>6. GoesOn(At(w, "resolver"), next)
  BY <1>2, <1>5, AtFields DEF GoesOn, Knows, Steps, PaymentSteps, ReservedSteps
<1>7. GoesOn(HcsGo(w, rec), rec)
  BY <1>2, HcsGoGoesOn
<1> QED BY <1>1, <1>2, <1>5, <1>6, <1>7, CommitOrConflictStep DEF world

(* COMPLETED closes the run. *)
LEMMA CompleteCommitStep ==
  ASSUME IInv, NEW w \in Worker, CompleteCommit(w)
  PROVE  IInv'
<1> DEFINE next == To(rec, "COMPLETED")
<1>1. wk[w].pc = "complete" /\ Commit(w, next, Idle) /\ UNCHANGED world
  BY DEF CompleteCommit
<1>2. /\ rec # None /\ rec \in Record /\ Valid(rec) /\ Early(rec) /\ Truthful(rec)
      /\ rec.reserved
  BY <1>1, UnderWay DEF ReservedSteps
<1>3. "COMPLETED" \in PostReservation /\ "COMPLETED" \in State
  BY DEF PostReservation, State
<1>4. /\ next \in Record /\ next.state = "COMPLETED" /\ next.hcs = rec.hcs
      /\ next.sel = rec.sel /\ next.pay = rec.pay /\ next.claim = rec.claim
      /\ next.tx = rec.tx /\ next.chal = rec.chal /\ next.failure = rec.failure
      /\ next.reserved = rec.reserved
  <2>1. rec \in Record
    BY <1>2
  <2> QED BY <1>3, <2>1 DEF Record, To
<1> HIDE DEF next
<1>5. rec.hcs = "PUBLISHED" => topic = 1
  BY <1>2 DEF Truthful
<1>6. Keeps(next)
  BY <1>2, <1>3, <1>4, <1>5, ReservedKeeps
<1> QED BY <1>1, <1>2, <1>6, IdleGoesOn, CommitStep DEF world

(* The answers of the publisher and of the resolver, and their failures. *)
LEMMA AnsweredStep ==
  ASSUME IInv, NEW w \in Worker, HcsPublishReturn(w) \/ HcsResolved(w) \/ HcsFail(w)
  PROVE  IInv'
<1>1. CASE HcsPublishReturn(w)
  <2>1. \/ topic > 0 /\ wk' = [wk EXCEPT ![w].pc = "hpub"]
        \/ wk' = [wk EXCEPT ![w].pc = "hfail", ![w].hs = "FAILED_CONCLUSIVE"]
        \/ wk' = [wk EXCEPT ![w].pc = "hresolving"]
    BY <1>1 DEF HcsPublishReturn, publish
  <2>2. wk[w].pc = "publishing" /\ UNCHANGED <<rec, world>>
    BY <1>1 DEF HcsPublishReturn
  <2>3. {"FAILED_CONCLUSIVE", "none"} \subseteq HcsStates \ {"PUBLISHED"}
    BY DEF HcsStates
  <2> QED BY <2>1, <2>2, <2>3, AnswerStep
<1>2. CASE HcsResolved(w)
  <2>1. \/ topic > 0 /\ wk' = [wk EXCEPT ![w].pc = "hpub"]
        \/ wk' = [wk EXCEPT ![w].pc = "hfail", ![w].hs = "FAILED_CONCLUSIVE"]
        \/ wk' = [wk EXCEPT ![w].pc = "hfail", ![w].hs = "MANUAL_REVIEW_REQUIRED"]
        \/ wk' = [wk EXCEPT ![w].pc = "hfail", ![w].hs = "CLAIMED"]
    BY <1>2 DEF HcsResolved, resolvePublication
  <2>2. wk[w].pc = "resolver" /\ UNCHANGED <<rec, world>>
    BY <1>2 DEF HcsResolved
  <2>3. {"FAILED_CONCLUSIVE", "none", "MANUAL_REVIEW_REQUIRED", "CLAIMED"} \subseteq
          HcsStates \ {"PUBLISHED"}
    BY DEF HcsStates
  <2> QED BY <2>1, <2>2, <2>3, AnswerStep
<1>3. CASE HcsFail(w)
  <2>1. wk[w].pc = "hfail" /\ FinishHcsFailed(w, wk[w].hs) /\ UNCHANGED world
    BY <1>3 DEF HcsFail
  <2>2. wk[w].hs \in HcsStates \ {"PUBLISHED"} /\ wk[w].pc \in ReservedSteps
    BY <2>1, UnderWay DEF Invocation, ReservedSteps
  <2> QED BY <2>1, <2>2, FinishHcsFailedStep
<1> QED BY <1>1, <1>2, <1>3

-----------------------------------------------------------------------------
(* The network, the clock, creation and crashes *)

(* A record that is about a transaction of the ledger has one. *)
LEMMA OnRecord ==
  ASSUME NEW r \in Record, Valid(r),
         \/ r.state \in {"PAYMENT_CONFIRMED", "CONFIRMATION_FAILED",
                         "MIRROR_CONFIRMATION_PENDING"}
         \/ r.reserved
  PROVE  r.tx \in Tx
<1>1. r.state \in RequiresSettledTx
  BY DEF Valid, ValidReservation, RequiresSettledTx, RequiresMirrorPoll, RequiresMirrorSuccess
<1> QED BY <1>1, TransactionIsPayment

(* What the network does with a transaction leaves what is known alone. *)
LEMMA LedgerStep ==
  ASSUME IInv, NEW t \in Tx, NEW r \in LedgerStates,
         ledger' = [ledger EXCEPT ![t] = r],
         \/ ledger[t] = "absent" /\ t \in sent /\ window[t] = "valid"
         \/ ledger[t] = "landed" /\ r \in OnLedger,
         r # "absent", UNCHANGED <<rec, wk, sent, window, settles, publishes, topic, denied>>
  PROVE  IInv'
<1>1. /\ ledger' \in [Tx -> LedgerStates] /\ ledger'[t] = r
      /\ \A u \in Tx : u # t => ledger'[u] = ledger[u]
  BY DEF IInv, Typed
<1>2. \A u \in Tx : ledger[u] \notin {"absent", "landed"} => ledger'[u] = ledger[u]
  BY <1>1
<1>3. Typed' /\ OnePayment' /\ Claimed' /\ Published' /\ Exclusive'
  BY <1>1 DEF IInv, Typed, OnePayment, Claimed, Published, Exclusive
<1>4. Closed'
  BY <1>1 DEF IInv, Closed, OnLedger
<1>5. ASSUME NEW o, NEW u \in Tx, VerifyMirrorPayment(o, u)
      PROVE  ledger'[u] = ledger[u]
  BY <1>2, <1>5 DEF VerifyMirrorPayment, VerifyHbar, VerifyUsdc, Unverified
<1>6. ASSUME rec # None PROVE RecordOk(rec)'
  <2>1. rec \in Record /\ Valid(rec) /\ Early(rec) /\ Truthful(rec)
    BY <1>6 DEF IInv, RecordOk
  <2>2. rec.failure = "CONCLUSIVELY_FAILED" => rec.pay # None /\ Dead(rec.pay)'
    <3>1. rec.pay # None => rec.pay \in Tx
      BY <2>1 DEF Record
    <3>2. ASSUME rec.pay \in Tx, Dead(rec.pay) PROVE rec.pay # t
      BY <3>2 DEF Dead, IInv, Closed
    <3> QED BY <1>1, <2>1, <3>1, <3>2 DEF Truthful, Dead
  <2>3. rec.state = "PAYMENT_CONFIRMED" \/ rec.reserved => VerifyMirrorPayment(rec.sel, rec.tx)'
    BY <1>5, <2>1, OnRecord DEF Truthful, VerifyMirrorPayment, VerifyHbar, VerifyUsdc, Unverified
  <2>4. rec.state = "CONFIRMATION_FAILED" => Unverified(rec)'
    BY <1>2, <2>1, OnRecord DEF Truthful, Unverified
  <2>5. Truthful(rec)'
    BY <2>1, <2>2, <2>3, <2>4 DEF Truthful
  <2> QED BY <2>1, <2>5 DEF RecordOk
<1>7. ASSUME NEW w \in Worker PROVE Holds(wk[w])' /\ (wk'[w].fresh => Knows(wk[w], rec)')
  <2>1. Holds(wk[w])'
    BY DEF IInv, Holds
  <2>2. ASSUME wk[w].fresh PROVE Knows(wk[w], rec)'
    <3>1. Knows(wk[w], rec)
      BY <2>2 DEF IInv
    <3>2. wk[w].pc \in {"confirm", "mfail"} => rec.tx \in Tx
      BY <3>1, OnRecord DEF Knows, IInv, Holds, RecordOk
    <3>3. wk[w].pc = "confirm" => VerifyMirrorPayment(rec.sel, rec.tx)'
      BY <1>5, <3>1, <3>2 DEF Knows, VerifyMirrorPayment, VerifyHbar, VerifyUsdc, Unverified
    <3>4. wk[w].pc = "mfail" => Unverified(rec)'
      BY <1>2, <3>1, <3>2 DEF Knows, Unverified
    <3> QED BY <3>1, <3>3, <3>4 DEF Knows
  <2> QED BY <2>1, <2>2
<1> QED BY <1>3, <1>4, <1>6, <1>7 DEF IInv

(* The validity window of a transaction closes. *)
LEMMA WindowStep ==
  ASSUME IInv, NEW t \in Tx, WindowPasses(t)
  PROVE  IInv'
<1>1. /\ window' \in [Tx -> {"valid", "expired", "past"}]
      /\ \A u \in Tx : window[u] = "past" => window'[u] = "past"
      /\ \A u \in Tx : window'[u] = "past" => window[u] = "past" \/ ledger[u] # "landed"
      /\ UNCHANGED <<rec, wk, sent, ledger, settles, publishes, topic, denied>>
  BY DEF WindowPasses, IInv, Typed
<1>2. Typed' /\ OnePayment' /\ Claimed' /\ Published' /\ Closed'
  BY <1>1 DEF IInv, Typed, OnePayment, Claimed, Published, Closed
<1>3. \A w \in Worker : wk[w].pc = "settle" => wk[w].t \in Tx
  BY DEF IInv, Holds, PaymentSteps
<1>4. Exclusive'
  BY <1>1, <1>3 DEF IInv, Exclusive
<1>5. ASSUME rec # None PROVE RecordOk(rec)'
  <2>1. rec \in Record /\ Valid(rec) /\ Early(rec) /\ Truthful(rec)
    BY <1>5 DEF IInv, RecordOk
  <2>2. rec.pay # None => rec.pay \in Tx
    BY <2>1 DEF Record
  <2> QED BY <1>1, <2>1, <2>2
        DEF RecordOk, Truthful, Dead, VerifyMirrorPayment, VerifyHbar, VerifyUsdc, Unverified
<1>6. ASSUME NEW w \in Worker PROVE Holds(wk[w])' /\ (wk'[w].fresh => Knows(wk[w], rec)')
  <2>1. Holds(wk[w])'
    BY <1>1, <1>3 DEF IInv, Holds
  <2>2. wk'[w].fresh => Knows(wk[w], rec)'
    BY <1>1 DEF IInv, Knows, VerifyMirrorPayment, VerifyHbar, VerifyUsdc, Unverified
  <2> QED BY <2>1, <2>2
<1> QED BY <1>1, <1>2, <1>4, <1>5, <1>6 DEF IInv

(* The topic shows the message that was published. *)
LEMMA TopicShowsStep ==
  ASSUME IInv, TopicShows
  PROVE  IInv'
<1>1. /\ UNCHANGED <<rec, wk, sent, ledger, window, settles, publishes, denied>>
      /\ topic = 0 /\ topic' = 1 /\ publishes = 1
  BY DEF TopicShows, IInv, Typed
<1>2. Typed' /\ OnePayment' /\ Claimed' /\ Published' /\ Closed' /\ Exclusive'
  BY <1>1 DEF IInv, Typed, OnePayment, Claimed, Published, Closed, Exclusive
<1>3. rec # None => RecordOk(rec)'
  BY <1>1 DEF IInv, RecordOk, Truthful, Dead, VerifyMirrorPayment, VerifyHbar, VerifyUsdc, Unverified
<1>4. ASSUME NEW w \in Worker PROVE Holds(wk[w])' /\ (wk'[w].fresh => Knows(wk[w], rec)')
  <2>1. Holds(wk[w])'
    BY <1>1 DEF IInv, Holds
  <2>2. wk'[w].fresh => Knows(wk[w], rec)'
    BY <1>1 DEF IInv, Knows, VerifyMirrorPayment, VerifyHbar, VerifyUsdc, Unverified
  <2> QED BY <2>1, <2>2
<1> QED BY <1>1, <1>2, <1>3, <1>4 DEF IInv

(* The deadlines, and a step of something else. *)
LEMMA Unaffected ==
  ASSUME IInv, UNCHANGED <<rec, wk, sent, ledger, window, settles, publishes, topic, denied>>
  PROVE  IInv'
<1>1. Typed' /\ OnePayment' /\ Claimed' /\ Published' /\ Closed' /\ Exclusive'
  BY DEF IInv, Typed, OnePayment, Claimed, Published, Closed, Exclusive
<1>2. rec # None => RecordOk(rec)'
  BY DEF IInv, RecordOk, Truthful, Dead, VerifyMirrorPayment, VerifyHbar, VerifyUsdc, Unverified
<1>3. ASSUME NEW w \in Worker PROVE Holds(wk[w])' /\ (wk'[w].fresh => Knows(wk[w], rec)')
  <2>1. Holds(wk[w])'
    BY DEF IInv, Holds
  <2>2. wk'[w].fresh => Knows(wk[w], rec)'
    BY DEF IInv, Knows, VerifyMirrorPayment, VerifyHbar, VerifyUsdc, Unverified
  <2> QED BY <2>1, <2>2
<1> QED BY <1>1, <1>2, <1>3 DEF IInv

(* Every step of the network and the clock. *)
LEMMA EnvironmentStep ==
  ASSUME IInv, Environment
  PROVE  IInv'
<1>1. ASSUME NEW t \in Tx, Execute(t) \/ Show(t) PROVE IInv'
  <2>1. PICK r \in LedgerStates :
          /\ ledger' = [ledger EXCEPT ![t] = r] /\ r # "absent"
          /\ \/ ledger[t] = "absent" /\ t \in sent /\ window[t] = "valid"
             \/ ledger[t] = "landed" /\ r \in OnLedger
    BY <1>1 DEF Execute, Show, LedgerStates, OnLedger
  <2> QED BY <1>1, <2>1, LedgerStep DEF Execute, Show
<1>2. ASSUME NEW t \in Tx, WindowPasses(t) PROVE IInv'
  BY <1>2, WindowStep
<1>3. CASE DeadlinePasses \/ OfferExpires
  BY <1>3, Unaffected DEF DeadlinePasses, OfferExpires
<1>4. CASE TopicShows
  BY <1>4, TopicShowsStep
<1> QED BY <1>1, <1>2, <1>3, <1>4 DEF Environment

(* createReservation, before which no invocation is under way. *)
LEMMA CreateStep ==
  ASSUME IInv, NEW w \in Worker, Create(w)
  PROVE  IInv'
<1>1. /\ rec = None /\ rec' = NewRecord
      /\ UNCHANGED <<wk, sent, ledger, window, settles, publishes, topic, denied>>
  BY DEF Create, world
<1>2. RecordOk(NewRecord) /\ NewRecord \in Record
  BY NewRecordOk DEF RecordOk
<1>3. \A v \in Worker : wk[v].pc = "idle"
  BY <1>1 DEF IInv, Holds
<1>4. Typed' /\ OnePayment' /\ Claimed' /\ Published' /\ Closed' /\ Exclusive'
  BY <1>1, <1>2 DEF IInv, Typed, OnePayment, Claimed, Published, Closed, Exclusive
<1>5. RecordOk(rec)'
  BY <1>1, <1>2 DEF RecordOk, Truthful, Dead, VerifyMirrorPayment, VerifyHbar, VerifyUsdc, Unverified
<1>6. \A v \in Worker : Holds(wk[v])' /\ Knows(wk[v], rec)'
  BY <1>1, <1>3 DEF Holds, Knows, PaymentSteps, ReservedSteps
<1> QED BY <1>4, <1>5, <1>6 DEF IInv

(* An invocation dies at an await. *)
LEMMA CrashStep ==
  ASSUME IInv, NEW w \in Worker, Crash(w)
  PROVE  IInv'
<1>1. /\ wk[w].pc # "idle" /\ Go(w, Idle)
      /\ UNCHANGED <<sent, ledger, window, settles, publishes, topic, denied>>
  BY DEF Crash, Go
<1> QED BY <1>1, UnderWay, IdleGoesOn, GoStep

-----------------------------------------------------------------------------
(* The invariant and what follows from it *)

(* It holds before the record is created. *)
LEMMA InitInvariant == Init => IInv
<1> SUFFICES ASSUME Init PROVE IInv
  OBVIOUS
<1>1. Typed
  BY IdleFields DEF Init, Typed, LedgerStates
<1>2. \A w \in Worker : wk[w] = Idle /\ wk[w].pc = "idle"
  BY IdleFields DEF Init
<1>3. OnePayment /\ Claimed /\ Published /\ Closed /\ Exclusive
  BY <1>2 DEF Init, OnePayment, Claimed, Published, Closed, Exclusive
<1>4. \A w \in Worker : Holds(wk[w]) /\ Knows(wk[w], rec)
  BY <1>2 DEF Holds, Knows, PaymentSteps, ReservedSteps
<1> QED BY <1>1, <1>3, <1>4 DEF Init, IInv

(* Every step keeps it. *)
LEMMA StepInvariant == IInv /\ [Next]_vars => IInv'
<1> SUFFICES ASSUME IInv, [Next]_vars PROVE IInv'
  OBVIOUS
<1>1. CASE UNCHANGED vars
  BY <1>1, Unaffected DEF vars
<1>2. ASSUME NEW w \in Worker, Call(w) PROVE IInv'
  BY <1>2, CreateStep, SelectReadStep, ChallengeReadStep, SubmitReadStep, ResumeStep,
     ReconcileReadStep, ScriptReadStep, ReplaceReadStep, WebhooksReadStep, HcsReadStep DEF Call
<1>3. ASSUME NEW w \in Worker, Step(w) PROVE IInv'
  BY <1>3, SelectCommitStep, ChallengeCommitStep, StartCommitStep, VerifyReturnStep,
     ClaimCommitStep, SettleCallStep, SettleReturnStep, MirrorOpenStep, LoopReadStep,
     PollReturnStep, ConfirmCommitStep, ConfirmDeniedStep, ConfirmationFailedStep, TimeoutCommitStep,
     ReserveCommitStep, ResumeStep, RetryCommitStep, LookupReturnStep, ScriptReturnStep,
     ReplaceCommitStep, EventsCommitStep, DeliverReturnStep, HcsClaimStep, HcsPublishStep,
     AnsweredStep, HcsPublishedStep, HcsResolvingStep, CompleteCommitStep
  DEF Step
<1>4. ASSUME NEW w \in Worker, Crash(w) PROVE IInv'
  BY <1>4, CrashStep
<1>5. CASE Environment
  BY <1>5, EnvironmentStep
<1> QED BY <1>1, <1>2, <1>3, <1>4, <1>5 DEF Next

(* The invariant of the reservation service: the record, every invocation  *)
(* under way and the ledger agree, whoever calls, crashes and resumes.     *)
THEOREM InvariantAlways == Spec => []IInv
BY InitInvariant, StepInvariant, PTL DEF Spec

(* A payment the network has taken is the payment of the record: no        *)
(* sequence of submissions, crashes, reconciliations and replacements of   *)
(* submitPayment, reconcilePayment and authorizeReplacementAttempt pays    *)
(* for the reservation twice.                                              *)
THEOREM PaidAlwaysRecorded == Spec => []PaidIsRecorded
<1>1. IInv => PaidIsRecorded
  BY DEF IInv, OnePayment, PaidIsRecorded, Paid, OnLedger
<1> QED BY <1>1, InvariantAlways, PTL

(* The settle claim and the HCS claim make the calls that cannot be taken  *)
(* back once, and evidence recorded as published is on the topic.          *)
THEOREM OnlyOnceAlways == Spec => []OnlyOnce
<1>1. IInv => OnlyOnce
  BY DEF IInv, Typed, RecordOk, Truthful, OnlyOnce
<1> QED BY <1>1, InvariantAlways, PTL

(* A reserved route has been paid in full in the asset selected, and       *)
(* CONFIRMATION_FAILED is written over a payment that verifies only after  *)
(* the lock was refused to a commit of PAYMENT_CONFIRMED.                  *)
THEOREM VerdictAlwaysRight == Spec => []VerdictIsRight
<1>1. IInv => VerdictIsRight
  BY DEF IInv, RecordOk, Truthful, VerdictIsRight, VerifyMirrorPayment, VerifyHbar, VerifyUsdc, Unverified
<1> QED BY <1>1, InvariantAlways, PTL
==============================================================================
