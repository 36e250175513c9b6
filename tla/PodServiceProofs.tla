--------------------------- MODULE PodServiceProofs ---------------------------
(***************************************************************************)
(* Proofs about the POD service, for any number of requests in hand, PODs, *)
(* contents, correction rounds and faults: the release plan of an          *)
(* acceptance binds what was accepted, and what was accepted was shown.    *)
(***************************************************************************)
EXTENDS PodService, TLAPS

(* Requests in hand, as a set of records. *)
InHand ==
  [pc : Pcs \ {"idle"}, id : Ids \cup {Own}, podId : PodIds, version : Versions,
   content : Contents, deadline : OptVersion, action : ReviewActions \cup {None},
   replay : BOOLEAN]

Event == [type : EventTypes, deadline : OptVersion]

Typed ==
  /\ rec \in Record
  /\ store \in [Slot -> Contents \cup {None}]
  /\ journal \in [Slot -> Ids \cup {Own, None}]
  /\ plans \in [Ids -> Plan \cup {None}]
  /\ work \in [Worker -> InHand \cup {Idle}]
  /\ shown \subseteq Bundle
  /\ faults \in 0..MaxFaults

(* How many events a record in its state has, which bounds their number. *)
Counted(r) ==
  /\ r.state = "DELIVERY_REPORTED" => r.podVersion = 0 /\ Len(r.done) = 0
  /\ r.state # "DELIVERY_REPORTED" =>
       r.podVersion >= 1 /\ r.podId # None /\ r.contentHash # None
  /\ r.state \in Reviewable => Len(r.done) = 3 * r.podVersion - 2
  /\ r.state = "POD_UNDER_REVIEW" => Len(r.done) = 3 * r.podVersion - 1
  /\ r.state \in {"POD_CORRECTION_REQUESTED", "POD_ACCEPTED", "POD_DEEMED_ACCEPTED"} =>
       Len(r.done) = 3 * r.podVersion
  /\ r.state = "POD_DISPUTED" =>
       Len(r.done) = 3 * r.podVersion \/ Len(r.done) = 3 * r.podVersion + 1

(* A deadline is that of a round which has begun; an acceptance is the     *)
(* last decision, under the deadline of its round.                         *)
Rounds(r) ==
  /\ r.reviewDeadline <= r.podVersion
  /\ r.state = "POD_UNDER_REVIEW" => r.reviewDeadline >= 1
  /\ \A i \in 1..Len(r.done) :
       r.done[i].type = "ACCEPT" =>
         r.state = "POD_ACCEPTED" /\ r.done[i].deadline = r.reviewDeadline

(* A bundle is of the POD, under the deadline of an earlier round or its own. *)
Shown ==
  \A b \in shown :
    b.podId = rec.podId /\ b.version <= rec.podVersion /\ b.deadline \in 1..b.version

(* What a request read of a version is the record's, if it is the version  *)
(* of the record.                                                          *)
Agrees(r) ==
  /\ r.podId = rec.podId /\ r.version <= rec.podVersion
  /\ r.version = rec.podVersion => r.content = rec.contentHash

(* The requests that have read the record for a review. *)
Reading == {"report", "review", "decide"}

(* What a request in hand knows. *)
Sound(r) ==
  /\ r.pc = "resubmit" =>
       /\ r.podId = rec.podId /\ r.version \in 2..(rec.podVersion + 1)
       /\ r.version = rec.podVersion + 1 =>
            rec.state \in {"POD_CORRECTION_REQUESTED", "POD_DISPUTED"}
  /\ r.pc = "reput" => r.version >= 2 /\ Agrees(r)
  /\ r.pc \in Reading =>
       r.podId = rec.podId /\ r.version <= rec.podVersion
  /\ r.pc \in {"decide", "plan"} =>
       /\ Agrees(r) /\ r.deadline \in 1..r.version /\ r.action \in ReviewActions
       /\ \E b \in shown : b.deadline = r.deadline
  /\ r.pc \in {"anchor", "plan"} => r.id \in Processed
  /\ r.pc = "plan" => rec.done[r.id].type = r.action /\ rec.done[r.id].deadline = r.deadline

Planned == \A i \in Ids : plans[i] # None => i \in Processed

IInv ==
  /\ Typed /\ Counted(rec) /\ Rounds(rec) /\ Shown /\ Planned /\ PlanBindsAccepted
  /\ \A w \in Worker : Sound(work[w])

-----------------------------------------------------------------------------
(* Records and requests *)

(* A worker without a request. *)
LEMMA IdleFields == Idle.pc = "idle"
BY DEF Idle

(* The fields of a request in hand. *)
LEMMA RequestFields ==
  ASSUME NEW r \in InHand
  PROVE  /\ r # Idle /\ r.pc \in Pcs /\ r.pc # "idle" /\ r.id \in Ids \cup {Own}
         /\ r.podId \in PodIds /\ r.version \in Versions /\ r.content \in Contents
         /\ r.deadline \in OptVersion /\ r.action \in ReviewActions \cup {None}
BY IdleFields DEF InHand

(* The events of a record are bounded. *)
LEMMA EventsBounded ==
  ASSUME NEW r \in Record, Counted(r)
  PROVE  Len(r.done) \in Nat /\ Len(r.done) <= 3 * MaxVersion + 1
<1>1. r.state \in States /\ r.podVersion \in 0..MaxVersion /\ Len(r.done) \in Nat
  BY DEF Record, OptVersion
<1> QED BY <1>1, PodAssumption DEF Counted, States, Submittable, Reviewable

(* What a commit makes of the record. *)
LEMMA CommitFields ==
  ASSUME NEW c \in Record, NEW type \in EventTypes, NEW deadline \in OptVersion,
         Commit(type, deadline, c)
  PROVE  /\ rec' \in Record /\ rec'.state = c.state /\ rec'.podId = c.podId
         /\ rec'.podVersion = c.podVersion /\ rec'.contentHash = c.contentHash
         /\ rec'.reviewDeadline = c.reviewDeadline
         /\ Len(rec'.done) = Len(c.done) + 1 /\ Len(c.done) \in Nat
         /\ \A i \in 1..Len(c.done) : rec'.done[i] = c.done[i]
         /\ rec'.done[Len(c.done) + 1].type = type
         /\ rec'.done[Len(c.done) + 1].deadline = deadline
<1> DEFINE e == [type |-> type, deadline |-> deadline]
           done == Append(c.done, e)
<1>1. e \in Event /\ e.type = type /\ e.deadline = deadline
  BY DEF Event
<1>2. c.done \in Seq(Event)
  BY DEF Record, Event
<1> HIDE DEF e
<1>3. /\ done \in Seq(Event) /\ Len(done) = Len(c.done) + 1 /\ Len(c.done) \in Nat
      /\ \A i \in 1..Len(c.done) : done[i] = c.done[i]
      /\ done[Len(c.done) + 1] = e
  BY <1>1, <1>2
<1>4. rec' = [c EXCEPT !.done = done]
  BY DEF Commit, e
<1> HIDE DEF done
<1>5. /\ rec' \in Record /\ rec'.done = done /\ rec'.state = c.state /\ rec'.podId = c.podId
      /\ rec'.podVersion = c.podVersion /\ rec'.contentHash = c.contentHash
      /\ rec'.reviewDeadline = c.reviewDeadline
  BY <1>3, <1>4 DEF Record, Event
<1> QED BY <1>1, <1>3, <1>5

(* The other requests are what they were. *)
Frame(w) ==
  /\ work' \in [Worker -> InHand \cup {Idle}]
  /\ \A v \in Worker \ {w} : work'[v] = work[v]

(* Becomes leaves the others as they were. *)
LEMMA BecomesFrame ==
  ASSUME work \in [Worker -> InHand \cup {Idle}], NEW w \in Worker,
         NEW r \in InHand \cup {Idle}, Becomes(w, r)
  PROVE  Frame(w) /\ work'[w] = r
BY DEF Becomes, Frame

-----------------------------------------------------------------------------
(* A step of one request *)

(* How a record may change: its events stay; its version stays with its    *)
(* content, or is corrected; and                                           *)
(* from a correction it comes to a dispute or to the next version only.    *)
Extends ==
  /\ rec' \in Record /\ Len(rec.done) <= Len(rec'.done)
  /\ \A i \in 1..Len(rec.done) : rec'.done[i] = rec.done[i]

Keeps ==
  /\ rec'.podId = rec.podId /\ rec'.podVersion = rec.podVersion
  /\ rec'.contentHash = rec.contentHash
  /\ rec.state = "POD_CORRECTION_REQUESTED" =>
       rec'.state \in {"POD_CORRECTION_REQUESTED", "POD_DISPUTED"}
  /\ rec.state = "POD_DISPUTED" => rec'.state = "POD_DISPUTED"

Corrects ==
  /\ rec'.podId = rec.podId /\ rec'.podVersion = rec.podVersion + 1
  /\ rec'.state = "POD_RESUBMITTED"

(* Before the first submission only submissions are in hand. *)
LEMMA Unsubmitted ==
  ASSUME IInv, rec.state = "DELIVERY_REPORTED", NEW v \in Worker
  PROVE  work[v].pc \in {"idle", "put", "submit"}
<1>1. rec.podVersion = 0 /\ Len(rec.done) = 0
  BY DEF IInv, Counted
<1>2. CASE work[v] = Idle
  BY <1>2, IdleFields
<1>3. CASE work[v] # Idle
  <2>1. work[v] \in InHand
    BY <1>3 DEF IInv, Typed
  <2>2. work[v].pc \in Pcs /\ work[v].version \in Nat /\ work[v].version >= 1
    BY <2>1, RequestFields, PodAssumption DEF Versions
  <2> QED BY <1>1, <2>2 DEF IInv, Sound, Agrees, Reading, Pcs, Processed
<1> QED BY <1>2, <1>3

(* What holds of every request after a step of w. *)
LEMMA StepOf ==
  ASSUME IInv, NEW w \in Worker, Frame(w), Extends, shown \subseteq shown',
         Keeps \/ rec.state = "DELIVERY_REPORTED" \/ Corrects,
         Sound(work[w])'
  PROVE  \A v \in Worker : Sound(work[v])'
<1>1. rec.podVersion \in Nat /\ rec'.podVersion \in Nat /\ Len(rec.done) \in Nat
      /\ Len(rec'.done) \in Nat
  BY PodAssumption DEF IInv, Typed, Extends, Record, OptVersion
<1>2. ASSUME NEW v \in Worker \ {w} PROVE Sound(work[v])'
  <2>1. CASE work[v].pc = "idle"
    BY <2>1 DEF Frame, Sound, Reading
  <2>2. CASE work[v].pc # "idle"
    <3>1. work'[v] = work[v]
      BY DEF Frame
    <3>2. work[v].version \in Nat /\ Sound(work[v])
      BY <2>2, RequestFields, IdleFields, PodAssumption DEF IInv, Typed, Versions
    <3>3. CASE rec.state = "DELIVERY_REPORTED"
      BY <3>1, <3>3, Unsubmitted DEF Sound, Reading
    <3>4. CASE Keeps
      BY <1>1, <3>1, <3>2, <3>4 DEF Keeps, Extends, Sound, Agrees, Reading, Processed
    <3>5. CASE Corrects
      BY SMTT(30), <1>1, <3>1, <3>2, <3>5 DEF Corrects, Extends, Sound, Agrees, Reading, Processed
    <3> QED BY <3>3, <3>4, <3>5
  <2> QED BY <2>1, <2>2
<1> QED BY <1>2

(* The record, the plans and the bundles stay: a step that only moves a request. *)
LEMMA MoveStep ==
  ASSUME IInv, NEW w \in Worker, NEW r \in InHand \cup {Idle}, Becomes(w, r),
         UNCHANGED <<rec, plans, shown, faults>>,
         store' \in [Slot -> Contents \cup {None}],
         journal' \in [Slot -> Ids \cup {Own, None}],
         Sound(work[w])'
  PROVE  IInv'
<1>1. Frame(w) /\ work'[w] = r
  BY BecomesFrame DEF IInv, Typed
<1>2. Extends /\ Keeps
  BY DEF Extends, Keeps, IInv, Typed, Record
<1>3. \A v \in Worker : Sound(work[v])'
  BY <1>1, <1>2, StepOf
<1>4. Typed' /\ Counted(rec)' /\ Rounds(rec)' /\ Shown' /\ Planned' /\ PlanBindsAccepted'
  BY <1>1 DEF IInv, Typed, Frame, Counted, Rounds, Shown, Planned, PlanBindsAccepted,
     Processed, OwnDeadline, ReleasePlan
<1> QED BY <1>3, <1>4 DEF IInv

(* A request that is over. *)
LEMMA EndStep ==
  ASSUME IInv, NEW w \in Worker, End(w), UNCHANGED <<rec, plans, shown, faults>>,
         store' \in [Slot -> Contents \cup {None}],
         journal' \in [Slot -> Ids \cup {Own, None}]
  PROVE  IInv'
<1>1. Becomes(w, Idle)
  BY DEF End
<1>2. work'[w] = Idle /\ work'[w].pc = "idle"
  BY <1>1, IdleFields, BecomesFrame DEF IInv, Typed
<1>3. Sound(work[w])'
  BY <1>2 DEF Sound, Reading
<1> QED BY <1>1, <1>3, IdleFields, MoveStep

(* A request that begins knows what it has just read. *)
LEMMA BeginStep ==
  ASSUME IInv, NEW w \in Worker, NEW r \in InHand, Begin(w, r), Sound(r),
         UNCHANGED <<rec, store, journal, plans, shown, faults>>
  PROVE  IInv'
<1>1. Becomes(w, r)
  BY DEF Begin
<1>2. work'[w] = r
  BY <1>1, BecomesFrame DEF IInv, Typed
<1>3. Sound(work[w])'
  BY <1>2 DEF Sound, Agrees, Processed
<1> QED BY <1>1, <1>3, MoveStep DEF IInv, Typed

(* A request that writes to the record. *)
LEMMA WriteStep ==
  ASSUME IInv, NEW w \in Worker, NEW r \in InHand \cup {Idle},
         Becomes(w, r), UNCHANGED <<store, journal, plans, shown, faults>>,
         Extends, Keeps \/ rec.state = "DELIVERY_REPORTED" \/ Corrects,
         rec.state = "POD_ACCEPTED" => Keeps /\ rec'.reviewDeadline = rec.reviewDeadline,
         Counted(rec)', Rounds(rec)', Sound(work[w])'
  PROVE  IInv'
<1>1. Frame(w) /\ work'[w] = r
  BY BecomesFrame DEF IInv, Typed
<1>2. \A v \in Worker : Sound(work[v])'
  BY <1>1, StepOf
<1>3. rec.podVersion \in Nat /\ rec'.podVersion \in Nat /\ Len(rec.done) \in Nat
      /\ Len(rec'.done) \in Nat
  BY PodAssumption DEF IInv, Typed, Extends, Record, OptVersion
<1>4. Typed'
  BY <1>1 DEF IInv, Typed, Extends, Frame
<1>5. ASSUME NEW b \in shown PROVE b.version \in Nat /\ b.version >= 1
  BY PodAssumption DEF IInv, Typed, Bundle, Versions
<1>6. Shown'
  BY <1>3, <1>5 DEF IInv, Shown, Counted, Keeps, Corrects
<1>7. Planned'
  BY <1>3 DEF IInv, Planned, Processed, Extends
<1>8. ASSUME NEW i \in Processed', rec'.done[i].type = "ACCEPT", plans[i] # None,
             rec'.reviewDeadline = rec'.podVersion
      PROVE  /\ rec'.state = "POD_ACCEPTED"
             /\ plans[i] = ReleasePlan(rec'.podVersion, rec'.contentHash)
  <2>0. Counted(rec')
    BY DEF Counted
  <2>1. i \in Ids
    BY <1>3, <1>4, <1>8, <2>0, EventsBounded, PodAssumption DEF Typed, Processed, Ids
  <2>2. i \in Processed /\ rec.done[i].type = "ACCEPT"
    BY <1>8, <2>1 DEF IInv, Planned, Processed, Extends
  <2>3. rec.state = "POD_ACCEPTED"
    BY <2>2 DEF IInv, Rounds, Processed
  <2>4. Keeps /\ rec.reviewDeadline = rec.podVersion
    BY <1>8, <2>3 DEF Keeps
  <2>5. plans[i] = ReleasePlan(rec.podVersion, rec.contentHash)
    BY <1>8, <2>2, <2>4 DEF IInv, PlanBindsAccepted, OwnDeadline
  <2>6. rec'.state = "POD_ACCEPTED"
    BY <1>8 DEF Rounds, Processed
  <2> QED BY <2>4, <2>5, <2>6 DEF Keeps
<1>9. PlanBindsAccepted'
  BY <1>8 DEF PlanBindsAccepted, OwnDeadline, ReleasePlan
<1> QED BY <1>2, <1>4, <1>6, <1>7, <1>9 DEF IInv

-----------------------------------------------------------------------------
(* The actions *)

(* What the events so far are. *)
LEMMA EventFields ==
  ASSUME IInv
  PROVE  /\ rec \in Record /\ Len(rec.done) \in Nat /\ Len(rec.done) <= 3 * MaxVersion + 1
         /\ rec.podVersion \in Nat /\ rec.podVersion <= MaxVersion
         /\ rec.state # "DELIVERY_REPORTED" =>
              /\ rec.podVersion \in Versions /\ rec.podId \in PodIds
              /\ rec.contentHash \in Contents
         /\ NewIds \subseteq Ids \cup {Own}
<1>1. rec \in Record /\ Counted(rec)
  BY DEF IInv, Typed
<1>2. /\ rec.podVersion \in 0..MaxVersion /\ rec.podId \in PodIds \cup {None}
      /\ rec.contentHash \in Contents \cup {None}
  BY <1>1 DEF Record, OptVersion
<1> QED BY <1>1, <1>2, EventsBounded, PodAssumption DEF Counted, Versions, NewIds

(* A request in hand at a step of its own. *)
LEMMA HandFields ==
  ASSUME IInv, NEW w \in Worker, work[w].pc # "idle"
  PROVE  /\ work[w] \in InHand /\ work[w] # Idle /\ Sound(work[w])
         /\ work[w].version \in Nat /\ work[w].version >= 1 /\ work[w].version <= MaxVersion
<1>1. work[w] \in InHand
  BY IdleFields DEF IInv, Typed
<1> QED BY <1>1, RequestFields, PodAssumption DEF IInv, Versions

(* The request of w at another point of its program. *)
LEMMA AtFields ==
  ASSUME NEW r \in InHand, NEW pc \in Pcs \ {"idle"}
  PROVE  LET m == [r EXCEPT !.pc = pc]
         IN /\ m \in InHand /\ m.pc = pc /\ m.id = r.id /\ m.podId = r.podId
            /\ m.version = r.version /\ m.content = r.content /\ m.deadline = r.deadline
            /\ m.action = r.action
BY DEF InHand

(* The request of w once its event is recorded, under the id it has then. *)
LEMMA RecordedFields ==
  ASSUME NEW r \in InHand, Len(rec.done) + 1 \in Ids
  PROVE  \A pc \in {"reput", "anchor", "plan"} :
         /\ Recorded(r, pc) \in InHand /\ Recorded(r, pc).pc = pc
         /\ Recorded(r, pc).id = Len(rec.done) + 1
         /\ Recorded(r, pc).podId = r.podId /\ Recorded(r, pc).version = r.version
         /\ Recorded(r, pc).content = r.content /\ Recorded(r, pc).deadline = r.deadline
         /\ Recorded(r, pc).action = r.action
<1> DEFINE i == Len(rec.done) + 1
<1>1. i \in Ids
  OBVIOUS
<1>2. \A pc : Recorded(r, pc) = [r EXCEPT !.pc = pc, !.id = i]
  BY DEF Recorded
<1> HIDE DEF i
<1>3. ASSUME NEW pc \in {"reput", "anchor", "plan"}
      PROVE  /\ Recorded(r, pc) \in InHand /\ Recorded(r, pc).pc = pc
             /\ Recorded(r, pc).id = i
             /\ Recorded(r, pc).podId = r.podId /\ Recorded(r, pc).version = r.version
             /\ Recorded(r, pc).content = r.content /\ Recorded(r, pc).deadline = r.deadline
             /\ Recorded(r, pc).action = r.action
  <2> DEFINE n == Recorded(r, pc)
  <2>1. n = [r EXCEPT !.pc = pc, !.id = i]
    BY <1>2
  <2> HIDE DEF n
  <2>2. /\ n \in InHand /\ n.pc = pc /\ n.id = i /\ n.podId = r.podId
        /\ n.version = r.version /\ n.content = r.content /\ n.deadline = r.deadline
        /\ n.action = r.action
    BY <1>1, <2>1 DEF InHand, Pcs
  <2> QED BY <2>2 DEF n
<1> QED BY <1>3 DEF i

(* submitPod begins. *)
LEMMA SubmitStep ==
  ASSUME IInv, NEW w \in Worker, submitPod(w)
  PROVE  IInv'
<1>1. PICK pod \in PodIds, sub \in Submissions :
        Begin(w, [pc |-> "put", id |-> Own, podId |-> pod, version |-> sub[1],
                  content |-> sub[2], deadline |-> 0, action |-> None,
                  replay |-> FALSE])
        /\ UNCHANGED <<rec, store, journal, plans, shown, faults>>
  BY DEF submitPod
<1> DEFINE r == [pc |-> "put", id |-> Own, podId |-> pod, version |-> sub[1],
                 content |-> sub[2], deadline |-> 0, action |-> None,
                 replay |-> FALSE]
<1>2. sub[1] \in Versions /\ sub[2] \in Contents /\ 0 \in OptVersion
  BY PodAssumption DEF Versions, OptVersion
<1>3. r \in InHand /\ r.pc = "put"
  BY <1>2 DEF InHand, Pcs
<1>4. Begin(w, r)
  BY <1>1
<1> HIDE DEF r
<1> QED BY <1>1, <1>3, <1>4, BeginStep DEF Sound, Reading

(* resubmitPod begins: it corrects the version on record. *)
LEMMA ResubmitStep ==
  ASSUME IInv, NEW w \in Worker, resubmitPod(w)
  PROVE  IInv'
<1>1. PICK c \in Contents \ {rec.contentHash} :
        /\ rec.state = "POD_CORRECTION_REQUESTED" /\ rec.podVersion < MaxVersion
        /\ Begin(w, [pc |-> "resubmit", id |-> Own, podId |-> rec.podId,
                     version |-> rec.podVersion + 1, content |-> c,
                     deadline |-> 0, action |-> None,
                     replay |-> FALSE])
        /\ UNCHANGED <<rec, store, journal, plans, shown, faults>>
  BY DEF resubmitPod
<1> DEFINE r == [pc |-> "resubmit", id |-> Own, podId |-> rec.podId,
                 version |-> rec.podVersion + 1, content |-> c,
                 deadline |-> 0, action |-> None,
                 replay |-> FALSE]
<1>2. rec.podVersion \in Nat /\ rec.podVersion >= 1 /\ rec.podVersion < MaxVersion
  BY <1>1, EventFields DEF IInv, Counted
<1>3. /\ rec.podVersion + 1 \in Versions /\ 0 \in OptVersion /\ rec.podId \in PodIds
  BY <1>1, <1>2, EventFields, PodAssumption DEF Versions, OptVersion
<1>4. r \in InHand /\ r.pc = "resubmit" /\ r.podId = rec.podId /\ r.version = rec.podVersion + 1
  BY <1>3 DEF InHand, Pcs
<1>5. Begin(w, r)
  BY <1>1
<1> HIDE DEF r
<1>6. Sound(r)
  BY <1>1, <1>2, <1>4 DEF Sound, Reading
<1> QED BY <1>1, <1>4, <1>5, <1>6, BeginStep DEF Reading

(* startReview begins: it has read the version that may be reviewed. *)
LEMMA StartStep ==
  ASSUME IInv, NEW w \in Worker, NEW i \in Ids \cup {Own}, startReview(w, i)
  PROVE  IInv'
<1> DEFINE s == <<rec.podId, rec.podVersion>>
           pc == IF journal[s] = None THEN "report" ELSE "review"
           rp == i \in Processed /\ rec.state = "POD_UNDER_REVIEW"
           r == [pc |-> pc, id |-> i, podId |-> rec.podId, version |-> rec.podVersion,
                 content |-> store[s], deadline |-> 0, action |-> None,
                 replay |-> rp]
<1>1. /\ rec.state \in Reviewable \cup {"POD_UNDER_REVIEW"} /\ store[s] # None
      /\ Begin(w, r) /\ UNCHANGED <<rec, store, journal, plans, shown, faults>>
  BY DEF startReview, MayStartReview
<1>2. /\ rec.podVersion \in Versions /\ rec.podVersion \in Nat /\ 0 \in OptVersion
      /\ rec.podId \in PodIds
  BY <1>1, EventFields, PodAssumption DEF Versions, OptVersion, Reviewable
<1>3. store[s] \in Contents
  BY <1>1, <1>2 DEF IInv, Typed, Slot
<1>4. pc \in {"report", "review"} /\ rp \in BOOLEAN
  OBVIOUS
<1> HIDE DEF s, pc, rp
<1>5. /\ r \in InHand /\ r.pc \in {"report", "review"} /\ r.podId = rec.podId
      /\ r.version = rec.podVersion
  BY <1>2, <1>3, <1>4 DEF InHand, Pcs
<1> HIDE DEF r
<1>6. Sound(r)
  BY <1>1, <1>2, <1>5 DEF Sound, Reading
<1> QED BY <1>1, <1>5, <1>6, BeginStep DEF Reading, Reviewable

(* shipperReview begins: the record it has read is under the deadline signed. *)
LEMMA ReviewStep ==
  ASSUME IInv, NEW w \in Worker, shipperReview(w)
  PROVE  IInv'
<1>1. PICK b \in shown, a \in ReviewActions, i \in NewIds :
        /\ rec.state = "POD_UNDER_REVIEW" /\ SignatureCovers(b)
        /\ Begin(w, [pc |-> "decide", id |-> i, podId |-> rec.podId,
                     version |-> rec.podVersion, content |-> rec.contentHash,
                     deadline |-> rec.reviewDeadline, action |-> a,
                     replay |-> FALSE])
        /\ UNCHANGED <<rec, store, journal, plans, shown, faults>>
  BY DEF shipperReview
<1> DEFINE r == [pc |-> "decide", id |-> i, podId |-> rec.podId,
                 version |-> rec.podVersion, content |-> rec.contentHash,
                 deadline |-> rec.reviewDeadline, action |-> a,
                 replay |-> FALSE]
<1>2. /\ rec.podVersion \in Versions /\ rec.podVersion \in Nat /\ rec.podId \in PodIds
      /\ rec.contentHash \in Contents /\ i \in Ids \cup {Own}
      /\ rec.reviewDeadline \in OptVersion
  BY <1>1, EventFields DEF Record
<1>3. rec.reviewDeadline \in 1..rec.podVersion
  BY <1>1, <1>2 DEF IInv, Rounds, OptVersion
<1>4. /\ r \in InHand /\ r.pc = "decide" /\ r.podId = rec.podId /\ r.version = rec.podVersion
      /\ r.content = rec.contentHash /\ r.deadline = rec.reviewDeadline /\ r.action = a
  BY <1>2 DEF InHand, Pcs
<1>5. Begin(w, r)
  BY <1>1
<1> HIDE DEF r
<1>6. Sound(r)
  BY <1>1, <1>2, <1>3, <1>4 DEF Sound, Reading, Agrees, SignatureCovers
<1> QED BY <1>1, <1>4, <1>5, <1>6, BeginStep

(* A package that is put. *)
LEMMA PutTyped ==
  ASSUME IInv, NEW r \in InHand, store' = put(<<r.podId, r.version>>, r.content)
  PROVE  store' \in [Slot -> Contents \cup {None}]
BY RequestFields DEF IInv, Typed, put

(* submitPod's package is put, or found there. *)
LEMMA PutSubmittedStep ==
  ASSUME IInv, NEW w \in Worker, PutSubmitted(w)
  PROVE  IInv'
<1> DEFINE r == work[w]
<1>1. /\ r.pc = "put" /\ store' = put(<<r.podId, r.version>>, r.content)
      /\ UNCHANGED <<rec, journal, plans, shown, faults>>
  BY DEF PutSubmitted
<1>2. r \in InHand
  BY <1>1, HandFields
<1>3. /\ store' \in [Slot -> Contents \cup {None}]
      /\ journal' \in [Slot -> Ids \cup {Own, None}]
  BY <1>1, <1>2, PutTyped DEF IInv, Typed
<1>4. CASE Goto(w, "submit")
  <2> DEFINE m == [r EXCEPT !.pc = "submit"]
  <2>1. Becomes(w, m)
    BY <1>4 DEF Goto
  <2>2. m \in InHand /\ m.pc = "submit"
    BY <1>2, AtFields DEF Pcs
  <2> HIDE DEF m
  <2>3. work'[w] = m
    BY <2>1, <2>2, BecomesFrame DEF IInv, Typed
  <2>4. Sound(work[w])'
    BY <2>2, <2>3 DEF Sound, Reading
  <2> QED BY <1>1, <1>3, <2>1, <2>2, <2>4, MoveStep DEF Reading
<1>5. CASE End(w)
  BY <1>1, <1>3, <1>5, EndStep
<1> QED BY <1>4, <1>5 DEF PutSubmitted

(* resubmitPod's package is put, or found there. *)
LEMMA PutResubmittedStep ==
  ASSUME IInv, NEW w \in Worker, PutResubmitted(w)
  PROVE  IInv'
<1>1. /\ work[w].pc = "reput" /\ End(w)
      /\ store' = put(<<work[w].podId, work[w].version>>, work[w].content)
      /\ UNCHANGED <<rec, journal, plans, shown, faults>>
  BY DEF PutResubmitted
<1>2. work[w] \in InHand
  BY <1>1, HandFields
<1>3. /\ store' \in [Slot -> Contents \cup {None}]
      /\ journal' \in [Slot -> Ids \cup {Own, None}]
  BY <1>1, <1>2, PutTyped DEF IInv, Typed
<1> QED BY <1>1, <1>3, EndStep

(* The report of startReview is put, or another is there. *)
LEMMA PutReportStep ==
  ASSUME IInv, NEW w \in Worker, PutReport(w)
  PROVE  IInv'
<1> DEFINE r == work[w]
<1>1. /\ r.pc = "report" /\ UNCHANGED <<rec, store, plans, shown, faults>>
      /\ UNCHANGED journal \/ journal' = [journal EXCEPT ![<<r.podId, r.version>>] = r.id]
      /\ End(w) \/ Goto(w, "review")
  BY DEF PutReport, AdvisoryReport
<1>2. r \in InHand /\ Sound(r)
  BY <1>1, HandFields
<1>3. /\ store' \in [Slot -> Contents \cup {None}]
      /\ journal' \in [Slot -> Ids \cup {Own, None}]
  BY <1>1, <1>2, RequestFields DEF IInv, Typed
<1>4. CASE Goto(w, "review")
  <2> DEFINE m == [r EXCEPT !.pc = "review"]
  <2>1. Becomes(w, m)
    BY <1>4 DEF Goto
  <2>2. /\ m \in InHand /\ m.pc = "review" /\ m.podId = r.podId /\ m.version = r.version
    BY <1>2, AtFields DEF Pcs
  <2> HIDE DEF m
  <2>3. work'[w] = m
    BY <2>1, <2>2, BecomesFrame DEF IInv, Typed
  <2>4. Sound(work[w])'
    BY <1>1, <1>2, <2>2, <2>3 DEF Sound, Reading
  <2> QED BY <1>1, <1>3, <2>1, <2>2, <2>4, MoveStep
<1>5. CASE End(w)
  BY <1>1, <1>3, <1>5, EndStep
<1> QED BY <1>1, <1>4, <1>5

(* The first submission is recorded, or refused. *)
LEMMA ApplySubmittedStep ==
  ASSUME IInv, NEW w \in Worker, ApplySubmitted(w)
  PROVE  IInv'
<1> DEFINE r == work[w]
           c == [rec EXCEPT !.state = "POD_SUBMITTED", !.podId = r.podId,
                            !.podVersion = 1, !.contentHash = r.content]
<1>1. r.pc = "submit" /\ UNCHANGED <<store, journal, plans, shown, faults>>
  BY DEF ApplySubmitted
<1>2. r \in InHand
  BY <1>1, HandFields
<1>3. CASE UNCHANGED rec /\ End(w)
  BY <1>1, <1>3, EndStep DEF IInv, Typed
<1>4. CASE /\ rec.state = "DELIVERY_REPORTED" /\ Commit("SUBMIT", 0, c)
           /\ Becomes(w, Idle)
  <2>1. /\ rec \in Record /\ "POD_SUBMITTED" \in States /\ r.podId \in PodIds
        /\ 1 \in OptVersion /\ 0 \in OptVersion /\ r.content \in Contents
        /\ "SUBMIT" \in EventTypes
    BY <1>2, RequestFields, EventFields, PodAssumption
       DEF States, Submittable, OptVersion, EventTypes
  <2>2. /\ c \in Record /\ c.state = "POD_SUBMITTED" /\ c.podId = r.podId /\ c.podVersion = 1
        /\ c.contentHash = r.content /\ c.done = rec.done
        /\ c.reviewDeadline = rec.reviewDeadline
    BY <2>1 DEF Record
  <2> HIDE DEF c
  <2>3. /\ rec' \in Record /\ rec'.state = "POD_SUBMITTED" /\ rec'.podId = r.podId
        /\ rec'.podVersion = 1 /\ rec'.contentHash = r.content
        /\ rec'.reviewDeadline = rec.reviewDeadline
        /\ Len(rec'.done) = Len(rec.done) + 1 /\ Len(rec.done) \in Nat
        /\ \A i \in 1..Len(rec.done) : rec'.done[i] = rec.done[i]
        /\ rec'.done[Len(rec.done) + 1].type = "SUBMIT"
    BY <1>4, <2>1, <2>2, CommitFields
  <2>4. /\ rec.podVersion = 0 /\ Len(rec.done) = 0 /\ rec.reviewDeadline \in Nat
        /\ rec.reviewDeadline <= 0
    BY <1>4, <2>1, PodAssumption DEF IInv, Counted, Rounds, Record, OptVersion
  <2>5. Extends
    BY <2>3 DEF Extends
  <2>6. Counted(rec)'
    BY <2>1, <2>3, <2>4, PodAssumption DEF Counted, Reviewable
  <2>7. Rounds(rec)'
    BY <2>3, <2>4 DEF Rounds
  <2>8. work'[w] = Idle
    BY <1>4, BecomesFrame DEF IInv, Typed
  <2>9. Sound(work[w])'
    BY <2>8, IdleFields DEF Sound, Reading
  <2> QED BY <1>1, <1>4, <2>5, <2>6, <2>7, <2>9, IdleFields, WriteStep DEF Reading
<1> QED BY <1>3, <1>4 DEF ApplySubmitted, End

(* A correction is recorded. *)
LEMMA ApplyResubmittedStep ==
  ASSUME IInv, NEW w \in Worker, ApplyResubmitted(w)
  PROVE  IInv'
<1> DEFINE r == work[w]
           c == [rec EXCEPT !.state = "POD_RESUBMITTED",
                            !.podVersion = r.version, !.contentHash = r.content]
           n == Recorded(r, "reput")
<1>1. r.pc = "resubmit" /\ UNCHANGED <<store, journal, plans, shown, faults>>
  BY DEF ApplyResubmitted
<1>2. r \in InHand /\ r.version \in Nat /\ r.version >= 1 /\ Sound(r)
  BY <1>1, HandFields
<1>3. CASE UNCHANGED rec /\ End(w)
  BY <1>1, <1>3, EndStep DEF IInv, Typed
<1>4. CASE /\ rec.state = "POD_CORRECTION_REQUESTED" /\ r.version = rec.podVersion + 1
           /\ Commit("RESUBMIT", 0, c) /\ Becomes(w, n)
  <2>1. /\ rec \in Record /\ "POD_RESUBMITTED" \in States /\ r.podId \in PodIds
        /\ r.version \in OptVersion /\ 0 \in OptVersion /\ r.content \in Contents
        /\ "RESUBMIT" \in EventTypes
    BY <1>2, RequestFields, EventFields, PodAssumption
       DEF States, Reviewable, OptVersion, Versions, EventTypes
  <2>2. /\ c \in Record /\ c.state = "POD_RESUBMITTED" /\ c.podId = rec.podId
        /\ c.podVersion = r.version /\ c.contentHash = r.content /\ c.done = rec.done
        /\ c.reviewDeadline = rec.reviewDeadline
    BY <2>1 DEF Record
  <2> HIDE DEF c
  <2>3. /\ rec' \in Record /\ rec'.state = "POD_RESUBMITTED" /\ rec'.podId = rec.podId
        /\ rec'.podVersion = r.version /\ rec'.contentHash = r.content
        /\ rec'.reviewDeadline = rec.reviewDeadline
        /\ Len(rec'.done) = Len(rec.done) + 1 /\ Len(rec.done) \in Nat
        /\ \A i \in 1..Len(rec.done) : rec'.done[i] = rec.done[i]
        /\ rec'.done[Len(rec.done) + 1].type = "RESUBMIT"
    BY <1>4, <2>1, <2>2, CommitFields
  <2>4. /\ rec.podVersion \in Nat /\ rec.podVersion >= 1 /\ rec.podVersion <= MaxVersion
        /\ Len(rec.done) = 3 * rec.podVersion
        /\ rec.reviewDeadline \in Nat /\ rec.reviewDeadline <= rec.podVersion
        /\ rec.podId # None /\ r.content # None /\ r.version = rec.podVersion + 1
    BY <1>4, <2>1, EventFields, PodAssumption DEF IInv, Counted, Rounds, Record, OptVersion
  <2>5. \A i \in 1..Len(rec.done) : rec.done[i].type # "ACCEPT"
    BY <1>4 DEF IInv, Rounds
  <2>6. Extends
    BY <2>3 DEF Extends
  <2>7. Counted(rec)'
    <3> HIDE DEF r, n
    <3>1. /\ rec'.state = "POD_RESUBMITTED" /\ rec'.podId # None /\ rec'.contentHash # None
          /\ rec'.podVersion = rec.podVersion + 1 /\ rec.podVersion \in Nat
          /\ Len(rec'.done) = 3 * rec.podVersion + 1
      BY <2>3, <2>4
    <3>2. rec'.podVersion >= 1 /\ Len(rec'.done) = 3 * rec'.podVersion - 2
      BY <3>1
    <3> QED BY <3>1, <3>2 DEF Counted, Reviewable
  <2>8. Rounds(rec)'
    <3>1. \A i \in 1..Len(rec'.done) : rec'.done[i].type # "ACCEPT"
      BY SMTT(30), <2>3, <2>5
    <3> QED BY SMTT(30), <1>4, <2>3, <2>4, <3>1 DEF Rounds
  <2>9. Len(rec.done) + 1 \in Ids
    BY <2>3, <2>4, PodAssumption DEF Ids
  <2>10. /\ n \in InHand /\ n.pc = "reput" /\ n.podId = r.podId /\ n.version = r.version
         /\ n.content = r.content
    BY <1>2, <2>9, RecordedFields DEF Recorded
  <2> HIDE DEF n
  <2>11. work'[w] = n /\ Frame(w)
    BY <1>4, <2>10, BecomesFrame DEF IInv, Typed
  <2>12. Corrects
    BY <1>4, <2>3 DEF Corrects
  <2>13. Sound(work[w])'
    BY SMTT(30), <1>1, <1>2, <1>4, <2>3, <2>4, <2>10, <2>11 DEF Sound, Reading, Agrees
  <2> QED BY <1>1, <1>4, <2>6, <2>7, <2>8, <2>10, <2>12, <2>13, WriteStep DEF Reading
<1> QED BY <1>3, <1>4 DEF ApplyResubmitted

(* A review starts, or a start sent again goes on to its report. *)
LEMMA ApplyReviewStartedStep ==
  ASSUME IInv, NEW w \in Worker, ApplyReviewStarted(w)
  PROVE  IInv'
<1> DEFINE r == work[w]
           c(d) == [rec EXCEPT !.state = "POD_UNDER_REVIEW", !.reviewDeadline = d]
           n == Recorded(r, "anchor")
           m == [r EXCEPT !.pc = "anchor"]
<1>1. r.pc = "review" /\ UNCHANGED <<store, journal, plans, shown, faults>>
  BY DEF ApplyReviewStarted
<1>2. r \in InHand
  BY <1>1, HandFields
<1>3. CASE UNCHANGED rec /\ End(w)
  BY <1>1, <1>3, EndStep DEF IInv, Typed
<1>4. CASE r.id \in Processed /\ Becomes(w, m) /\ UNCHANGED rec
  <2>1. m \in InHand /\ m.pc = "anchor" /\ m.id = r.id
    BY <1>2, AtFields DEF Pcs
  <2> HIDE DEF m
  <2>2. work'[w] = m
    BY <1>4, <2>1, BecomesFrame DEF IInv, Typed
  <2>3. Sound(work[w])'
    BY <1>4, <2>1, <2>2 DEF Sound, Reading, Processed
  <2> QED BY <1>1, <1>4, <2>1, <2>3, MoveStep DEF Reading, IInv, Typed
<1>5. CASE /\ rec.state \in Reviewable /\ Becomes(w, n)
           /\ \E d \in NewDeadlines : Commit("START", 0, c(d))
  <2>0. PICK d \in NewDeadlines : Commit("START", 0, c(d))
    BY <1>5
  <2>1. /\ rec \in Record /\ "POD_UNDER_REVIEW" \in States /\ "START" \in EventTypes
        /\ 0 \in OptVersion /\ rec.podVersion \in OptVersion /\ rec.reviewDeadline \in OptVersion
    BY EventFields, PodAssumption DEF States, OptVersion, EventTypes, Record
  <2>2. /\ rec.podVersion \in Nat /\ rec.podVersion >= 1 /\ rec.podVersion <= MaxVersion
        /\ Len(rec.done) = 3 * rec.podVersion - 2 /\ rec.podId # None /\ rec.contentHash # None
        /\ rec.reviewDeadline \in Nat /\ rec.reviewDeadline <= rec.podVersion
    BY <1>5, <2>1, EventFields DEF IInv, Counted, Rounds, Reviewable, OptVersion
  <2>3. d \in OptVersion /\ d \in Nat /\ d >= 1 /\ d <= rec.podVersion
    BY <2>1, <2>2 DEF NewDeadlines
  <2>4. /\ c(d) \in Record /\ c(d).state = "POD_UNDER_REVIEW" /\ c(d).podId = rec.podId
        /\ c(d).podVersion = rec.podVersion /\ c(d).contentHash = rec.contentHash
        /\ c(d).done = rec.done /\ c(d).reviewDeadline = d
    BY <2>1, <2>3 DEF Record
  <2> HIDE DEF c, r, n
  <2>5. /\ rec' \in Record /\ rec'.state = "POD_UNDER_REVIEW" /\ rec'.podId = rec.podId
        /\ rec'.podVersion = rec.podVersion /\ rec'.contentHash = rec.contentHash
        /\ rec'.reviewDeadline = d
        /\ Len(rec'.done) = Len(rec.done) + 1 /\ Len(rec.done) \in Nat
        /\ \A i \in 1..Len(rec.done) : rec'.done[i] = rec.done[i]
        /\ rec'.done[Len(rec.done) + 1].type = "START"
    BY <2>0, <2>1, <2>4, CommitFields
  <2>6. \A i \in 1..Len(rec'.done) : rec'.done[i].type # "ACCEPT"
    <3>1. \A i \in 1..Len(rec.done) : rec.done[i].type # "ACCEPT"
      BY <1>5 DEF IInv, Rounds, Reviewable
    <3> QED BY <2>5, <3>1
  <2>7. Extends /\ Keeps
    BY <1>5, <2>5 DEF Extends, Keeps, Reviewable
  <2>8. Counted(rec)'
    <3>1. Len(rec'.done) = 3 * rec'.podVersion - 1 /\ rec'.podVersion >= 1
      BY <2>2, <2>5
    <3> QED BY <2>2, <2>5, <3>1 DEF Counted, Reviewable
  <2>9. Rounds(rec)'
    BY <2>3, <2>5, <2>6 DEF Rounds
  <2>10. Len(rec.done) + 1 \in Ids
    BY <2>2, PodAssumption DEF Ids
  <2>11. n \in InHand /\ n.pc = "anchor" /\ n.id = Len(rec.done) + 1
    BY <1>2, <2>10, RecordedFields DEF n
  <2>12. work'[w] = n
    BY <1>5, <2>11, BecomesFrame DEF IInv, Typed
  <2>13. Sound(work[w])'
    BY <2>5, <2>11, <2>12 DEF Sound, Reading, Processed
  <2>14. rec.state # "POD_ACCEPTED"
    BY <1>5 DEF Reviewable
  <2> QED BY <1>1, <1>5, <2>7, <2>8, <2>9, <2>11, <2>13, <2>14, WriteStep DEF Reading
<1> QED BY <1>3, <1>4, <1>5 DEF ApplyReviewStarted, Goto

(* The report of a version is anchored, whatever the version on record is. *)
LEMMA ApplyAdvisoryAnchoredStep ==
  ASSUME IInv, NEW w \in Worker, ApplyAdvisoryAnchored(w)
  PROVE  IInv'
<1> DEFINE r == work[w]
           s == rec.anchored \cup {r.id}
<1>1. r.pc = "anchor" /\ UNCHANGED <<store, journal, plans, shown, faults>>
  BY DEF ApplyAdvisoryAnchored
<1>2. r \in InHand /\ Sound(r)
  BY <1>1, HandFields
<1>3. CASE UNCHANGED rec /\ End(w)
  BY <1>1, <1>3, EndStep DEF IInv, Typed
<1>4. CASE /\ rec' = [rec EXCEPT !.anchored = s]
           /\ Becomes(w, Idle)
  <2>1. r.id \in Ids /\ r.version \in OptVersion /\ rec \in Record
    BY <1>1, <1>2, RequestFields, EventFields, PodAssumption
       DEF Sound, Processed, Ids, Versions, OptVersion
  <2>2. s \in SUBSET Ids
    BY <2>1 DEF Record
  <2> HIDE DEF s, r
  <2>3. /\ rec' \in Record /\ rec'.state = rec.state /\ rec'.podId = rec.podId
        /\ rec'.podVersion = rec.podVersion /\ rec'.contentHash = rec.contentHash
        /\ rec'.reviewDeadline = rec.reviewDeadline /\ rec'.done = rec.done
    BY <1>4, <2>1, <2>2 DEF Record
  <2>4. Extends /\ Keeps
    BY <2>1, <2>3, EventFields DEF Extends, Keeps
  <2>5. Counted(rec)' /\ Rounds(rec)'
    BY <2>3 DEF IInv, Counted, Rounds
  <2>6. work'[w] = Idle
    BY <1>4, BecomesFrame DEF IInv, Typed
  <2>7. Sound(work[w])'
    BY <2>6, IdleFields DEF Sound, Reading
  <2> QED BY <1>1, <1>4, <2>3, <2>4, <2>5, <2>7, IdleFields, WriteStep DEF Reading
<1> QED BY <1>3, <1>4 DEF ApplyAdvisoryAnchored, End

(* The shipper is shown a bundle of the round under review. *)
LEMMA ReviewBundleStep ==
  ASSUME IInv, getReviewBundle
  PROVE  IInv'
<1> DEFINE s == <<rec.podId, rec.podVersion>>
           b == [deadline |-> rec.reviewDeadline, podId |-> rec.podId,
                 version |-> rec.podVersion, content |-> store[s]]
<1>1. /\ rec.state = "POD_UNDER_REVIEW" /\ store[s] # None /\ shown' = shown \cup {b}
      /\ UNCHANGED <<rec, store, journal, plans, work, faults>>
  BY DEF getReviewBundle
<1>2. /\ rec.podVersion \in Versions /\ rec.podVersion \in Nat /\ rec.podId \in PodIds
      /\ rec.reviewDeadline \in OptVersion
  BY <1>1, EventFields DEF Record
<1>3. store[s] \in Contents
  BY <1>1, <1>2 DEF IInv, Typed, Slot
<1>4. rec.reviewDeadline \in 1..rec.podVersion
  BY <1>1, <1>2 DEF IInv, Rounds, OptVersion
<1> HIDE DEF s
<1>5. /\ b \in Bundle /\ b.podId = rec.podId /\ b.version = rec.podVersion
      /\ b.deadline = rec.reviewDeadline
  BY <1>2, <1>3 DEF Bundle
<1> HIDE DEF b
<1>6. Shown'
  BY <1>1, <1>2, <1>4, <1>5 DEF IInv, Shown
<1>7. \A w \in Worker : Sound(work[w])'
  BY <1>1 DEF IInv, Sound, Agrees, Processed
<1>8. Typed' /\ Counted(rec)' /\ Rounds(rec)' /\ Planned' /\ PlanBindsAccepted'
  BY <1>1, <1>5 DEF IInv, Typed, Counted, Rounds, Planned, PlanBindsAccepted,
     Processed, OwnDeadline, ReleasePlan
<1> QED BY <1>6, <1>7, <1>8 DEF IInv

(* A decision is recorded for the version it was read for, is found there, *)
(* or is refused.                                                          *)
LEMMA ApplyDecisionStep ==
  ASSUME IInv, NEW w \in Worker, ApplyDecision(w)
  PROVE  IInv'
<1> DEFINE r == work[w]
           c == [rec EXCEPT !.state = Decided(r.action)]
           n == Recorded(r, "plan")
           m == [r EXCEPT !.pc = "plan"]
<1>1. r.pc = "decide" /\ UNCHANGED <<store, journal, plans, shown, faults>>
  BY DEF ApplyDecision
<1>2. r \in InHand /\ r.version \in Nat /\ Sound(r)
  BY <1>1, HandFields
<1>3. /\ Agrees(r) /\ r.deadline \in 1..r.version /\ r.action \in ReviewActions
      /\ \E b \in shown : b.deadline = r.deadline
  BY <1>1, <1>2 DEF Sound
<1>4. CASE UNCHANGED rec /\ End(w)
  BY <1>1, <1>4, EndStep DEF IInv, Typed
<1>5. CASE /\ r.id \in Processed
           /\ rec.done[r.id] = [type |-> r.action, deadline |-> r.deadline]
           /\ Becomes(w, m) /\ UNCHANGED rec
  <2>1. /\ m \in InHand /\ m.pc = "plan" /\ m.id = r.id /\ m.podId = r.podId
        /\ m.version = r.version /\ m.content = r.content /\ m.deadline = r.deadline
        /\ m.action = r.action
    BY <1>2, AtFields DEF Pcs
  <2> HIDE DEF m
  <2>2. work'[w] = m
    BY <1>5, <2>1, BecomesFrame DEF IInv, Typed
  <2>3. rec.done[r.id].type = r.action /\ rec.done[r.id].deadline = r.deadline
    BY <1>5
  <2>4. Sound(work[w])'
    BY <1>1, <1>3, <1>5, <2>1, <2>2, <2>3 DEF Sound, Reading, Agrees, Processed
  <2> QED BY <1>1, <1>5, <2>1, <2>4, MoveStep DEF Reading, IInv, Typed
<1>6. CASE /\ Fresh(r) /\ DecisionBinds(r) /\ Commit(r.action, r.deadline, c)
           /\ Becomes(w, n)
  <2>1. /\ rec \in Record /\ r.action \in EventTypes /\ r.deadline \in OptVersion
        /\ Decided(r.action) \in States
    BY <1>2, <1>3, EventFields, RequestFields DEF EventTypes, Decided, ReviewActions, States
  <2>2. rec.state = "POD_UNDER_REVIEW" /\ r.deadline = rec.reviewDeadline
    BY <1>6 DEF DecisionBinds
  <2>3. /\ rec.podVersion \in Nat /\ rec.podVersion >= 1 /\ rec.podVersion <= MaxVersion
        /\ Len(rec.done) = 3 * rec.podVersion - 1 /\ rec.podId # None /\ rec.contentHash # None
        /\ rec.reviewDeadline \in Nat /\ rec.reviewDeadline <= rec.podVersion
        /\ rec.reviewDeadline >= 1
    BY <2>1, <2>2, EventFields, PodAssumption
       DEF IInv, Counted, Rounds, OptVersion, Record
  <2>4. /\ c \in Record /\ c.state = Decided(r.action) /\ c.podId = rec.podId
        /\ c.podVersion = rec.podVersion /\ c.contentHash = rec.contentHash
        /\ c.done = rec.done /\ c.reviewDeadline = rec.reviewDeadline
    BY <2>1 DEF Record
  <2> HIDE DEF c, r, n
  <2>5. /\ rec' \in Record /\ rec'.state = Decided(r.action) /\ rec'.podId = rec.podId
        /\ rec'.podVersion = rec.podVersion /\ rec'.contentHash = rec.contentHash
        /\ rec'.reviewDeadline = rec.reviewDeadline
        /\ Len(rec'.done) = Len(rec.done) + 1 /\ Len(rec.done) \in Nat
        /\ \A i \in 1..Len(rec.done) : rec'.done[i] = rec.done[i]
        /\ rec'.done[Len(rec.done) + 1].type = r.action
        /\ rec'.done[Len(rec.done) + 1].deadline = r.deadline
    BY <1>6, <2>1, <2>4, CommitFields
  <2>6. \A i \in 1..Len(rec.done) : rec.done[i].type # "ACCEPT"
    BY <2>2 DEF IInv, Rounds
  <2>7. Extends /\ Keeps
    BY <2>2, <2>5 DEF Extends, Keeps
  <2>8. Counted(rec)'
    <3>1. Len(rec'.done) = 3 * rec'.podVersion /\ rec'.podVersion >= 1
      BY <2>3, <2>5
    <3>2. rec'.state \in {"POD_CORRECTION_REQUESTED", "POD_ACCEPTED", "POD_DISPUTED"}
      BY <1>3, <2>5 DEF Decided, ReviewActions
    <3> QED BY <2>3, <2>5, <3>1, <3>2 DEF Counted, Reviewable
  <2>9. Rounds(rec)'
    <3>1. ASSUME NEW i \in 1..Len(rec'.done), rec'.done[i].type = "ACCEPT"
          PROVE  rec'.state = "POD_ACCEPTED" /\ rec'.done[i].deadline = rec'.reviewDeadline
      <4>1. i = Len(rec.done) + 1
        BY <2>5, <2>6, <3>1
      <4> QED BY <2>2, <2>5, <3>1, <4>1 DEF Decided
    <3> QED BY <2>3, <2>5, <3>1 DEF Rounds
  <2>10. Len(rec.done) + 1 \in Ids
    BY <2>3, PodAssumption DEF Ids
  <2>11. /\ n \in InHand /\ n.pc = "plan" /\ n.id = Len(rec.done) + 1 /\ n.podId = r.podId
         /\ n.version = r.version /\ n.content = r.content /\ n.deadline = r.deadline
         /\ n.action = r.action
    BY <1>2, <2>10, RecordedFields DEF n
  <2>12. work'[w] = n
    BY <1>6, <2>11, BecomesFrame DEF IInv, Typed
  <2>13. n.id \in Processed'
    BY <2>5, <2>11 DEF Processed
  <2>14. Sound(work[w])'
    BY <1>1, <1>3, <2>5, <2>11, <2>12, <2>13 DEF Sound, Reading, Agrees
  <2> QED BY <1>1, <1>6, <2>2, <2>7, <2>8, <2>9, <2>11, <2>14, WriteStep DEF Reading
<1> QED BY <1>4, <1>5, <1>6 DEF ApplyDecision, Goto

(* A plan built from the record read before binds what was accepted. *)
LEMMA BuildPlanStep ==
  ASSUME IInv, NEW w \in Worker, BuildPlan(w)
  PROVE  IInv'
<1> DEFINE r == work[w]
           p == IF r.action = "ACCEPT" THEN ReleasePlan(r.version, r.content)
                                       ELSE DisputePlan(r.version, r.content)
<1>1. /\ r.pc = "plan" /\ End(w) /\ UNCHANGED <<rec, store, journal, shown, faults>>
      /\ plans' = plans \/ (plans' = [plans EXCEPT ![r.id] = p])
  BY DEF BuildPlan
<1>2. /\ r \in InHand /\ r.version \in Nat /\ Sound(r)
      /\ r.version \in Versions /\ r.content \in Contents
  BY <1>1, HandFields, RequestFields
<1>3. /\ r.id \in Processed /\ rec.done[r.id].type = r.action
      /\ rec.done[r.id].deadline = r.deadline /\ Agrees(r) /\ r.deadline \in 1..r.version
  BY <1>1, <1>2 DEF Sound
<1>4. r.id \in Ids
  BY <1>3, EventFields, PodAssumption DEF Processed, Ids
<1>5. CASE plans' = plans
  BY <1>1, <1>5, EndStep DEF IInv, Typed
<1>6. CASE plans' = [plans EXCEPT ![r.id] = p]
  <2>1. p \in Plan
    BY <1>2 DEF Plan, ReleasePlan, DisputePlan
  <2>2. r.action = "ACCEPT" => p = ReleasePlan(r.version, r.content)
    OBVIOUS
  <2> HIDE DEF p
  <2>3. plans' \in [Ids -> Plan \cup {None}]
    BY <1>6, <2>1 DEF IInv, Typed
  <2>4. Planned'
    BY <1>1, <1>3, <1>6 DEF IInv, Typed, Planned, Processed
  <2>5. ASSUME NEW i \in Processed, rec.done[i].type = "ACCEPT", plans'[i] # None, OwnDeadline
        PROVE  /\ rec.state = "POD_ACCEPTED"
               /\ plans'[i] = ReleasePlan(rec.podVersion, rec.contentHash)
    <3>1. rec.state = "POD_ACCEPTED" /\ rec.done[i].deadline = rec.reviewDeadline
      BY <2>5 DEF IInv, Rounds, Processed
    <3>2. i \in Ids
      BY EventFields, PodAssumption DEF Processed, Ids
    <3>3. CASE i # r.id
      BY <1>6, <2>5, <3>2, <3>3 DEF IInv, Typed, PlanBindsAccepted
    <3>4. CASE i = r.id
      <4>1. plans'[i] = ReleasePlan(r.version, r.content)
        BY <1>3, <1>6, <2>2, <2>5, <3>2, <3>4 DEF IInv, Typed
      <4>2. r.version = rec.podVersion /\ r.content = rec.contentHash
        BY <1>2, <1>3, <2>5, <3>1, <3>4, EventFields DEF OwnDeadline, Agrees
      <4> QED BY <3>1, <4>1, <4>2
    <3> QED BY <3>3, <3>4
  <2>6. PlanBindsAccepted'
    BY <1>1, <2>5 DEF PlanBindsAccepted, OwnDeadline, Processed, ReleasePlan
  <2>7. Becomes(w, Idle)
    BY <1>1 DEF End
  <2>8. Frame(w) /\ work'[w] = Idle
    BY <2>7, BecomesFrame DEF IInv, Typed
  <2>9. Sound(work[w])'
    BY <2>8, IdleFields DEF Sound, Reading
  <2>10. Extends /\ Keeps
    BY <1>1 DEF Extends, Keeps, IInv, Typed, Record
  <2>11. \A v \in Worker : Sound(work[v])'
    BY <1>1, <2>8, <2>9, <2>10, IdleFields, StepOf DEF Reading
  <2>12. Typed' /\ Counted(rec)' /\ Rounds(rec)' /\ Shown'
    BY <1>1, <2>3, <2>8 DEF IInv, Typed, Frame, Counted, Rounds, Shown
  <2> QED BY <2>4, <2>6, <2>11, <2>12 DEF IInv
<1> QED BY <1>1, <1>5, <1>6

(* A plan built again, from the record as it is, binds what was accepted. *)
LEMMA ReplayedAcceptStep ==
  ASSUME IInv, NEW i \in Ids, ReplayedAccept(i)
  PROVE  IInv'
<1>1. /\ i \in Processed /\ plans' = [plans EXCEPT ![i] = RebuiltPlan]
      /\ UNCHANGED <<rec, store, journal, work, shown, faults>>
  BY DEF ReplayedAccept
<1>2. rec.state # "DELIVERY_REPORTED"
  BY <1>1, EventFields DEF IInv, Counted, Processed
<1>3. RebuiltPlan \in Plan
  BY <1>2, EventFields DEF RebuiltPlan, ReleasePlan, Plan
<1>4. plans' \in [Ids -> Plan \cup {None}]
  BY <1>1, <1>3 DEF IInv, Typed
<1>5. Planned'
  BY <1>1 DEF IInv, Typed, Planned, Processed
<1>6. ASSUME NEW j \in Processed, rec.done[j].type = "ACCEPT", plans'[j] # None, OwnDeadline
      PROVE  /\ rec.state = "POD_ACCEPTED"
             /\ plans'[j] = ReleasePlan(rec.podVersion, rec.contentHash)
  <2>1. rec.state = "POD_ACCEPTED" /\ j \in Ids
    BY <1>6, EventFields, PodAssumption DEF IInv, Rounds, Processed, Ids
  <2>2. CASE j = i
    BY <1>1, <2>1, <2>2 DEF IInv, Typed, RebuiltPlan
  <2>3. CASE j # i
    BY <1>1, <1>6, <2>1, <2>3 DEF IInv, Typed, PlanBindsAccepted
  <2> QED BY <2>2, <2>3
<1>7. PlanBindsAccepted'
  BY <1>1, <1>6 DEF PlanBindsAccepted, OwnDeadline, Processed, ReleasePlan
<1>8. \A w \in Worker : Sound(work[w])'
  BY <1>1 DEF IInv, Sound, Agrees, Processed
<1>9. Typed' /\ Counted(rec)' /\ Rounds(rec)' /\ Shown'
  BY <1>1, <1>4 DEF IInv, Typed, Counted, Rounds, Shown
<1> QED BY <1>5, <1>7, <1>8, <1>9 DEF IInv

(* A deadline passes. *)
LEMMA ExpireStep ==
  ASSUME IInv, Expire
  PROVE  IInv'
<1> DEFINE c(s) == [rec EXCEPT !.state = s]
<1>1. UNCHANGED <<store, journal, plans, work, shown, faults>>
  BY DEF Expire
<1>5. PICK s \in {"POD_DEEMED_ACCEPTED", "POD_DISPUTED"} :
        /\ Commit("EXPIRED", 0, c(s))
        /\ \/ (rec.state = "POD_UNDER_REVIEW" /\ s = "POD_DEEMED_ACCEPTED")
           \/ (rec.state = "POD_CORRECTION_REQUESTED" /\ s = "POD_DISPUTED")
  BY DEF Expire
<1>6. rec \in Record /\ s \in States /\ "EXPIRED" \in EventTypes /\ 0 \in OptVersion
  BY EventFields, PodAssumption DEF States, EventTypes, OptVersion
<1>7. /\ c(s) \in Record /\ c(s).state = s /\ c(s).podId = rec.podId
      /\ c(s).podVersion = rec.podVersion /\ c(s).contentHash = rec.contentHash
      /\ c(s).done = rec.done /\ c(s).reviewDeadline = rec.reviewDeadline
  BY <1>6 DEF Record
<1> HIDE DEF c
<1>8. /\ rec' \in Record /\ rec'.state = s /\ rec'.podId = rec.podId
      /\ rec'.podVersion = rec.podVersion /\ rec'.contentHash = rec.contentHash
      /\ rec'.reviewDeadline = rec.reviewDeadline
      /\ Len(rec'.done) = Len(rec.done) + 1 /\ Len(rec.done) \in Nat
      /\ \A i \in 1..Len(rec.done) : rec'.done[i] = rec.done[i]
      /\ rec'.done[Len(rec.done) + 1].type = "EXPIRED"
  BY <1>5, <1>6, <1>7, CommitFields
<1>9. /\ rec.podVersion \in Nat /\ rec.podVersion >= 1 /\ rec.podId # None
      /\ rec.contentHash # None /\ rec.reviewDeadline <= rec.podVersion
  BY <1>5, EventFields DEF IInv, Counted, Rounds
<1>10. \A i \in 1..Len(rec'.done) : rec'.done[i].type # "ACCEPT"
  <2>1. \A i \in 1..Len(rec.done) : rec.done[i].type # "ACCEPT"
    BY <1>5 DEF IInv, Rounds
  <2> QED BY <1>8, <2>1
<1>11. Counted(rec)'
  <2>1. CASE rec.state = "POD_UNDER_REVIEW"
    <3>1. rec'.state = "POD_DEEMED_ACCEPTED" /\ Len(rec'.done) = 3 * rec'.podVersion
      <4>1. Len(rec.done) = 3 * rec.podVersion - 1
        BY <2>1 DEF IInv, Counted
      <4> QED BY <1>5, <1>8, <1>9, <2>1, <4>1
    <3> QED BY <1>8, <1>9, <3>1 DEF Counted, Reviewable
  <2>2. CASE rec.state = "POD_CORRECTION_REQUESTED"
    <3>1. rec'.state = "POD_DISPUTED" /\ Len(rec'.done) = 3 * rec'.podVersion + 1
      BY <1>5, <1>8, <1>9, <2>2 DEF IInv, Counted
    <3> QED BY <1>8, <1>9, <3>1 DEF Counted, Reviewable
  <2> QED BY <1>5, <2>1, <2>2
<1>12. Rounds(rec)'
  BY <1>5, <1>8, <1>9, <1>10 DEF Rounds
<1>13. \A w \in Worker : Sound(work[w])'
  <2> SUFFICES ASSUME NEW w \in Worker PROVE Sound(work[w])'
    OBVIOUS
  <2>1. CASE work[w] = Idle
    BY <1>1, <2>1, IdleFields DEF Sound, Reading
  <2>2. CASE work[w] # Idle
    <3>1. work'[w] = work[w]
      BY <1>1
    <3>2. work[w].version \in Nat /\ Sound(work[w])
      BY <2>2, RequestFields, PodAssumption DEF IInv, Typed, Versions
    <3>3. rec.state = "POD_DISPUTED" => rec'.state = "POD_DISPUTED"
      BY <1>5
    <3>4. rec.state = "POD_CORRECTION_REQUESTED" => rec'.state = "POD_DISPUTED"
      BY <1>5, <1>8
    <3>5. Processed \subseteq Processed' /\ \A i \in Processed : rec'.done[i] = rec.done[i]
      BY <1>8 DEF Processed
    <3>6. Agrees(work[w]) => Agrees(work[w])'
      BY <1>8, <3>1 DEF Agrees
    <3> QED BY SMTT(30), <1>1, <1>8, <1>9, <3>1, <3>2, <3>3, <3>4, <3>5, <3>6 DEF Sound, Reading
  <2> QED BY <2>1, <2>2
<1>14. Typed' /\ Shown'
  BY <1>1, <1>8 DEF IInv, Typed, Shown
<1>16. Planned' /\ PlanBindsAccepted'
  BY <1>1, <1>8, <1>10 DEF IInv, Planned, PlanBindsAccepted, Processed
<1> QED BY <1>11, <1>12, <1>13, <1>14, <1>16 DEF IInv

(* An event is refused for its time, and its request is over. *)
LEMMA RefusedStep ==
  ASSUME IInv, NEW w \in Worker, Refused(w)
  PROVE  IInv'
BY EndStep DEF Refused, IInv, Typed

(* A write fails and its request is over. *)
LEMMA WriteFailsStep ==
  ASSUME IInv, NEW w \in Worker, WriteFails(w)
  PROVE  IInv'
<1>0. faults' \in 0..MaxFaults
  BY PodAssumption DEF WriteFails, IInv, Typed
<1>1. /\ Becomes(w, Idle) /\ faults' \in 0..MaxFaults
      /\ UNCHANGED <<rec, store, journal, plans, shown>>
  BY <1>0 DEF WriteFails, End
<1>2. Frame(w) /\ work'[w] = Idle
  BY <1>1, BecomesFrame DEF IInv, Typed
<1>3. Sound(work[w])'
  BY <1>2, IdleFields DEF Sound, Reading
<1>4. Extends /\ Keeps
  BY <1>1 DEF Extends, Keeps, IInv, Typed, Record
<1>5. \A v \in Worker : Sound(work[v])'
  BY <1>1, <1>2, <1>3, <1>4, IdleFields, StepOf DEF Reading
<1>6. Typed' /\ Counted(rec)' /\ Rounds(rec)' /\ Shown' /\ Planned' /\ PlanBindsAccepted'
  BY <1>1, <1>2 DEF IInv, Typed, Frame, Counted, Rounds, Shown, Planned, PlanBindsAccepted,
     Processed, OwnDeadline, ReleasePlan
<1> QED BY <1>5, <1>6 DEF IInv

(* The process is killed: its requests, reports and plans are gone. *)
LEMMA CrashStep ==
  ASSUME IInv, Crash
  PROVE  IInv'
<1>1. /\ work' = [w \in Worker |-> Idle] /\ journal' = [s \in Slot |-> None]
      /\ plans' = [i \in Ids |-> None] /\ faults' \in 0..MaxFaults
      /\ UNCHANGED <<rec, store, shown>>
  BY PodAssumption DEF Crash, IInv, Typed
<1>2. \A w \in Worker : work'[w].pc = "idle"
  BY <1>1, IdleFields
<1>3. \A w \in Worker : Sound(work[w])'
  BY <1>2 DEF Sound, Reading
<1>4. Typed' /\ Counted(rec)' /\ Rounds(rec)' /\ Shown'
  BY <1>1 DEF IInv, Typed, Counted, Rounds, Shown
<1>5. Planned'
  BY <1>1 DEF Planned
<1>6. PlanBindsAccepted'
  <2>1. Processed' \subseteq Ids
    BY <1>1, EventFields, PodAssumption DEF Processed, Ids
  <2> QED BY <1>1, <2>1 DEF PlanBindsAccepted
<1> QED BY <1>3, <1>4, <1>5, <1>6 DEF IInv

-----------------------------------------------------------------------------
(* The invariant and what it gives *)

(* The invariant holds of a delivery that is reported. *)
LEMMA InitInvariant == Init => IInv
<1> SUFFICES ASSUME Init PROVE IInv
  OBVIOUS
<1>1. /\ rec.state = "DELIVERY_REPORTED" /\ rec.podId = None /\ rec.podVersion = 0
      /\ rec.contentHash = None /\ rec.reviewDeadline = 0 /\ rec.done = <<>>
      /\ Len(rec.done) = 0 /\ shown = {} /\ plans = [i \in Ids |-> None]
  BY DEF Init
<1>2. rec \in Record
  <2>1. "DELIVERY_REPORTED" \in States /\ 0 \in OptVersion /\ {} \in SUBSET Ids
        /\ <<>> \in Seq([type : EventTypes, deadline : OptVersion])
    BY PodAssumption DEF States, Submittable, OptVersion
  <2> QED BY <2>1 DEF Init, Record
<1>3. Typed
  BY <1>2, PodAssumption DEF Init, Typed
<1>4. Counted(rec) /\ Rounds(rec)
  BY <1>1 DEF Counted, Rounds, Reviewable
<1>5. Shown /\ Planned /\ PlanBindsAccepted
  BY <1>1 DEF Shown, Planned, PlanBindsAccepted, Processed
<1>6. \A w \in Worker : work[w].pc = "idle"
  BY IdleFields DEF Init
<1>7. \A w \in Worker : Sound(work[w])
  BY <1>6 DEF Sound, Reading
<1> QED BY <1>3, <1>4, <1>5, <1>7 DEF IInv

(* No step leaves the invariant. *)
LEMMA StepInvariant == IInv /\ [Next]_vars => IInv'
<1> SUFFICES ASSUME IInv, [Next]_vars PROVE IInv'
  OBVIOUS
<1>1. CASE UNCHANGED vars
  BY <1>1 DEF vars, IInv, Typed, Counted, Rounds, Shown, Planned, PlanBindsAccepted,
     Sound, Agrees, Processed, OwnDeadline, ReleasePlan
<1>2. ASSUME NEW w \in Worker, Step(w) PROVE IInv'
  BY <1>2, PutSubmittedStep, ApplySubmittedStep, ApplyResubmittedStep, PutResubmittedStep,
     PutReportStep, ApplyReviewStartedStep, ApplyAdvisoryAnchoredStep, ApplyDecisionStep,
     BuildPlanStep DEF Step
<1>3. CASE Next
  BY <1>2, <1>3, SubmitStep, ResubmitStep, ReviewStep, StartStep, RefusedStep, WriteFailsStep,
     ReviewBundleStep, ReplayedAcceptStep, ExpireStep, CrashStep DEF Next
<1> QED BY <1>1, <1>3

(* The invariant holds always, whatever interleaves, fails or is killed. *)
THEOREM InvariantAlways == Spec => []IInv
BY InitInvariant, StepInvariant, PTL DEF Spec

(* Where the oddities are. *)
Odd == stray \subseteq Slot /\ blind \subseteq Slot

(* A step adds the place of a package, or the version on record. *)
LEMMA OddStep ==
  ASSUME IInv, Odd, [Next]_vars
  PROVE  Odd'
<1>1. CASE UNCHANGED oddities
  BY <1>1 DEF Odd, oddities
<1>2. ASSUME NEW w \in Worker, PutSubmitted(w) PROVE Odd'
  <2>1. <<work[w].podId, work[w].version>> \in Slot
    BY <1>2, HandFields, RequestFields DEF PutSubmitted, Slot
  <2> QED BY <1>2, <2>1 DEF PutSubmitted, Odd
<1>3. ASSUME NEW w \in Worker, ApplyReviewStarted(w) PROVE Odd'
  <2>1. CASE UNCHANGED blind
    BY <1>3, <2>1 DEF ApplyReviewStarted, Odd
  <2>2. CASE rec.state \in Reviewable /\ blind' \subseteq blind \cup {<<rec.podId, rec.podVersion>>}
    <3>1. rec.state # "DELIVERY_REPORTED"
      BY <2>2 DEF Reviewable
    <3>2. <<rec.podId, rec.podVersion>> \in Slot
      BY <3>1, EventFields DEF Slot
    <3>3. UNCHANGED stray
      BY <1>3 DEF ApplyReviewStarted
    <3> QED BY <2>2, <3>2, <3>3 DEF Odd
  <2> QED BY <1>3, <2>1, <2>2 DEF ApplyReviewStarted
<1>4. CASE UNCHANGED vars
  BY <1>1, <1>4 DEF vars
<1>5. CASE Next
  <2>1. \/ UNCHANGED oddities
        \/ \E w \in Worker : PutSubmitted(w) \/ ApplyReviewStarted(w)
    BY <1>5 DEF Next, Step, submitPod, resubmitPod, shipperReview, startReview, Refused,
       WriteFails, getReviewBundle, ReplayedAccept, Expire, Crash, ApplySubmitted,
       ApplyResubmitted, PutResubmitted, PutReport, ApplyAdvisoryAnchored, ApplyDecision,
       BuildPlan
  <2> QED BY <1>1, <1>2, <1>3, <2>1
<1> QED BY <1>4, <1>5

(* The state keeps its shape; above all the correction rounds bound the    *)
(* number of processed actions, which the action ids are drawn from.       *)
THEOREM TypeCorrect == Spec => []TypeOK
<1>1. Init => Odd
  BY DEF Init, Odd
<1>2. IInv /\ Odd => TypeOK
  <2> SUFFICES ASSUME IInv, Odd PROVE TypeOK
    OBVIOUS
  <2>1. InHand \subseteq Request
    BY DEF InHand, Request
  <2> QED BY <2>1, EventFields DEF IInv, Typed, TypeOK, Odd
<1> QED BY <1>1, <1>2, InvariantAlways, OddStep, PTL DEF Spec

(* The release plan of an acceptance authorizes the payment of the very    *)
(* version and content on record, though BuildPlan takes them from a       *)
(* record read before the event was applied, and ReplayedAccept builds the *)
(* plan again after a restart.                                             *)
THEOREM PlanAlwaysBinds == Spec => []PlanBindsAccepted
<1>1. IInv => PlanBindsAccepted
  BY DEF IInv
<1> QED BY <1>1, InvariantAlways, PTL

-----------------------------------------------------------------------------
(* What was accepted was shown.  The submit route takes any podVersion once *)
(* a POD is submitted, and stores a package that resubmitPod cannot replace; *)
(* and the record may move on between the read of startReview and its event. *)

Held == {"POD_UNDER_REVIEW", "POD_ACCEPTED", "POD_DEEMED_ACCEPTED"}

(* The package of the version on record is the one on record, unless the   *)
(* submit route was first; from the second version on it may be missing    *)
(* until the review starts, and if that was started blindly, after.        *)
Packages ==
  /\ rec.podVersion = 1 => store[<<rec.podId, 1>>] = rec.contentHash
  /\ \A p \in PodIds, v \in Versions :
       v >= 2 /\ store[<<p, v>>] # None /\ <<p, v>> \notin stray =>
         /\ p = rec.podId /\ v <= rec.podVersion
         /\ v = rec.podVersion => store[<<p, v>>] = rec.contentHash
  /\ rec.state \in Held =>
       \/ store[<<rec.podId, rec.podVersion>>] # None
       \/ <<rec.podId, rec.podVersion>> \in blind

(* A bundle has the content of its package, which stays, and one was shown *)
(* under the deadline that was accepted.                                   *)
Bundles ==
  /\ \A b \in shown : store[<<b.podId, b.version>>] = b.content
  /\ rec.state = "POD_ACCEPTED" => \E b \in shown : b.deadline = rec.reviewDeadline

(* What a request in hand knows of the store. *)
Handed(r) ==
  /\ r.pc = "submit" => store[<<r.podId, r.version>>] = r.content
  /\ r.pc \in {"report", "review"} => store[<<r.podId, r.version>>] # None

SInv == Packages /\ Bundles /\ \A w \in Worker : Handed(work[w])

(* A package that is there stays. *)
Grows == \A s \in Slot : store[s] # None => store'[s] = store[s]

(* The other requests are what they were. *)
Others(w) == \A v \in Worker \ {w} : work'[v] = work[v]

(* The others know what they knew of the store. *)
LEMMA HandStep ==
  ASSUME IInv, SInv, NEW w \in Worker, Others(w), Grows, Handed(work[w])'
  PROVE  \A v \in Worker : Handed(work[v])'
<1> SUFFICES ASSUME NEW v \in Worker, v # w PROVE Handed(work[v])'
  OBVIOUS
<1>1. CASE work[v].pc = "idle"
  BY <1>1 DEF Others, Handed
<1>2. CASE work[v].pc # "idle"
  <2>1. work[v] \in InHand
    BY <1>2, HandFields
  <2>2. <<work[v].podId, work[v].version>> \in Slot /\ work[v].content # None
    BY <2>1, RequestFields, PodAssumption DEF Slot
  <2>3. Handed(work[v])
    BY DEF SInv
  <2> QED BY <1>2, <2>2, <2>3 DEF Others, Grows, Handed
<1> QED BY <1>1, <1>2

(* Becomes leaves the others as they were. *)
LEMMA BecomesOthers ==
  ASSUME IInv, NEW w \in Worker, NEW r, Becomes(w, r)
  PROVE  Others(w) /\ work'[w] = r
BY DEF IInv, Typed, Becomes, Others

(* Steps that leave the record, the store and the bundles alone. *)
LEMMA QuietStep ==
  ASSUME IInv, SInv, NEW w \in Worker, Others(w), UNCHANGED <<rec, store, shown, stray, blind>>,
         Handed(work[w])'
  PROVE  SInv'
<1>1. Grows
  BY DEF Grows
<1>2. \A v \in Worker : Handed(work[v])'
  BY <1>1, HandStep
<1>3. Packages' /\ Bundles'
  BY DEF SInv, Packages, Bundles
<1> QED BY <1>2, <1>3 DEF SInv

(* A request that is over, and one that goes where it needs no package. *)
LEMMA QuietEnd ==
  ASSUME IInv, SInv, NEW w \in Worker, NEW r, Becomes(w, r),
         r.pc \in {"idle", "reput", "anchor", "plan"}, UNCHANGED <<rec, store, shown, stray, blind>>
  PROVE  SInv'
<1>1. Others(w) /\ work'[w] = r
  BY BecomesOthers
<1>2. Handed(work[w])'
  BY <1>1 DEF Handed
<1> QED BY <1>1, <1>2, QuietStep

(* The requests that begin. *)
LEMMA BeginShown ==
  ASSUME IInv, SInv, NEW w \in Worker,
         \/ submitPod(w) \/ resubmitPod(w) \/ shipperReview(w)
         \/ \E i \in Ids \cup {Own} : startReview(w, i)
  PROVE  SInv'
<1> DEFINE s == <<rec.podId, rec.podVersion>>
<1>1. PICK r :
        /\ Begin(w, r) /\ UNCHANGED <<rec, store, shown, oddities>>
        /\ \/ r.pc \in {"put", "resubmit", "decide"}
           \/ r.pc \in {"report", "review"} /\ <<r.podId, r.version>> = s /\ store[s] # None
  <2>1. CASE submitPod(w)
    <3>1. PICK pod \in PodIds, sub \in Submissions :
            Begin(w, [pc |-> "put", id |-> Own, podId |-> pod, version |-> sub[1],
                      content |-> sub[2], deadline |-> 0, action |-> None,
                      replay |-> FALSE])
            /\ UNCHANGED <<rec, store, journal, plans, shown, faults, oddities>>
      BY <2>1 DEF submitPod
    <3> QED BY <3>1
  <2>2. CASE resubmitPod(w)
    BY <2>2 DEF resubmitPod
  <2>3. CASE shipperReview(w)
    BY <2>3 DEF shipperReview
  <2>4. CASE \E i \in Ids \cup {Own} : startReview(w, i)
    BY <2>4 DEF startReview
  <2> QED BY <2>1, <2>2, <2>3, <2>4
<1>2. Others(w) /\ work'[w] = r
  BY <1>1, BecomesOthers DEF Begin
<1>3. Handed(work[w])'
  BY <1>1, <1>2 DEF Handed
<1> QED BY <1>1, <1>2, <1>3, QuietStep DEF oddities

(* What a put does to the store. *)
LEMMA PutFields ==
  ASSUME IInv, NEW r \in InHand, store' = put(<<r.podId, r.version>>, r.content)
  PROVE  /\ Grows /\ <<r.podId, r.version>> \in Slot
         /\ \A s \in Slot : s # <<r.podId, r.version>> => store'[s] = store[s]
         /\ store[<<r.podId, r.version>>] = None => store'[<<r.podId, r.version>>] = r.content
<1>1. <<r.podId, r.version>> \in Slot
  BY RequestFields DEF Slot
<1> QED BY <1>1 DEF IInv, Typed, put, Grows

(* The version on record, as a place in the store. *)
LEMMA OnRecord ==
  ASSUME IInv, rec.podVersion >= 1
  PROVE  /\ <<rec.podId, rec.podVersion>> \in Slot /\ <<rec.podId, 1>> \in Slot
         /\ rec.contentHash # None /\ rec.state # "DELIVERY_REPORTED"
<1>1. rec.state # "DELIVERY_REPORTED"
  BY DEF IInv, Counted
<1> QED BY <1>1, EventFields, PodAssumption DEF Slot, Versions

(* A package put, which is another's, the one on record or a stray one. *)
LEMMA PutPackages ==
  ASSUME IInv, SInv, NEW r \in InHand, store' = put(<<r.podId, r.version>>, r.content),
         UNCHANGED <<rec, blind>>, stray \subseteq stray',
         \/ r.version = 1
         \/ r.version >= 2 /\ Agrees(r)
         \/ store[<<r.podId, r.version>>] # None
         \/ <<r.podId, r.version>> \in stray'
  PROVE  Packages'
<1>1. /\ Grows /\ <<r.podId, r.version>> \in Slot
      /\ \A s \in Slot : s # <<r.podId, r.version>> => store'[s] = store[s]
      /\ store[<<r.podId, r.version>>] = None => store'[<<r.podId, r.version>>] = r.content
  BY PutFields
<1>2. rec.podVersion = 1 => store'[<<rec.podId, 1>>] = rec.contentHash
  BY <1>1, OnRecord DEF SInv, Packages, Grows
<1>3. rec.state \in Held =>
        \/ store'[<<rec.podId, rec.podVersion>>] # None
        \/ <<rec.podId, rec.podVersion>> \in blind
  <2> SUFFICES ASSUME rec.state \in Held
               PROVE  \/ store'[<<rec.podId, rec.podVersion>>] # None
                      \/ <<rec.podId, rec.podVersion>> \in blind
    OBVIOUS
  <2>1. rec.podVersion >= 1
    BY DEF IInv, Counted, Held
  <2> QED BY <1>1, <2>1, OnRecord DEF SInv, Packages, Grows
<1>4. ASSUME NEW p \in PodIds, NEW v \in Versions, v >= 2, store'[<<p, v>>] # None,
             <<p, v>> \notin stray'
      PROVE  /\ p = rec.podId /\ v <= rec.podVersion
             /\ v = rec.podVersion => store'[<<p, v>>] = rec.contentHash
  <2>1. <<p, v>> \in Slot
    BY DEF Slot
  <2>2. CASE store[<<p, v>>] # None
    BY <1>1, <1>4, <2>1, <2>2 DEF SInv, Packages, Grows
  <2>3. CASE store[<<p, v>>] = None
    <3>1. p = r.podId /\ v = r.version
      BY <1>1, <1>4, <2>1, <2>3
    <3> QED BY <1>1, <1>4, <2>3, <3>1 DEF Agrees
  <2> QED BY <2>2, <2>3
<1> QED BY <1>2, <1>3, <1>4 DEF Packages

(* Both puts. *)
LEMMA PutShown ==
  ASSUME IInv, SInv, NEW w \in Worker, PutSubmitted(w) \/ PutResubmitted(w)
  PROVE  SInv'
<1> DEFINE r == work[w]
           m == [r EXCEPT !.pc = "submit"]
<1>1. /\ r.pc \in {"put", "reput"} /\ store' = put(<<r.podId, r.version>>, r.content)
      /\ UNCHANGED <<rec, shown>>
  BY DEF PutSubmitted, PutResubmitted
<1>2. r \in InHand /\ Sound(r) /\ r.content # None
  BY <1>1, HandFields, RequestFields, PodAssumption
<1>3. /\ UNCHANGED blind /\ stray \subseteq stray'
      /\ \/ r.version = 1
         \/ r.version >= 2 /\ Agrees(r)
         \/ store[<<r.podId, r.version>>] # None
         \/ <<r.podId, r.version>> \in stray'
  <2>1. CASE PutSubmitted(w)
    <3>1. store[<<r.podId, r.version>>] = None => store'[<<r.podId, r.version>>] = r.content
      BY <1>1, <1>2, PutFields
    <3> QED BY <1>2, <2>1, <3>1 DEF PutSubmitted
  <2>2. CASE PutResubmitted(w)
    BY <1>2, <2>2 DEF PutResubmitted, Sound, oddities
  <2> QED BY <2>1, <2>2
<1>4. /\ Grows /\ <<r.podId, r.version>> \in Slot
      /\ store[<<r.podId, r.version>>] = None => store'[<<r.podId, r.version>>] = r.content
  BY <1>1, <1>2, PutFields
<1>5. Packages' /\ Bundles'
  <2>1. Packages'
    BY <1>1, <1>2, <1>3, PutPackages
  <2>2. \A b \in shown : <<b.podId, b.version>> \in Slot /\ b.content # None
    BY PodAssumption DEF IInv, Typed, Bundle, Slot
  <2>3. \A b \in shown : store'[<<b.podId, b.version>>] = b.content
    BY <1>4, <2>2 DEF SInv, Bundles, Grows
  <2> QED BY <1>1, <2>1, <2>3 DEF SInv, Bundles
<1>6. CASE End(w)
  <2>1. Others(w) /\ work'[w] = Idle
    BY <1>6, BecomesOthers DEF End
  <2>2. Handed(work[w])'
    BY <2>1, IdleFields DEF Handed
  <2> QED BY <1>4, <1>5, <2>1, <2>2, HandStep DEF SInv
<1>7. CASE /\ r.pc = "put" /\ Becomes(w, m)
           /\ store'[<<r.podId, r.version>>] # store[<<r.podId, r.version>>]
  <2>1. Others(w) /\ work'[w] = m
    BY <1>7, BecomesOthers
  <2>2. /\ m.pc = "submit" /\ m.podId = r.podId /\ m.version = r.version
        /\ m.content = r.content
    BY <1>2, AtFields DEF Pcs
  <2> HIDE DEF m
  <2>4. store'[<<r.podId, r.version>>] = r.content
    BY <1>4, <1>7 DEF Grows
  <2>5. Handed(work[w])'
    BY <2>1, <2>2, <2>4 DEF Handed
  <2> QED BY <1>4, <1>5, <2>1, <2>5, HandStep DEF SInv
<1> QED BY <1>6, <1>7 DEF PutSubmitted, PutResubmitted, Goto

(* The requests that go on without the record, the store or the bundles. *)
LEMMA QuietShown ==
  ASSUME IInv, SInv, NEW w \in Worker, PutReport(w) \/ BuildPlan(w) \/ WriteFails(w) \/ Refused(w)
  PROVE  SInv'
<1>1. UNCHANGED <<rec, store, shown, stray, blind>>
  BY DEF PutReport, BuildPlan, WriteFails, Refused, oddities
<1>2. CASE End(w)
  BY <1>1, <1>2, QuietEnd, IdleFields DEF End
<1>3. CASE work[w].pc = "report" /\ Goto(w, "review")
  <2> DEFINE m == [work[w] EXCEPT !.pc = "review"]
  <2>1. Others(w) /\ work'[w] = m
    BY <1>3, BecomesOthers DEF Goto
  <2>2. m.pc = "review" /\ m.podId = work[w].podId /\ m.version = work[w].version
    BY <1>3, HandFields, AtFields DEF Pcs
  <2> HIDE DEF m
  <2>3. Handed(work[w])'
    BY <1>1, <1>3, <2>1, <2>2 DEF SInv, Handed
  <2> QED BY <1>1, <2>1, <2>3, QuietStep
<1> QED BY <1>2, <1>3 DEF PutReport, BuildPlan, WriteFails, Refused

(* A step of w that writes to the record. *)
LEMMA WriteShown ==
  ASSUME IInv, SInv, NEW w \in Worker, NEW r, Becomes(w, r),
         r.pc \in {"idle", "reput", "anchor", "plan"}, UNCHANGED <<store, shown>>,
         Packages', Bundles'
  PROVE  SInv'
<1>1. Others(w) /\ work'[w] = r
  BY BecomesOthers
<1>2. Handed(work[w])'
  BY <1>1 DEF Handed
<1>3. Grows
  BY DEF Grows
<1> QED BY <1>1, <1>2, <1>3, HandStep DEF SInv

(* The first submission: its package was put before. *)
LEMMA SubmittedShown ==
  ASSUME IInv, SInv, NEW w \in Worker, ApplySubmitted(w)
  PROVE  SInv'
<1> DEFINE r == work[w]
           c == [rec EXCEPT !.state = "POD_SUBMITTED", !.podId = r.podId,
                            !.podVersion = 1, !.contentHash = r.content]
<1>1. r.pc = "submit" /\ UNCHANGED <<store, shown, stray, blind>>
  BY DEF ApplySubmitted, oddities
<1>2. CASE UNCHANGED rec /\ End(w)
  BY <1>1, <1>2, QuietEnd, IdleFields DEF End
<1>3. CASE /\ rec.state = "DELIVERY_REPORTED" /\ r.version = 1 /\ Commit("SUBMIT", 0, c)
           /\ Becomes(w, Idle)
  <2>1. /\ rec'.state = "POD_SUBMITTED" /\ rec'.podId = r.podId /\ rec'.podVersion = 1
        /\ rec'.contentHash = r.content
    BY <1>3 DEF IInv, Typed, Record, Commit
  <2>2. rec.podVersion = 0
    BY <1>3 DEF IInv, Counted
  <2>3. \A b \in shown : FALSE
    BY <2>2, PodAssumption DEF IInv, Typed, Shown, Bundle, Versions
  <2>4. store[<<r.podId, 1>>] = r.content
    BY <1>1, <1>3 DEF SInv, Handed
  <2>5. \A p \in PodIds, v \in Versions :
          v >= 2 /\ <<p, v>> \notin stray => store[<<p, v>>] = None
    BY <2>2, PodAssumption DEF SInv, Packages, Versions
  <2>6. Packages'
    BY <1>1, <2>1, <2>4, <2>5 DEF Packages, Held
  <2>7. Bundles'
    BY <1>1, <2>1, <2>3 DEF Bundles
  <2> QED BY <1>1, <1>3, <2>6, <2>7, WriteShown, IdleFields
<1> QED BY <1>2, <1>3 DEF ApplySubmitted, End

(* A correction: the package of its version is put after, or never. *)
LEMMA ResubmittedShown ==
  ASSUME IInv, SInv, NEW w \in Worker, ApplyResubmitted(w)
  PROVE  SInv'
<1> DEFINE r == work[w]
           c == [rec EXCEPT !.state = "POD_RESUBMITTED",
                            !.podVersion = r.version, !.contentHash = r.content]
<1>1. r.pc = "resubmit" /\ UNCHANGED <<store, shown, stray, blind>>
  BY DEF ApplyResubmitted, oddities
<1>2. CASE UNCHANGED rec /\ End(w)
  BY <1>1, <1>2, QuietEnd, IdleFields DEF End
<1>3. CASE /\ rec.state = "POD_CORRECTION_REQUESTED" /\ r.version = rec.podVersion + 1
           /\ Commit("RESUBMIT", 0, c) /\ Becomes(w, Recorded(r, "reput"))
  <2>1. /\ rec'.state = "POD_RESUBMITTED" /\ rec'.podId = rec.podId
        /\ rec'.podVersion = r.version
    BY <1>3 DEF IInv, Typed, Record, Commit
  <2>2. /\ rec.podVersion \in Nat /\ rec.podVersion >= 1 /\ rec.podVersion <= MaxVersion
        /\ rec'.podVersion = rec.podVersion + 1
    BY <1>3, <2>1, EventFields DEF IInv, Counted
  <2>4. \A p \in PodIds, v \in Versions :
          v >= 2 /\ store[<<p, v>>] # None /\ <<p, v>> \notin stray =>
            p = rec.podId /\ v <= rec.podVersion
    BY DEF SInv, Packages
  <2>5. Packages'
    BY <1>1, <2>1, <2>2, <2>4, PodAssumption DEF Packages, Held, Versions
  <2>6. Bundles'
    BY <1>1, <2>1 DEF SInv, Bundles
  <2>7. Recorded(r, "reput").pc = "reput"
    <3>1. Len(rec.done) + 1 \in Ids
      <4>1. Len(rec.done) = 3 * rec.podVersion
        BY <1>3 DEF IInv, Counted
      <4> QED BY <2>2, <4>1, PodAssumption DEF Ids
    <3> QED BY <1>1, <3>1, HandFields, RecordedFields
  <2> QED BY <1>1, <1>3, <2>5, <2>6, <2>7, WriteShown
<1> QED BY <1>2, <1>3 DEF ApplyResubmitted

(* A review starts for the version whose package was read, and it is there. *)
LEMMA StartedShown ==
  ASSUME IInv, SInv, NEW w \in Worker, ApplyReviewStarted(w)
  PROVE  SInv'
<1> DEFINE r == work[w]
           c(d) == [rec EXCEPT !.state = "POD_UNDER_REVIEW", !.reviewDeadline = d]
<1>1. r.pc = "review" /\ UNCHANGED <<store, shown, stray>>
  BY DEF ApplyReviewStarted
<1>2. r \in InHand /\ r.version \in Nat /\ r.version \in Versions /\ r.podId \in PodIds /\ Sound(r)
  BY <1>1, HandFields, RequestFields
<1>3. CASE UNCHANGED <<rec, blind>> /\ End(w)
  BY <1>1, <1>3, QuietEnd, IdleFields DEF End
<1>4. CASE UNCHANGED <<rec, blind>> /\ Goto(w, "anchor")
  <2>1. [r EXCEPT !.pc = "anchor"].pc = "anchor"
    BY <1>2, AtFields DEF Pcs
  <2> QED BY <1>1, <1>4, <2>1, QuietEnd DEF Goto
<1>5. CASE /\ Fresh(r) /\ rec.state \in Reviewable
           /\ \E d \in NewDeadlines : Commit("START", 0, c(d))
           /\ Becomes(w, Recorded(r, "anchor"))
           /\ blind' = IF <<r.podId, r.version>> = <<rec.podId, rec.podVersion>>
                       THEN blind ELSE blind \cup {<<rec.podId, rec.podVersion>>}
  <2>1. /\ rec'.state = "POD_UNDER_REVIEW" /\ rec'.podId = rec.podId
        /\ rec'.podVersion = rec.podVersion /\ rec'.contentHash = rec.contentHash
    BY <1>5 DEF IInv, Typed, Record, Commit
  <2>2. rec.podVersion \in Nat /\ rec.podVersion >= 1 /\ rec.podVersion <= MaxVersion
    BY <1>5, EventFields DEF IInv, Counted, Reviewable
  <2>3. \/ store[<<rec.podId, rec.podVersion>>] # None
        \/ <<rec.podId, rec.podVersion>> \in blind'
    <3>1. store[<<r.podId, r.version>>] # None
      BY <1>1 DEF SInv, Handed
    <3> QED BY <1>5, <3>1
  <2>6. Packages'
    BY <1>1, <2>1, <2>3 DEF SInv, Packages
  <2>7. Bundles'
    BY <1>1, <2>1 DEF SInv, Bundles
  <2>8. Recorded(r, "anchor").pc = "anchor"
    <3>1. Len(rec.done) + 1 \in Ids
      <4>1. Len(rec.done) = 3 * rec.podVersion - 2
        BY <1>5 DEF IInv, Counted
      <4> QED BY <2>2, <4>1, PodAssumption DEF Ids
    <3> QED BY <1>2, <3>1, RecordedFields
  <2> QED BY <1>1, <1>5, <2>6, <2>7, <2>8, WriteShown
<1> QED BY <1>3, <1>4, <1>5 DEF ApplyReviewStarted

(* The anchored report is not the package. *)
LEMMA AnchoredShown ==
  ASSUME IInv, SInv, NEW w \in Worker, ApplyAdvisoryAnchored(w)
  PROVE  SInv'
<1>1. UNCHANGED <<store, shown, stray, blind>>
  BY DEF ApplyAdvisoryAnchored, oddities
<1>2. CASE UNCHANGED rec /\ End(w)
  BY <1>1, <1>2, QuietEnd, IdleFields DEF End
<1>3. CASE /\ rec' = [rec EXCEPT !.anchored = @ \cup {work[w].id}]
           /\ Becomes(w, Idle)
  <2>1. /\ rec'.state = rec.state /\ rec'.podId = rec.podId
        /\ rec'.podVersion = rec.podVersion /\ rec'.contentHash = rec.contentHash
        /\ rec'.reviewDeadline = rec.reviewDeadline
    BY <1>3 DEF IInv, Typed, Record
  <2>2. Packages' /\ Bundles'
    BY <1>1, <2>1 DEF SInv, Packages, Bundles
  <2> QED BY <1>1, <1>3, <2>2, WriteShown, IdleFields
<1> QED BY <1>2, <1>3 DEF ApplyAdvisoryAnchored, End

(* A decision is for the round whose deadline a bundle shown has. *)
LEMMA DecisionShown ==
  ASSUME IInv, SInv, NEW w \in Worker, ApplyDecision(w)
  PROVE  SInv'
<1> DEFINE r == work[w]
           c == [rec EXCEPT !.state = Decided(r.action)]
<1>1. r.pc = "decide" /\ UNCHANGED <<store, shown, stray, blind>>
  BY DEF ApplyDecision, oddities
<1>2. r \in InHand /\ Sound(r)
  BY <1>1, HandFields
<1>3. CASE UNCHANGED rec /\ End(w)
  BY <1>1, <1>3, QuietEnd, IdleFields DEF End
<1>4. CASE UNCHANGED rec /\ Goto(w, "plan")
  <2>1. [r EXCEPT !.pc = "plan"].pc = "plan"
    BY <1>2, AtFields DEF Pcs
  <2> QED BY <1>1, <1>4, <2>1, QuietEnd DEF Goto
<1>5. CASE /\ DecisionBinds(r) /\ Commit(r.action, r.deadline, c)
           /\ Becomes(w, Recorded(r, "plan"))
  <2>1. /\ rec'.podId = rec.podId /\ rec'.podVersion = rec.podVersion
        /\ rec'.contentHash = rec.contentHash /\ rec'.reviewDeadline = rec.reviewDeadline
    BY <1>5 DEF IInv, Typed, Record, Commit
  <2>2. rec.state = "POD_UNDER_REVIEW" /\ r.deadline = rec.reviewDeadline
    BY <1>5 DEF DecisionBinds
  <2>3. \E b \in shown : b.deadline = r.deadline
    BY <1>1, <1>2 DEF Sound
  <2>4. Packages'
    BY <1>1, <2>1, <2>2 DEF SInv, Packages, Held
  <2>5. Bundles'
    BY <1>1, <2>1, <2>2, <2>3 DEF SInv, Bundles
  <2>6. Recorded(r, "plan").pc = "plan"
    <3>1. Len(rec.done) + 1 \in Ids
      <4>1. Len(rec.done) = 3 * rec.podVersion - 1 /\ rec.podVersion >= 1
        BY <2>2 DEF IInv, Counted
      <4> QED BY <4>1, EventFields, PodAssumption DEF Ids
    <3> QED BY <1>2, <3>1, RecordedFields
  <2> QED BY <1>1, <1>5, <2>4, <2>5, <2>6, WriteShown
<1> QED BY <1>3, <1>4, <1>5 DEF ApplyDecision

(* A bundle is of the package in the store, which is the one on record. *)
LEMMA BundleShown ==
  ASSUME IInv, SInv, getReviewBundle
  PROVE  SInv'
<1> DEFINE b == [deadline |-> rec.reviewDeadline, podId |-> rec.podId,
                 version |-> rec.podVersion,
                 content |-> store[<<rec.podId, rec.podVersion>>]]
<1>1. /\ rec.state = "POD_UNDER_REVIEW" /\ shown' = shown \cup {b}
      /\ UNCHANGED <<rec, store, work, stray, blind>>
  BY DEF getReviewBundle, oddities
<1>2. store[<<b.podId, b.version>>] = b.content
  OBVIOUS
<1> HIDE DEF b
<1>3. Bundles'
  BY <1>1, <1>2 DEF SInv, Bundles
<1>4. Packages' /\ \A w \in Worker : Handed(work[w])'
  BY <1>1 DEF SInv, Packages, Handed
<1> QED BY <1>3, <1>4 DEF SInv

(* A deadline passes: under review nothing else is on record then. *)
LEMMA ExpireShown ==
  ASSUME IInv, SInv, Expire
  PROVE  SInv'
<1>1. UNCHANGED <<store, shown, work, stray, blind>>
  BY DEF Expire, oddities
<1>2. \A w \in Worker : Handed(work[w])'
  BY <1>1 DEF SInv, Handed
<1>3. /\ rec'.podId = rec.podId /\ rec'.podVersion = rec.podVersion
      /\ rec'.contentHash = rec.contentHash /\ rec'.reviewDeadline = rec.reviewDeadline
      /\ \/ (rec.state = "POD_UNDER_REVIEW" /\ rec'.state = "POD_DEEMED_ACCEPTED")
         \/ rec'.state = "POD_DISPUTED"
  BY DEF Expire, Commit, IInv, Typed, Record
<1>4. Packages' /\ Bundles'
  BY <1>1, <1>3 DEF SInv, Packages, Bundles, Held
<1> QED BY <1>2, <1>4 DEF SInv

(* The steps that touch neither the record nor the store nor the bundles. *)
LEMMA RestShown ==
  ASSUME IInv, SInv, Crash \/ (\E i \in Ids : ReplayedAccept(i))
  PROVE  SInv'
<1>1. /\ UNCHANGED <<rec, store, shown, stray, blind>>
      /\ UNCHANGED work \/ (work' = [w \in Worker |-> Idle])
  BY DEF Crash, ReplayedAccept, oddities
<1>2. \A w \in Worker : Handed(work[w])'
  BY <1>1, IdleFields DEF SInv, Handed
<1> QED BY <1>1, <1>2 DEF SInv, Packages, Bundles

(* What the invariants say of an acceptance. *)
LEMMA InvariantsShow ==
  ASSUME IInv, SInv
  PROVE  AcceptedAsShown
<1> DEFINE s == <<rec.podId, rec.podVersion>>
<1>1. rec.state \in Held =>
        \/ store[s] = rec.contentHash \/ s \in stray \/ (store[s] = None /\ s \in blind)
  <2> SUFFICES ASSUME rec.state \in Held, store[s] # None, s \notin stray
               PROVE  store[s] = rec.contentHash
    BY DEF SInv, Packages
  <2>1. rec.podVersion \in Versions /\ rec.podVersion \in Nat /\ rec.podId \in PodIds
    BY EventFields DEF Held
  <2>2. CASE rec.podVersion = 1
    BY <2>2 DEF SInv, Packages
  <2>3. CASE rec.podVersion >= 2
    BY <2>1, <2>3 DEF SInv, Packages
  <2>4. rec.podVersion >= 1
    BY <2>1, PodAssumption DEF Versions
  <2> QED BY <2>1, <2>2, <2>3, <2>4
<1>2. ASSUME rec.state = "POD_ACCEPTED", OwnDeadline
      PROVE  /\ store[s] # None
             /\ [deadline |-> rec.reviewDeadline, podId |-> rec.podId,
                 version |-> rec.podVersion, content |-> store[s]] \in shown
  <2>1. PICK b \in shown : b.deadline = rec.reviewDeadline
    BY <1>2 DEF SInv, Bundles
  <2>2. b \in Bundle /\ b.version \in Nat /\ rec.podVersion \in Nat
    BY EventFields, PodAssumption DEF IInv, Typed, Bundle, Versions
  <2>3. b.podId = rec.podId /\ b.version <= rec.podVersion /\ b.deadline \in 1..b.version
    BY DEF IInv, Shown
  <2>4. b.version = rec.podVersion
    BY <1>2, <2>1, <2>2, <2>3 DEF OwnDeadline
  <2>5. store[s] = b.content /\ b.content # None
    BY <2>2, <2>3, <2>4, PodAssumption DEF SInv, Bundles, Bundle
  <2> HIDE DEF s
  <2>6. b = [deadline |-> rec.reviewDeadline, podId |-> rec.podId,
             version |-> rec.podVersion, content |-> store[s]]
    BY <2>1, <2>2, <2>3, <2>4, <2>5 DEF Bundle
  <2> QED BY <2>5, <2>6
<1> QED BY <1>1, <1>2 DEF AcceptedAsShown, Held

(* From the start of a review on, the package that the shipper and the     *)
(* adviser read is the one whose hash the record and the escrow plan bind, *)
(* though submitPod and resubmitPod write the two in opposite orders, with *)
(* the two exceptions AcceptedAsShown names: a package the submit route    *)
(* stored under a later version, and a review started by a request that    *)
(* had read an earlier one.  What the shipper accepted is the package in   *)
(* the store, shown to her in the round she signed for.                    *)
THEOREM AcceptedAlwaysShown == Spec => []AcceptedAsShown
<1>1. Init => SInv
  <2> SUFFICES ASSUME Init PROVE SInv
    OBVIOUS
  <2>1. /\ rec.state = "DELIVERY_REPORTED" /\ rec.podVersion = 0 /\ shown = {}
        /\ store = [s \in Slot |-> None] /\ \A w \in Worker : work[w].pc = "idle"
    BY IdleFields DEF Init
  <2>2. Packages
    BY <2>1 DEF Packages, Held, Slot
  <2> QED BY <2>1, <2>2 DEF SInv, Bundles, Handed
<1>2. IInv /\ SInv /\ [Next]_vars => SInv'
  <2> SUFFICES ASSUME IInv, SInv, [Next]_vars PROVE SInv'
    OBVIOUS
  <2>1. CASE UNCHANGED vars
    BY <2>1 DEF vars, oddities, SInv, Packages, Bundles, Handed
  <2>2. ASSUME NEW w \in Worker, Step(w) PROVE SInv'
    BY <2>2, PutShown, QuietShown, SubmittedShown, ResubmittedShown, StartedShown,
       AnchoredShown, DecisionShown DEF Step
  <2>3. CASE Next
    BY <2>2, <2>3, BeginShown, QuietShown, BundleShown, RestShown, ExpireShown DEF Next
  <2> QED BY <2>1, <2>3
<1>3. IInv /\ SInv => AcceptedAsShown
  BY InvariantsShow
<1> QED BY <1>1, <1>2, <1>3, InvariantAlways, PTL DEF Spec
=============================================================================
