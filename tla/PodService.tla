------------------------------ MODULE PodService ------------------------------
(***************************************************************************)
(* The proof-of-delivery service: src/v2/pod/service.ts with its encrypted *)
(* package store, its advisory journal and the escrow plans it keeps in    *)
(* memory, against the lifecycle record of one tender.                     *)
(*                                                                         *)
(* A worker is a request in hand.  Between two awaits of a request the     *)
(* others run, so a worker acts on what it read when it began; the record  *)
(* is written by LifecycleService.apply, which checks the event again.     *)
(* apply and put may fail (a compare-and-set lost, a write error) and the  *)
(* process may be killed; MaxFaults counts both.                           *)
(*                                                                         *)
(* The time of an event is the client's (submittedAt, signedAt), so that    *)
(* an event may be refused for its time whenever it comes, or be taken      *)
(* after one whose request is younger.  A review round is told from another *)
(* by its deadline, which the shipper signs: the deadline of a round is the *)
(* version reviewed, or, when the restart falls on the very instant that    *)
(* makes both windows end together, the deadline of the round before.       *)
(***************************************************************************)
EXTENDS Naturals, Sequences

CONSTANTS
  Worker,          \* requests in hand
  PodIds,
  Contents,        \* package content hashes
  None,            \* no value
  Submissions,     \* the podVersions and contents sent to the submit route
  Resent,          \* the actions whose ids an ACCEPT is sent with again
  MaxVersion,      \* bound on correction rounds
  MaxFaults        \* bound on crashes and failed writes

ASSUME PodAssumption ==
  /\ MaxVersion \in Nat \ {0} /\ MaxFaults \in Nat
  /\ Submissions \subseteq (1..MaxVersion) \X Contents
  /\ Resent \subseteq {"ACCEPT", "REQUEST_CORRECTION", "REJECT_DISPUTE"}
  /\ None \notin Contents \cup PodIds

VARIABLES
  rec,     \* the lifecycle record
  store,   \* PodEncryptedStore: the content of each podId and version
  journal, \* AdvisoryReportStore: the action whose time each report carries
  plans,   \* releasePlans and disputePlans
  work,    \* the requests in hand
  shown,   \* the review bundles the shipper has been given
  faults,
  stray,   \* packages of a later version that the submit route has stored
  blind    \* versions whose review was started by who had read an earlier one

oddities == <<stray, blind>>
vars == <<rec, store, journal, plans, work, shown, faults, oddities>>

Versions == 1..MaxVersion
OptVersion == 0..MaxVersion

(* Action ids, numbered as they are processed: one for the submission, the *)
(* review and the decision, three more for every correction round, and one *)
(* for the deadline of the last.  An id that no other request has is Own   *)
(* until it is processed.                                                  *)
Ids == 1..(3 * MaxVersion + 1)
Own == 0

ReviewActions == {"ACCEPT", "REQUEST_CORRECTION", "REJECT_DISPUTE"}
EventTypes == ReviewActions \cup {"SUBMIT", "RESUBMIT", "START", "EXPIRED"}

Submittable == {"DELIVERY_REPORTED", "POD_SUBMITTED"}
Reviewable == {"POD_SUBMITTED", "POD_RESUBMITTED"}
States == Submittable \cup Reviewable \cup
          {"POD_UNDER_REVIEW", "POD_CORRECTION_REQUESTED", "POD_ACCEPTED",
           "POD_DEEMED_ACCEPTED", "POD_DISPUTED"}

Record ==
  [state : States, podId : PodIds \cup {None}, podVersion : OptVersion,
   contentHash : Contents \cup {None}, reviewDeadline : OptVersion,
   done : Seq([type : EventTypes, deadline : OptVersion]),  \* processedActions
   anchored : SUBSET Ids]                     \* the ones with an actionId:advisory

Slot == PodIds \X Versions

Plan == [kind : {"RELEASE_FULL", "OPEN_DISPUTE"}, version : Versions,
         content : Contents]

Bundle == [deadline : OptVersion, podId : PodIds, version : Versions,
           content : Contents]

Pcs == {"idle", "put", "submit", "resubmit", "reput", "report", "review",
        "anchor", "decide", "plan"}

Request ==
  [pc : Pcs, id : Ids \cup {Own}, podId : PodIds, version : Versions,
   content : Contents, deadline : OptVersion,
   action : ReviewActions \cup {None},    \* of a shipper's review
   replay : BOOLEAN]                      \* startReview found its action processed

Idle == [pc |-> "idle"]

(* The shape of the state. *)
TypeOK ==
  /\ rec \in Record /\ Len(rec.done) <= 3 * MaxVersion + 1
  /\ store \in [Slot -> Contents \cup {None}]
  /\ journal \in [Slot -> Ids \cup {Own, None}]
  /\ plans \in [Ids -> Plan \cup {None}]
  /\ work \in [Worker -> Request \cup {Idle}]
  /\ shown \subseteq Bundle
  /\ faults \in 0..MaxFaults
  /\ stray \subseteq Slot /\ blind \subseteq Slot

Init ==
  /\ rec = [state |-> "DELIVERY_REPORTED", podId |-> None, podVersion |-> 0,
            contentHash |-> None, reviewDeadline |-> 0,
            done |-> <<>>, anchored |-> {}]
  /\ store = [s \in Slot |-> None]
  /\ journal = [s \in Slot |-> None]
  /\ plans = [i \in Ids |-> None]
  /\ work = [w \in Worker |-> Idle]
  /\ shown = {}
  /\ faults = 0
  /\ stray = {} /\ blind = {}

-----------------------------------------------------------------------------
(* Action ids and the lifecycle service *)

Processed == 1..Len(rec.done)

(* A new request has an id of its own, or one that other requests have too *)
(* and that is not processed yet.                                          *)
NewIds == {Own, Len(rec.done) + 1} \cap (Ids \cup {Own})

(* withTransition, which records the action.                               *)
Commit(type, deadline, changes) ==
  rec' = [changes EXCEPT !.done = Append(@, [type |-> type, deadline |-> deadline])]

(* The request of w as it goes on once its event is recorded.              *)
Recorded(r, pc) == [r EXCEPT !.pc = pc, !.id = Len(rec.done) + 1]

(* A new event; Refused has the case that its time is out of order.        *)
Fresh(r) == r.id \notin Processed

Becomes(w, r) == work' = [work EXCEPT ![w] = r]

Begin(w, request) == work[w] = Idle /\ Becomes(w, request)

(* The request of w ends; what it answers is not state.                    *)
End(w) == Becomes(w, Idle)

Goto(w, pc) == Becomes(w, [work[w] EXCEPT !.pc = pc])

(* A round starts.  Its deadline is its own, or by chance the last one's.  *)
NewDeadlines == {rec.podVersion} \cup ({rec.reviewDeadline} \ {0})

-----------------------------------------------------------------------------
(* The package store *)

(* put refuses a version that is there.                                    *)
put(s, content) == [store EXCEPT ![s] = IF @ = None THEN content ELSE @]

-----------------------------------------------------------------------------
(* submitPod: checks, then the package, then the record *)

submitPod(w) ==
  \E pod \in PodIds, sub \in Submissions :
    /\ rec.state \in Submittable
    /\ rec.state = "DELIVERY_REPORTED" => sub[1] = 1
    /\ store[<<pod, sub[1]>>] = None
    /\ Begin(w, [pc |-> "put", id |-> Own, podId |-> pod, version |-> sub[1],
                 content |-> sub[2], deadline |-> 0, action |-> None,
                 replay |-> FALSE])
    /\ UNCHANGED <<rec, store, journal, plans, shown, faults, oddities>>

PutSubmitted(w) ==
  LET r == work[w] IN
  /\ r.pc = "put"
  /\ store' = put(<<r.podId, r.version>>, r.content)
  /\ IF store'[<<r.podId, r.version>>] # store[<<r.podId, r.version>>]
     THEN /\ Goto(w, "submit")
          /\ stray' = IF r.version = 1 THEN stray ELSE stray \cup {<<r.podId, r.version>>}
     ELSE End(w) /\ UNCHANGED stray
  /\ UNCHANGED <<rec, journal, plans, shown, faults, blind>>

(* The ciphertext of a package is new every time, so that an action id     *)
(* already processed is a conflict and never a replay: it ends the request *)
(* as Refused does, which is why a carrier's request has an id of its own. *)
ApplySubmitted(w) ==
  LET r == work[w] IN
  /\ r.pc = "submit"
  /\ IF rec.state = "DELIVERY_REPORTED" /\ r.version = 1 /\ Fresh(r)
     THEN /\ Commit("SUBMIT", 0,
                    [rec EXCEPT !.state = "POD_SUBMITTED", !.podId = r.podId,
                                !.podVersion = 1, !.contentHash = r.content])
          /\ End(w)
     ELSE UNCHANGED rec /\ End(w)
  /\ UNCHANGED <<store, journal, plans, shown, faults, oddities>>

-----------------------------------------------------------------------------
(* resubmitPod: checks, then the record, then the package *)

resubmitPod(w) ==
  \E c \in Contents \ {rec.contentHash} :
    /\ rec.state = "POD_CORRECTION_REQUESTED"
    /\ rec.podVersion < MaxVersion
    /\ Begin(w, [pc |-> "resubmit", id |-> Own, podId |-> rec.podId,
                 version |-> rec.podVersion + 1, content |-> c,
                 deadline |-> 0, action |-> None,
                 replay |-> FALSE])
    /\ UNCHANGED <<rec, store, journal, plans, shown, faults, oddities>>

ApplyResubmitted(w) ==
  LET r == work[w] IN
  /\ r.pc = "resubmit"
  /\ IF /\ rec.state = "POD_CORRECTION_REQUESTED"
        /\ r.version = rec.podVersion + 1
        /\ Fresh(r)
     THEN /\ Commit("RESUBMIT", 0,
                    [rec EXCEPT !.state = "POD_RESUBMITTED",
                                !.podVersion = r.version, !.contentHash = r.content])
          /\ Becomes(w, Recorded(r, "reput"))
     ELSE UNCHANGED rec /\ End(w)
  /\ UNCHANGED <<store, journal, plans, shown, faults, oddities>>

PutResubmitted(w) ==
  LET r == work[w] IN
  /\ r.pc = "reput"
  /\ store' = put(<<r.podId, r.version>>, r.content)
  /\ End(w)
  /\ UNCHANGED <<rec, journal, plans, shown, faults, oddities>>

-----------------------------------------------------------------------------
(* startReview: the advisory report, then two events *)

MayStartReview(i) ==
  \/ i \in Processed /\ rec.state = "POD_UNDER_REVIEW"
  \/ rec.state \in Reviewable

(* Action ids come from new requests and from earlier starts sent again;   *)
(* the id of another kind of action is refused or only dates the report.   *)
startReview(w, i) ==
  LET s == <<rec.podId, rec.podVersion>>
      replaying == i \in Processed /\ rec.state = "POD_UNDER_REVIEW"
  IN
  /\ i \in NewIds \cup {j \in Processed : rec.done[j].type = "START"}
  /\ MayStartReview(i)
  /\ store[s] # None
  /\ replaying => journal[s] = None    \* otherwise it only answers
  /\ Begin(w, [pc |-> IF journal[s] = None THEN "report" ELSE "review",
               id |-> i, podId |-> rec.podId, version |-> rec.podVersion,
               content |-> store[s], deadline |-> 0, action |-> None,
               replay |-> replaying])
  /\ UNCHANGED <<rec, store, journal, plans, shown, faults, oddities>>

(* advise: all of a report follows from the package, save for its time.    *)
AdvisoryReport(r) == r.id

(* A report that carries another time is a conflict.                       *)
PutReport(w) ==
  LET r == work[w]
      s == <<r.podId, r.version>>
  IN
  /\ r.pc = "report"
  /\ IF journal[s] = None \/ (journal[s] = AdvisoryReport(r) /\ r.id # Own)
     THEN /\ journal' = [journal EXCEPT ![s] = AdvisoryReport(r)]
          /\ IF r.replay THEN End(w) ELSE Goto(w, "review")
     ELSE UNCHANGED journal /\ End(w)
  /\ UNCHANGED <<rec, store, plans, shown, faults, oddities>>

(* The record may have moved on to another version since it was read.      *)
ApplyReviewStarted(w) ==
  LET r == work[w]
      read == <<r.podId, r.version>>
      reviewed == <<rec.podId, rec.podVersion>>
  IN
  /\ r.pc = "review"
  /\ \/ /\ Fresh(r) /\ rec.state \in Reviewable
        /\ \E d \in NewDeadlines :
             Commit("START", 0,
                    [rec EXCEPT !.state = "POD_UNDER_REVIEW", !.reviewDeadline = d])
        /\ Becomes(w, Recorded(r, "anchor"))
        /\ blind' = IF read = reviewed THEN blind ELSE blind \cup {reviewed}
     \/ /\ r.id \in Processed /\ rec.done[r.id].type = "START"
        /\ Goto(w, "anchor") /\ UNCHANGED <<rec, blind>>
     \/ /\ IF r.id \in Processed THEN rec.done[r.id].type # "START"
                                 ELSE rec.state \notin Reviewable
        /\ End(w) /\ UNCHANGED <<rec, blind>>
  /\ UNCHANGED <<store, journal, plans, shown, faults, stray>>

ApplyAdvisoryAnchored(w) ==
  LET r == work[w] IN
  /\ r.pc = "anchor"
  /\ IF r.id \in rec.anchored
     THEN UNCHANGED rec /\ End(w)
     ELSE /\ rec' = [rec EXCEPT !.anchored = @ \cup {r.id}]
          /\ End(w)
  /\ UNCHANGED <<store, journal, plans, shown, faults, oddities>>

-----------------------------------------------------------------------------
(* The shipper *)

(* availableActions is not empty only under review.                        *)
getReviewBundle ==
  LET s == <<rec.podId, rec.podVersion>> IN
  /\ rec.state = "POD_UNDER_REVIEW"
  /\ store[s] # None
  /\ shown' = shown \cup
       {[deadline |-> rec.reviewDeadline, podId |-> rec.podId,
         version |-> rec.podVersion, content |-> store[s]]}
  /\ UNCHANGED <<rec, store, journal, plans, work, faults, oddities>>

(* Mutant: the signature is verified without the deadline.                 *)
CoversPod(b) == b.podId = rec.podId

(* What she signs, having seen bundle b, covers the POD and the deadline.  *)
SignatureCovers(b) == b.podId = rec.podId /\ b.deadline = rec.reviewDeadline

(* A review under an action id that is not processed yet.                  *)
shipperReview(w) ==
  \E b \in shown, a \in ReviewActions, i \in NewIds :
    /\ rec.state = "POD_UNDER_REVIEW"
    /\ SignatureCovers(b)
    /\ Begin(w, [pc |-> "decide", id |-> i, podId |-> rec.podId,
                 version |-> rec.podVersion, content |-> rec.contentHash,
                 deadline |-> rec.reviewDeadline, action |-> a,
                 replay |-> FALSE])
    /\ UNCHANGED <<rec, store, journal, plans, shown, faults, oddities>>

Decided(a) ==
  CASE a = "ACCEPT" -> "POD_ACCEPTED"
    [] a = "REQUEST_CORRECTION" -> "POD_CORRECTION_REQUESTED"
    [] a = "REJECT_DISPUTE" -> "POD_DISPUTED"

DecisionBinds(r) ==
  /\ rec.state = "POD_UNDER_REVIEW"
  /\ r.podId = rec.podId
  /\ r.deadline = rec.reviewDeadline

ApplyDecision(w) ==
  LET r == work[w]
      replayed == /\ r.id \in Processed
                  /\ rec.done[r.id] = [type |-> r.action, deadline |-> r.deadline]
  IN
  /\ r.pc = "decide"
  /\ \/ /\ Fresh(r) /\ DecisionBinds(r)
        /\ Commit(r.action, r.deadline, [rec EXCEPT !.state = Decided(r.action)])
        /\ Becomes(w, Recorded(r, "plan"))
     \/ replayed /\ Goto(w, "plan") /\ UNCHANGED rec
     \/ /\ ~replayed /\ ~(Fresh(r) /\ DecisionBinds(r))
        /\ End(w) /\ UNCHANGED rec
  /\ UNCHANGED <<store, journal, plans, shown, faults, oddities>>

ReleasePlan(version, content) ==
  [kind |-> "RELEASE_FULL", version |-> version, content |-> content]

DisputePlan(version, content) ==
  [kind |-> "OPEN_DISPUTE", version |-> version, content |-> content]

(* The plan is built from the record read before the event was applied.    *)
(* The service is not told to require the bindings of the live deployment: *)
(* only the live scripts do, which LivePhases models.                      *)
BuildPlan(w) ==
  LET r == work[w] IN
  /\ r.pc = "plan"
  /\ plans' =
       IF r.action = "REQUEST_CORRECTION" \/ plans[r.id] # None THEN plans
       ELSE [plans EXCEPT ![r.id] = IF r.action = "ACCEPT"
                                    THEN ReleasePlan(r.version, r.content)
                                    ELSE DisputePlan(r.version, r.content)]
  /\ End(w)
  /\ UNCHANGED <<rec, store, journal, shown, faults, oddities>>

(* Mutant: a plan lost in a restart is not built again.                    *)
ReplayFindsPlan(i) == FALSE

ReplayBuildsPlan(i) == plans[i] = None /\ rec.podId # None

(* Mutant: the plan is built again for the first version.                  *)
FirstVersionPlan == ReleasePlan(1, rec.contentHash)

RebuiltPlan == ReleasePlan(rec.podVersion, rec.contentHash)

(* ACCEPT with an action id that was processed, as whatever it was.        *)
ReplayedAccept(i) ==
  /\ i \in Processed /\ rec.done[i].type \in Resent
  /\ ReplayBuildsPlan(i)
  /\ plans' = [plans EXCEPT ![i] = RebuiltPlan]
  /\ UNCHANGED <<rec, store, journal, work, shown, faults, oddities>>

-----------------------------------------------------------------------------
(* Deadlines and faults *)

(* POD_REVIEW_DEADLINE_EXPIRED and POD_CORRECTION_DEADLINE_EXPIRED.  No    *)
(* part of the program sends them by itself.                               *)
Expire ==
  /\ \/ /\ rec.state = "POD_UNDER_REVIEW"
        /\ Commit("EXPIRED", 0, [rec EXCEPT !.state = "POD_DEEMED_ACCEPTED"])
     \/ /\ rec.state = "POD_CORRECTION_REQUESTED"
        /\ Commit("EXPIRED", 0, [rec EXCEPT !.state = "POD_DISPUTED"])
  /\ UNCHANGED <<store, journal, plans, work, shown, faults, oddities>>

(* The lifecycle refuses the event for its time, which is before updatedAt *)
(* or after the deadline.  The two events of startReview have one time, so *)
(* the second is out of order only after an event of another request.      *)
Refused(w) ==
  LET r == work[w] IN
  /\ \/ r.pc \in {"submit", "resubmit", "review", "decide"} /\ Fresh(r)
     \/ r.pc = "anchor" /\ r.id # Len(rec.done)
  /\ End(w)
  /\ UNCHANGED <<rec, store, journal, plans, shown, faults, oddities>>

(* apply or put throws: the request ends where it is.                      *)
WriteFails(w) ==
  /\ work[w] # Idle /\ work[w].pc # "plan"
  /\ faults < MaxFaults /\ faults' = faults + 1
  /\ End(w)
  /\ UNCHANGED <<rec, store, journal, plans, shown, oddities>>

(* The process is killed and started again: its memory is gone.            *)
Crash ==
  /\ faults < MaxFaults /\ faults' = faults + 1
  /\ work' = [w \in Worker |-> Idle]
  /\ journal' = [s \in Slot |-> None]
  /\ plans' = [i \in Ids |-> None]
  /\ UNCHANGED <<rec, store, shown, oddities>>

Step(w) ==
  \/ PutSubmitted(w) \/ ApplySubmitted(w)
  \/ ApplyResubmitted(w) \/ PutResubmitted(w)
  \/ PutReport(w) \/ ApplyReviewStarted(w) \/ ApplyAdvisoryAnchored(w)
  \/ ApplyDecision(w) \/ BuildPlan(w)

Next ==
  \/ \E w \in Worker :
       \/ submitPod(w) \/ resubmitPod(w) \/ shipperReview(w)
       \/ \E i \in Ids \cup {Own} : startReview(w, i)
       \/ Step(w) \/ Refused(w) \/ WriteFails(w)
  \/ getReviewBundle
  \/ \E i \in Ids : ReplayedAccept(i)
  \/ Expire
  \/ Crash

Spec == Init /\ [][Next]_vars

(* The retry of an acceptance that was recorded.                           *)
RetryAccept ==
  \E i \in Processed : rec.done[i].type = "ACCEPT" /\ ReplayedAccept(i)

(* A request in hand is carried on; an acceptance is sent again until its  *)
(* plan is answered.                                                       *)
Fairness ==
  /\ \A w \in Worker : WF_vars(Step(w))
  /\ WF_vars(RetryAccept)

FairSpec == Spec /\ Fairness

-----------------------------------------------------------------------------
(* Properties *)

(* Two rounds with one deadline cannot be told apart by a signature.       *)
OwnDeadline == rec.reviewDeadline = rec.podVersion

(* From the start of a review on, the package in the store, which is what  *)
(* the shipper and the adviser read, is the one whose hash the record and  *)
(* the escrow plan bind, though the two are written apart, in one order by *)
(* submitPod and in the other by resubmitPod.  There are two exceptions,   *)
(* and no third: the submit route has stored a package under the version   *)
(* of a later correction, which the correction's own put cannot replace;   *)
(* and a review was started by a request that had read an earlier version, *)
(* before the package of this one is put.  And what the shipper accepts is *)
(* the package in the store, which she was shown in the round she signed   *)
(* for: an acceptance read before a correction round and applied after it  *)
(* is refused.                                                             *)
AcceptedAsShown ==
  LET s == <<rec.podId, rec.podVersion>> IN
  /\ rec.state \in {"POD_UNDER_REVIEW", "POD_ACCEPTED", "POD_DEEMED_ACCEPTED"} =>
       \/ store[s] = rec.contentHash
       \/ s \in stray
       \/ store[s] = None /\ s \in blind
  /\ rec.state = "POD_ACCEPTED" /\ OwnDeadline =>
       /\ store[s] # None
       /\ [deadline |-> rec.reviewDeadline, podId |-> rec.podId,
           version |-> rec.podVersion, content |-> store[s]] \in shown

(* The release plan of an acceptance authorizes the payment of the very    *)
(* version and content that the record says was accepted, though it is     *)
(* built from a record read before, or built again after a restart.        *)
PlanBindsAccepted ==
  \A i \in Processed :
    rec.done[i].type = "ACCEPT" /\ plans[i] # None /\ OwnDeadline =>
      /\ rec.state = "POD_ACCEPTED"
      /\ plans[i] = ReleasePlan(rec.podVersion, rec.contentHash)

(* The acceptance of a POD ends in a release plan, also when the process   *)
(* was killed before it was built or after it was answered.                *)
AcceptedGetsItsPlan ==
  rec.state = "POD_ACCEPTED" ~>
    \E i \in Ids : plans[i] # None /\ plans[i].kind = "RELEASE_FULL"
=============================================================================
