------------------------ MODULE LifecycleStoreProofs -------------------------
(***************************************************************************)
(* Proofs that the lock file and the compare-and-set under it make the     *)
(* lifecycle file safe, for any number of processes, events, calls and     *)
(* crashes: some facts always (Plain), the others until a lock file is     *)
(* taken from a call that relies on it (IInv while stolen is empty).       *)
(***************************************************************************)
EXTENDS LifecycleStore, TLAPS

(* No two entries of a record have the same action id. *)
Distinct(s) == \A i, j \in DOMAIN s : s[i].action = s[j].action => i = j

Call ==
  [pc: Steps, next: Seq(Commits), token: Nat, triedAt: Nat, deadline: Nat,
   inspected: Nat, outcome: Outcomes]

FilesType ==
  /\ file \in Seq(Commits)
  /\ lock \in LockMetadata \cup {NoLock} /\ lock.token <= calls
  /\ aside \in [1..MaxCalls -> LockMetadata \cup {NoLock}]
  /\ acked \subseteq Commits /\ stolen \subseteq {"slowHolder", "replacedLock"}
  /\ now \in Times /\ calls \in 0..MaxCalls /\ crashes \in 0..MaxCrashes

(* A call has a token of its own.                                           *)
Unique ==
  \A v, w \in Writers :
    v # w /\ writer[v].token = writer[w].token => At(v, "idle") /\ At(w, "idle")

Numbers(w) ==
  /\ writer[w].token \in 0..calls /\ writer[w].inspected \in 0..calls
  /\ writer[w].triedAt \in 0..now
  /\ ~At(w, "idle") => writer[w].token > 0

(* A call under way has a token and a record to write that commits no       *)
(* action twice.                                                            *)
Means(w) == ~At(w, "idle") => Distinct(writer[w].next) /\ writer[w].next # <<>>

(* The invariant of every step, whatever becomes of the locks. *)
Plain ==
  /\ FilesType /\ writer \in [Writers -> Call] /\ Unique
  /\ \A w \in Writers : Numbers(w) /\ Means(w)
  /\ Distinct(file)

(* Whoever is inside owns the lock file, so that only one is.               *)
Owns(w) == Inside(w) => lock.token = writer[w].token

(* What a call inside means to write extends the record by one entry, or   *)
(* is the record.                                                          *)
Fits(w) ==
  /\ writer[w].pc \in {"write", "rename"} => assertCasPreconditions(w)
  /\ At(w, "verify") => file = writer[w].next
  /\ writer[w].outcome # "NONE" => writer[w].pc \in {"release", "unlink"}
  /\ writer[w].outcome = "APPLIED" => file = writer[w].next

(* What was answered is in the record. *)
AckedKept == acked \subseteq ToSet(file)

(* The invariant of the steps that steal no lock. *)
IInv == Plain /\ AckedKept /\ \A w \in Writers : Owns(w) /\ Fits(w)

-----------------------------------------------------------------------------
(* How a step changes its own call *)

(* The other processes' calls are as they were. *)
Frame(w) == \A v \in Writers \ {w} : writer'[v] = writer[v]

SameCall(w) ==
  /\ writer'[w].next = writer[w].next /\ writer'[w].token = writer[w].token
  /\ writer'[w].triedAt = writer[w].triedAt
  /\ writer'[w].inspected = writer[w].inspected

(* A token is kept, dropped at the end of the call, or new. *)
TokenOk(w) ==
  \/ writer'[w].token = writer[w].token /\ ~At(w, "idle")
  \/ At(w, "idle")' /\ writer'[w].token = 0
  \/ writer'[w].token = calls + 1

(* A lock file is there exactly when it has a token. *)
LEMMA LockToken ==
  ASSUME FilesType
  PROVE  lock.token \in 0..calls /\ (lock # NoLock <=> lock.token # 0)
BY StoreConstants DEF FilesType, LockMetadata, NoLock, Times

(* A call with no step left is well formed. *)
LEMMA IdleCall == Idle \in Call
BY DEF Idle, Call, Steps, Outcomes

(* GoTo moves the call's program counter and nothing else. *)
LEMMA Moves ==
  ASSUME writer \in [Writers -> Call], NEW w \in Writers, NEW pc \in Steps, GoTo(w, pc)
  PROVE  /\ writer' \in [Writers -> Call] /\ Frame(w) /\ SameCall(w)
         /\ writer'[w].pc = pc /\ writer'[w].outcome = writer[w].outcome
<1>1. /\ writer' = [writer EXCEPT ![w] = writer'[w]]
      /\ writer'[w] = [writer[w] EXCEPT !.pc = pc]
      /\ writer[w] \in Call
  BY DEF GoTo
<1>2. writer'[w] \in Call
  BY <1>1 DEF Call
<1> QED BY <1>1, <1>2 DEF Frame, SameCall, Call

(* Release moves it to the release of the lock with an outcome. *)
LEMMA Releases ==
  ASSUME writer \in [Writers -> Call], NEW w \in Writers, NEW out \in Outcomes,
         Release(w, out)
  PROVE  /\ writer' \in [Writers -> Call] /\ Frame(w) /\ SameCall(w)
         /\ writer'[w].pc = "release" /\ writer'[w].outcome = out
<1>1. /\ writer' = [writer EXCEPT ![w] = writer'[w]]
      /\ writer'[w] = [writer[w] EXCEPT !.pc = "release", !.outcome = out]
      /\ writer[w] \in Call
  BY DEF Release
<1>2. writer'[w] \in Call
  BY <1>1 DEF Call, Steps
<1> QED BY <1>1, <1>2 DEF Frame, SameCall, Call

-----------------------------------------------------------------------------
(* What holds whatever becomes of the locks *)

(* What a step of process w must satisfy for Plain to hold again: the       *)
(* other processes' tokens differ from its own.                             *)
LEMMA PlainOf ==
  ASSUME Plain, NEW w \in Writers, writer' \in [Writers -> Call], Frame(w),
         now' = now, calls' \in {calls, calls + 1}, FilesType', TokenOk(w),
         Numbers(w)', Means(w)', Distinct(file)'
  PROVE  Plain'
<1>0. calls \in Nat /\ calls' >= calls
  BY StoreConstants DEF Plain, FilesType
<1>1. Unique'
  <2> SUFFICES ASSUME NEW u \in Writers, NEW v \in Writers, u # v,
                      writer'[u].token = writer'[v].token
               PROVE  At(u, "idle")' /\ At(v, "idle")'
    BY DEF Unique
  <2>1. \A x \in Writers : /\ writer[x].token \in 0..calls
                           /\ ~At(x, "idle") => writer[x].token > 0
    BY DEF Plain, Numbers
  <2>2. ASSUME NEW x \in Writers \ {w}, writer'[x].token = writer'[w].token
        PROVE  At(x, "idle")' /\ At(w, "idle")'
    <3>1. writer'[x] = writer[x]
      BY DEF Frame
    <3>2. CASE writer'[w].token = writer[w].token /\ ~At(w, "idle")
      BY <2>2, <3>1, <3>2 DEF Plain, Unique
    <3>3. CASE At(w, "idle")' /\ writer'[w].token = 0
      BY <2>1, <2>2, <3>1, <3>3 DEF At
    <3>4. CASE writer'[w].token = calls + 1
      BY <1>0, <2>1, <2>2, <3>1, <3>4
    <3> QED BY <3>2, <3>3, <3>4 DEF TokenOk
  <2>3. CASE u # w /\ v # w
    <3>1. writer'[u] = writer[u] /\ writer'[v] = writer[v]
      BY <2>3 DEF Frame
    <3> QED BY <3>1 DEF Plain, Unique, At
  <2> QED BY <2>2, <2>3
<1>2. ASSUME NEW v \in Writers \ {w} PROVE Numbers(v)' /\ Means(v)'
  <2>1. writer'[v] = writer[v] /\ Numbers(v) /\ Means(v)
    BY DEF Frame, Plain
  <2> QED BY <1>0, <2>1 DEF Numbers, Means, At
<1> QED BY <1>1, <1>2 DEF Plain

(* A call that goes on with what it has. *)
LEMMA PlainOn ==
  ASSUME Plain, NEW w \in Writers, writer' \in [Writers -> Call], Frame(w), SameCall(w),
         ~At(w, "idle"), UNCHANGED <<now, calls>>, FilesType', Distinct(file)'
  PROVE  Plain'
<1>1. Numbers(w)' /\ Means(w)' /\ TokenOk(w)
  BY DEF Plain, Numbers, Means, At, SameCall, TokenOk
<1> QED BY <1>1, PlainOf

(* A call that ends, or dies. *)
LEMMA PlainEnd ==
  ASSUME Plain, NEW w \in Writers, Throw(w), UNCHANGED <<now, calls>>,
         FilesType', Distinct(file)'
  PROVE  Plain'
<1>1. writer' \in [Writers -> Call] /\ Frame(w) /\ writer'[w] = Idle
  BY IdleCall DEF Plain, Throw, Frame
<1>2. /\ writer'[w].pc = "idle" /\ writer'[w].token = 0 /\ writer'[w].triedAt = 0
      /\ writer'[w].inspected = 0
  BY <1>1 DEF Idle
<1>3. calls \in Nat /\ now \in Nat
  BY StoreConstants DEF Plain, FilesType, Times
<1>4. Numbers(w)' /\ Means(w)' /\ TokenOk(w)
  BY <1>2, <1>3 DEF Numbers, Means, At, TokenOk
<1> QED BY <1>1, <1>4, PlainOf

(* A call begins with a fresh token, and a record that commits no action    *)
(* twice.                                                                   *)
LEMMA PlainStart ==
  ASSUME Plain, NEW w \in Writers, NEW next \in Seq(Commits), StartCall(w, next),
         Distinct(next), next # <<>>
  PROVE  /\ Plain' /\ Frame(w) /\ UNCHANGED <<file, lock, acked, stolen>>
         /\ writer'[w].pc = "attempt" /\ writer'[w].outcome = "NONE"
<1> DEFINE c == [Idle EXCEPT !.pc = "attempt", !.next = next, !.token = calls + 1,
                             !.deadline = now + AcquireTimeout]
<1>0. /\ calls \in Nat /\ now \in Nat /\ calls + 1 \in 0..MaxCalls /\ calls' = calls + 1
      /\ UNCHANGED <<file, lock, aside, acked, stolen, now, crashes>>
      /\ writer' = [writer EXCEPT ![w] = c]
  BY StoreConstants DEF StartCall, Plain, FilesType, Times
<1>1. /\ c \in Call /\ c.pc = "attempt" /\ c.next = next /\ c.token = calls + 1
      /\ c.triedAt = 0 /\ c.inspected = 0 /\ c.outcome = "NONE"
  <2>1. Idle.triedAt = 0 /\ Idle.inspected = 0 /\ Idle.outcome = "NONE"
    BY DEF Idle
  <2>2. now + AcquireTimeout \in Nat /\ calls + 1 \in Nat /\ "attempt" \in Steps
    BY <1>0, StoreConstants DEF Steps
  <2> QED BY <2>1, <2>2, IdleCall DEF Call
<1> HIDE DEF c
<1>2. writer' \in [Writers -> Call] /\ Frame(w) /\ writer'[w] = c
  BY <1>0, <1>1 DEF Plain, Frame
<1>3. FilesType' /\ Distinct(file)'
  BY <1>0, StoreConstants DEF Plain, FilesType, LockMetadata, NoLock
<1>4. Numbers(w)' /\ Means(w)' /\ TokenOk(w)
  BY <1>0, <1>1, <1>2 DEF Numbers, Means, At, TokenOk
<1>5. Plain'
  BY <1>0, <1>2, <1>3, <1>4, PlainOf
<1> QED BY <1>0, <1>1, <1>2, <1>5

(* A record extended by an action it does not have. *)
LEMMA AppendDistinct ==
  ASSUME NEW s \in Seq(Commits), NEW e \in Commits, Distinct(s),
         \A c \in ToSet(s) : c.action # e.action
  PROVE  /\ Append(s, e) \in Seq(Commits) /\ Append(s, e) # <<>>
         /\ Distinct(Append(s, e))
<1>1. /\ Append(s, e) \in Seq(Commits) /\ Append(s, e) # <<>>
      /\ DOMAIN Append(s, e) = 1..(Len(s) + 1) /\ DOMAIN s = 1..Len(s) /\ Len(s) \in Nat
      /\ \A i \in 1..Len(s) : Append(s, e)[i] = s[i]
      /\ Append(s, e)[Len(s) + 1] = e
  OBVIOUS
<1>2. \A i \in 1..Len(s) : s[i].action # e.action
  BY <1>1 DEF ToSet
<1>3. \A i \in 1..(Len(s) + 1) : i \in 1..Len(s) \/ i = Len(s) + 1
  BY <1>1
<1> QED BY <1>1, <1>2, <1>3 DEF Distinct

(* create and apply make such calls. *)
LEMMA start_Plain ==
  ASSUME Plain, NEW w \in Writers, create(w) \/ \E e \in Events : applyNew(w, e)
  PROVE  /\ Plain' /\ Frame(w) /\ UNCHANGED <<file, lock, acked, stolen>>
         /\ writer'[w].pc = "attempt" /\ writer'[w].outcome = "NONE"
<1>1. CASE create(w)
  <2>1. <<Creation>> \in Seq(Commits) /\ Distinct(<<Creation>>) /\ <<Creation>> # <<>>
    BY DEF Commits, Distinct
  <2> QED BY <1>1, <2>1, PlainStart DEF create
<1>2. ASSUME NEW e \in Events, applyNew(w, e)
      PROVE  /\ Plain' /\ Frame(w) /\ UNCHANGED <<file, lock, acked, stolen>>
             /\ writer'[w].pc = "attempt" /\ writer'[w].outcome = "NONE"
  <2>1. /\ file \in Seq(Commits) /\ Distinct(file) /\ e \in Commits
        /\ \A c \in ToSet(file) : c.action # e.action
        /\ StartCall(w, Append(file, e))
    BY <1>2 DEF applyNew, Plain, FilesType, Commits
  <2>2. /\ Append(file, e) \in Seq(Commits) /\ Distinct(Append(file, e))
        /\ Append(file, e) # <<>>
    BY <2>1, AppendDistinct
  <2> QED BY <2>1, <2>2, PlainStart
<1> QED BY <1>1, <1>2

(* A turn of the loop begins. *)
LEMMA attempt_Plain ==
  ASSUME Plain, NEW w \in Writers, attempt(w)
  PROVE  /\ Plain' /\ Frame(w) /\ UNCHANGED <<file, lock, acked, stolen>>
         /\ writer'[w].pc = "open" /\ writer'[w].outcome = writer[w].outcome
<1>1. /\ writer' = [writer EXCEPT ![w] = writer'[w]]
      /\ writer'[w] = [writer[w] EXCEPT !.pc = "open", !.triedAt = now]
      /\ writer \in [Writers -> Call] /\ writer[w] \in Call
      /\ UNCHANGED <<file, lock, aside, acked, stolen, now, calls, crashes>>
  BY DEF attempt, Plain
<1>2. now \in Nat /\ calls \in Nat
  BY StoreConstants DEF Plain, FilesType, Times
<1>3. /\ writer'[w] \in Call /\ writer'[w].pc = "open" /\ writer'[w].triedAt = now
      /\ writer'[w].next = writer[w].next /\ writer'[w].token = writer[w].token
      /\ writer'[w].inspected = writer[w].inspected
      /\ writer'[w].outcome = writer[w].outcome
  BY <1>1, <1>2 DEF Call, Steps
<1>4. writer' \in [Writers -> Call] /\ Frame(w)
  BY <1>1, <1>3 DEF Frame
<1>5. writer[w].pc \in {"attempt", "delay"} /\ Numbers(w) /\ Means(w)
  BY DEF attempt, At, Plain
<1>6. Numbers(w)' /\ Means(w)' /\ TokenOk(w)
  BY <1>1, <1>2, <1>3, <1>5 DEF Numbers, Means, At, TokenOk
<1>7. FilesType' /\ Distinct(file)'
  BY <1>1 DEF Plain, FilesType
<1>8. Plain'
  BY <1>1, <1>4, <1>6, <1>7, PlainOf
<1> QED BY <1>1, <1>3, <1>4, <1>8

(* The exclusive create. *)
LEMMA openLock_Plain ==
  ASSUME Plain, NEW w \in Writers, openLock(w)
  PROVE  Plain'
<1>0. /\ UNCHANGED <<file, aside, acked, stolen, now, calls, crashes>> /\ Numbers(w)
      /\ writer[w].pc = "open" /\ writer \in [Writers -> Call] /\ FilesType /\ Distinct(file)
  BY DEF openLock, Plain, At
<1>1. lock' \in LockMetadata \cup {NoLock} /\ lock'.token <= calls
  <2>1. CASE lock # NoLock
    BY <1>0, <2>1 DEF openLock, FilesType
  <2>2. CASE lock = NoLock
    <3>1. lock' = [token |-> writer[w].token, acquiredAt |-> writer[w].triedAt,
                   complete |-> FALSE]
      BY <2>2 DEF openLock
    <3>2. /\ writer[w].token \in 1..MaxCalls /\ writer[w].token <= calls
          /\ writer[w].triedAt \in Times
      BY <1>0, StoreConstants DEF Numbers, FilesType, At, Times
    <3> QED BY <3>1, <3>2 DEF LockMetadata
  <2> QED BY <2>1, <2>2
<1>2. FilesType'
  BY <1>0, <1>1 DEF FilesType
<1>3. writer' \in [Writers -> Call] /\ Frame(w) /\ SameCall(w)
  BY <1>0, Moves DEF openLock, Steps
<1>4. ~At(w, "idle")
  BY <1>0 DEF At
<1> QED BY <1>0, <1>2, <1>3, <1>4, PlainOn

(* Completing a lock file keeps its token and its time. *)
LEMMA CompletedKeeps ==
  ASSUME NEW l \in LockMetadata \cup {NoLock}, NEW t \in Nat, t > 0
  PROVE  /\ Completed(l, t) \in LockMetadata \cup {NoLock}
         /\ Completed(l, t).token = l.token
         /\ Completed(l, t).acquiredAt = l.acquiredAt
<1>1. CASE l = NoLock
  <2>1. l.token # t
    BY <1>1 DEF NoLock
  <2> QED BY <2>1 DEF Completed
<1>2. CASE l \in LockMetadata
  BY <1>2 DEF Completed, LockMetadata
<1> QED BY <1>1, <1>2

(* The metadata is written, wherever the lock file is. *)
LEMMA writeLockFile_Plain ==
  ASSUME Plain, NEW w \in Writers, writeLockFile(w)
  PROVE  Plain' /\ lock'.token = lock.token
<1>0. /\ UNCHANGED <<file, acked, stolen, now, calls, crashes>> /\ Numbers(w)
      /\ writer[w].pc = "writeLock" /\ GoTo(w, "read")
      /\ lock' = Completed(lock, writer[w].token)
      /\ aside' = [t \in 1..MaxCalls |-> Completed(aside[t], writer[w].token)]
      /\ writer \in [Writers -> Call] /\ FilesType /\ Distinct(file)
  BY DEF writeLockFile, Plain, At
<1>1. writer[w].token \in Nat /\ writer[w].token > 0
  BY <1>0, StoreConstants DEF Numbers, FilesType, At
<1>2. /\ lock' \in LockMetadata \cup {NoLock} /\ lock'.token = lock.token
      /\ aside' \in [1..MaxCalls -> LockMetadata \cup {NoLock}]
  BY <1>0, <1>1, CompletedKeeps DEF FilesType
<1>3. FilesType'
  BY <1>0, <1>2 DEF FilesType
<1>4. writer' \in [Writers -> Call] /\ Frame(w) /\ SameCall(w) /\ ~At(w, "idle")
  BY <1>0, Moves DEF Steps, At
<1> QED BY <1>0, <1>2, <1>3, <1>4, PlainOn

(* What the failed create leads to. *)
LEMMA inspectLock_Plain ==
  ASSUME Plain, NEW w \in Writers, inspectLock(w)
  PROVE  /\ Plain' /\ Frame(w) /\ UNCHANGED <<file, lock, acked, stolen>>
         /\ \/ /\ writer'[w].pc \in {"attempt", "delay", "reclaim"}
               /\ writer'[w].outcome = writer[w].outcome
            \/ Throw(w)
<1>0. /\ UNCHANGED <<file, lock, aside, acked, stolen, now, calls, crashes>> /\ Numbers(w)
      /\ writer[w].pc = "inspect" /\ writer \in [Writers -> Call] /\ Means(w)
  BY DEF inspectLock, Plain, At
<1>1. FilesType' /\ Distinct(file)' /\ ~At(w, "idle")
  BY <1>0 DEF Plain, FilesType, At
<1>2. CASE GoTo(w, "attempt") \/ GoTo(w, "delay")
  <2>1. /\ writer' \in [Writers -> Call] /\ Frame(w) /\ SameCall(w)
        /\ writer'[w].pc \in {"attempt", "delay"} /\ writer'[w].outcome = writer[w].outcome
    BY <1>0, <1>2, Moves DEF Steps
  <2> QED BY <1>0, <1>1, <2>1, PlainOn
<1>3. CASE Throw(w)
  BY <1>0, <1>1, <1>3, PlainEnd DEF Throw, Frame
<1>4. CASE writer' = [writer EXCEPT ![w].pc = "reclaim", ![w].inspected = lock.token]
  <2>1. lock.token \in Nat /\ lock.token \in 0..calls
    BY LockToken, StoreConstants DEF Plain, FilesType
  <2>2. /\ writer' = [writer EXCEPT ![w] = writer'[w]] /\ writer[w] \in Call
        /\ writer'[w] = [writer[w] EXCEPT !.pc = "reclaim", !.inspected = lock.token]
    BY <1>0, <1>4
  <2>3. /\ writer'[w] \in Call /\ writer'[w].pc = "reclaim"
        /\ writer'[w].outcome = writer[w].outcome
        /\ writer'[w].next = writer[w].next /\ writer'[w].token = writer[w].token
        /\ writer'[w].triedAt = writer[w].triedAt /\ writer'[w].inspected = lock.token
    BY <2>1, <2>2 DEF Call, Steps
  <2>4. writer' \in [Writers -> Call] /\ Frame(w)
    BY <1>0, <2>2, <2>3 DEF Frame
  <2>5. Numbers(w)' /\ Means(w)' /\ TokenOk(w)
    BY <1>0, <1>1, <2>1, <2>3 DEF Numbers, Means, At, TokenOk
  <2>6. Plain'
    BY <1>0, <1>1, <2>4, <2>5, PlainOf
  <2> QED BY <1>0, <2>3, <2>4, <2>6
<1> QED BY <1>2, <1>3, <1>4 DEF inspectLock

(* A lock file is moved, whoever's it is. *)
LEMMA reclaimStaleLock_Plain ==
  ASSUME Plain, NEW w \in Writers, reclaimStaleLock(w)
  PROVE  /\ Plain' /\ Frame(w) /\ UNCHANGED <<file, acked>>
         /\ writer'[w].pc \in {"attempt", "checkAside"}
         /\ writer'[w].outcome = writer[w].outcome
<1>0. /\ UNCHANGED <<file, acked, now, calls, crashes>>
      /\ writer[w].pc = "reclaim" /\ writer \in [Writers -> Call] /\ FilesType /\ Distinct(file)
  BY DEF reclaimStaleLock, Plain, At
<1>1. /\ lock' \in {lock, NoLock} /\ stolen' \subseteq {"slowHolder", "replacedLock"}
      /\ aside' \in [1..MaxCalls -> LockMetadata \cup {NoLock}]
  BY <1>0 DEF reclaimStaleLock, FilesType, Theft
<1>2. lock'.token <= calls
  BY <1>0, <1>1, StoreConstants DEF NoLock, FilesType
<1>3. FilesType'
  BY <1>0, <1>1, <1>2 DEF FilesType
<1>4. /\ writer' \in [Writers -> Call] /\ Frame(w) /\ SameCall(w) /\ ~At(w, "idle")
      /\ writer'[w].pc \in {"attempt", "checkAside"} /\ writer'[w].outcome = writer[w].outcome
  BY <1>0, Moves DEF reclaimStaleLock, Steps, At
<1>5. Plain'
  BY <1>0, <1>3, <1>4, PlainOn
<1> QED BY <1>0, <1>4, <1>5

(* What was moved is removed, or left where it is with an error. *)
LEMMA checkAside_Plain ==
  ASSUME Plain, NEW w \in Writers, checkAside(w)
  PROVE  Plain'
<1>0. /\ UNCHANGED <<file, lock, acked, stolen, now, calls, crashes>>
      /\ writer[w].pc = "checkAside" /\ FilesType /\ writer \in [Writers -> Call]
  BY DEF checkAside, Plain, At
<1>1. aside' \in [1..MaxCalls -> LockMetadata \cup {NoLock}]
  BY <1>0 DEF checkAside, FilesType
<1>2. FilesType' /\ Distinct(file)' /\ ~At(w, "idle")
  BY <1>0, <1>1 DEF Plain, FilesType, At
<1>3. CASE GoTo(w, "attempt")
  <2>1. writer' \in [Writers -> Call] /\ Frame(w) /\ SameCall(w)
    BY <1>0, <1>3, Moves DEF Steps
  <2> QED BY <1>0, <1>2, <2>1, PlainOn
<1>4. CASE Throw(w)
  BY <1>0, <1>2, <1>4, PlainEnd
<1> QED BY <1>3, <1>4 DEF checkAside

(* The answer is a commit of the record the call means to write. *)
LEMMA AnswersCommits ==
  ASSUME Plain, NEW w \in Writers, ~At(w, "idle")
  PROVE  /\ Answered(w) \subseteq Commits
         /\ Last(writer[w].next) \in ToSet(writer[w].next)
<1>1. /\ acked \subseteq Commits
      /\ writer[w].next \in Seq(Commits) /\ writer[w].next # <<>>
  BY DEF Plain, FilesType, Means, Call
<1>2. /\ Len(writer[w].next) \in DOMAIN writer[w].next
      /\ Last(writer[w].next) \in Commits
      /\ Last(writer[w].next) \in ToSet(writer[w].next)
  BY <1>1 DEF Last, ToSet
<1> QED BY <1>1, <1>2 DEF Answered

(* The steps under the lock write nothing but the record of the call. *)
LEMMA compareAndSet_Plain ==
  ASSUME Plain, NEW w \in Writers, compareAndSet(w)
  PROVE  Plain'
<1>0. /\ UNCHANGED <<aside, stolen, now, calls, crashes>> /\ ~At(w, "idle")
      /\ writer \in [Writers -> Call] /\ FilesType
  BY DEF compareAndSet, readRecord, writeTemp, renameTemp, verifyWritten, releaseFileLock,
         unlinkLock, Plain, At
<1>1. /\ file' \in {file, writer[w].next} /\ lock' \in {lock, NoLock}
      /\ acked' \in {acked, Answered(w)}
  BY DEF compareAndSet, readRecord, writeTemp, renameTemp, verifyWritten, releaseFileLock,
         unlinkLock
<1>2. file' \in Seq(Commits) /\ Distinct(file)'
  <2>1. writer[w].next \in Seq(Commits) /\ Distinct(writer[w].next)
    BY <1>0 DEF Plain, Means, Call
  <2> QED BY <1>1, <2>1 DEF Plain, FilesType, Distinct
<1>3. lock'.token <= calls /\ lock' \in LockMetadata \cup {NoLock}
  BY <1>0, <1>1, StoreConstants DEF NoLock, FilesType
<1>4. acked' \subseteq Commits
  BY <1>0, <1>1, AnswersCommits DEF FilesType
<1>5. FilesType'
  BY <1>0, <1>2, <1>3, <1>4 DEF FilesType
<1>6. \/ Throw(w)
      \/ \E pc \in {"write", "rename", "verify", "unlink"} : GoTo(w, pc)
      \/ \E out \in {"VERSION_CONFLICT", "ATOMIC_WRITE_FAILED", "APPLIED"} : Release(w, out)
  BY DEF compareAndSet, readRecord, writeTemp, renameTemp, verifyWritten, releaseFileLock,
         unlinkLock, Throw
<1>7. CASE Throw(w)
  BY <1>0, <1>2, <1>5, <1>7, PlainEnd
<1>8. ASSUME NEW pc \in {"write", "rename", "verify", "unlink"}, GoTo(w, pc)
      PROVE  Plain'
  <2>1. writer' \in [Writers -> Call] /\ Frame(w) /\ SameCall(w)
    BY <1>0, <1>8, Moves DEF Steps
  <2> QED BY <1>0, <1>2, <1>5, <2>1, PlainOn
<1>9. ASSUME NEW out \in {"VERSION_CONFLICT", "ATOMIC_WRITE_FAILED", "APPLIED"}, Release(w, out)
      PROVE  Plain'
  <2>1. writer' \in [Writers -> Call] /\ Frame(w) /\ SameCall(w)
    BY <1>0, <1>9, Releases DEF Outcomes
  <2> QED BY <1>0, <1>2, <1>5, <2>1, PlainOn
<1> QED BY <1>6, <1>7, <1>8, <1>9

(* Steps that change no call, and a process that dies. *)
LEMMA others_Plain ==
  ASSUME Plain, \/ \E w \in Writers : crash(w) \/ \E e \in Events : applyReplayed(w, e)
                \/ tick \/ UNCHANGED vars
  PROVE  Plain'
<1>1. ASSUME NEW w \in Writers, crash(w)
      PROVE  Plain'
  <2>1. Throw(w) /\ UNCHANGED <<file, lock, aside, acked, stolen, now, calls>>
    BY <1>1 DEF crash, Throw
  <2>2. FilesType' /\ Distinct(file)'
    BY <1>1, <2>1, StoreConstants DEF crash, Plain, FilesType
  <2> QED BY <2>1, <2>2, PlainEnd
<1>2. ASSUME NEW w \in Writers, NEW e \in Events, applyReplayed(w, e)
      PROVE  Plain'
  <2>1. UNCHANGED <<file, lock, aside, writer, stolen, now, calls, crashes>>
    BY <1>2 DEF applyReplayed
  <2> QED BY <1>2, <2>1 DEF Plain, FilesType, Unique, Numbers, Means, At, applyReplayed, Commits
<1>3. CASE tick
  <2>1. /\ UNCHANGED <<file, lock, aside, writer, acked, stolen, calls, crashes>>
        /\ now < MaxTime /\ now' = now + 1
    BY <1>3, Zenon DEF tick
  <2>2. now \in 0..MaxTime /\ MaxTime \in Nat
    BY StoreConstants DEF Plain, FilesType, Times
  <2>3. FilesType' /\ Unique' /\ Distinct(file)' /\ writer' \in [Writers -> Call]
    BY <2>1, <2>2 DEF Plain, FilesType, Times, Unique, At
  <2>4. \A v \in Writers : Numbers(v)' /\ Means(v)'
    BY <2>1, <2>2 DEF Plain, Numbers, Means, At
  <2> QED BY <2>3, <2>4 DEF Plain
<1>4. CASE UNCHANGED vars
  BY <1>4 DEF vars, Plain, FilesType, Unique, Numbers, Means, At
<1> QED BY <1>1, <1>2, <1>3, <1>4

(* The steps keep it, whatever becomes of the locks. *)
LEMMA PlainStep ==
  ASSUME Plain, [Next]_vars
  PROVE  Plain'
<1>1. ASSUME NEW w \in Writers, acquireFileLock(w)
      PROVE  Plain'
  BY <1>1, attempt_Plain, openLock_Plain, writeLockFile_Plain, inspectLock_Plain,
     reclaimStaleLock_Plain, checkAside_Plain DEF acquireFileLock
<1>2. ASSUME NEW w \in Writers, compareAndSet(w)
      PROVE  Plain'
  BY <1>2, compareAndSet_Plain
<1>3. ASSUME NEW w \in Writers,
             create(w) \/ (\E e \in Events : applyNew(w, e) \/ applyReplayed(w, e)) \/ crash(w)
      PROVE  Plain'
  BY <1>3, start_Plain, others_Plain
<1> QED BY <1>1, <1>2, <1>3, others_Plain DEF Next, Proceed

-----------------------------------------------------------------------------
(* What holds while no lock is stolen *)

(* No other process is inside. *)
Alone(w) == \A v \in Writers \ {w} : ~Inside(v)

SameLock == lock'.token = lock.token

(* Two processes are never inside at once. *)
LEMMA MutualExclusion ==
  ASSUME IInv, NEW v \in Writers, NEW w \in Writers, Inside(v), Inside(w)
  PROVE  v = w
<1>1. writer[v].token = lock.token /\ writer[w].token = lock.token
  BY DEF IInv, Owns
<1>2. ~At(v, "idle")
  BY DEF Inside, At
<1> QED BY <1>1, <1>2 DEF IInv, Plain, Unique

(* Without a lock file nobody is inside. *)
LEMMA UnlockedIsEmpty ==
  ASSUME IInv, lock = NoLock, NEW v \in Writers
  PROVE  ~Inside(v)
<1>1. lock.token = 0
  BY DEF NoLock
<1>2. Inside(v) => writer[v].token > 0 /\ lock.token = writer[v].token
  BY DEF IInv, Plain, Numbers, Owns, Inside, At
<1> QED BY <1>1, <1>2

(* What a step of process w must satisfy for the invariant to hold again:  *)
(* the obligations about the other processes are discharged once, here.    *)
LEMMA StepOf ==
  ASSUME IInv, Plain', NEW w \in Writers, Frame(w), Owns(w)', Fits(w)',
         file' = file \/ Inside(w),
         SameLock \/ Alone(w),
         Inside(w)' => Inside(w) \/ Alone(w),
         AckedKept'
  PROVE  IInv'
<1>1. ASSUME NEW v \in Writers \ {w} PROVE Owns(v)' /\ Fits(v)'
  <2>0. writer'[v] = writer[v] /\ Owns(v) /\ Fits(v)
    BY DEF Frame, IInv
  <2>1. Owns(v)'
    BY <2>0 DEF Owns, Inside, SameLock, Alone
  <2>2. Fits(v)'
    <3>1. CASE file' = file
      BY <2>0, <3>1 DEF Fits, At, assertCasPreconditions
    <3>2. CASE Inside(w)
      <4>1. ~Inside(v)
        BY <3>2, MutualExclusion
      <4>2. writer'[v].pc \notin {"write", "rename", "verify", "release", "unlink"}
        BY <2>0, <4>1 DEF Inside
      <4>3. writer'[v].outcome = "NONE"
        BY <2>0, <4>2 DEF Fits
      <4> QED BY <2>0, <4>2, <4>3 DEF Fits, At
    <3> QED BY <3>1, <3>2
  <2> QED BY <2>1, <2>2
<1> QED BY <1>1 DEF IInv

(* A call that ends, or dies, keeps the invariant. *)
LEMMA EndStep ==
  ASSUME IInv, Plain', NEW w \in Writers, Throw(w), UNCHANGED file, AckedKept',
         SameLock \/ Alone(w)
  PROVE  IInv'
<1>1. Frame(w) /\ writer'[w] = Idle
  BY DEF IInv, Plain, Throw, Frame
<1>2. writer'[w].pc = "idle" /\ writer'[w].outcome = "NONE"
  BY <1>1 DEF Idle
<1>3. Owns(w)' /\ Fits(w)' /\ ~Inside(w)'
  BY <1>2 DEF Owns, Inside, Fits, At
<1> QED BY <1>1, <1>3, StepOf

(* Moving on, not inside before or after. *)
LEMMA OutsideStep ==
  ASSUME IInv, Plain', NEW w \in Writers, Frame(w), writer'[w].outcome = "NONE",
         writer'[w].pc \in {"attempt", "open", "delay", "inspect", "reclaim", "checkAside"},
         UNCHANGED <<file, acked>>, SameLock \/ Alone(w)
  PROVE  IInv'
<1>1. Owns(w)' /\ Fits(w)' /\ ~Inside(w)' /\ AckedKept'
  BY DEF Owns, Inside, Fits, At, IInv, AckedKept
<1> QED BY <1>1, StepOf

(* Moving on inside: the lock stays the caller's; what the call means to   *)
(* write has to fit where it goes.                                         *)
LEMMA InsideStep ==
  ASSUME IInv, Plain', NEW w \in Writers, Inside(w), Frame(w), SameCall(w), Fits(w)',
         SameLock, AckedKept'
  PROVE  IInv'
<1>1. Owns(w)'
  BY DEF IInv, Owns, SameCall, SameLock
<1> QED BY <1>1, StepOf

(* A call that is not inside has no outcome. *)
LEMMA OutsideNoOutcome ==
  ASSUME IInv, NEW w \in Writers, ~Inside(w)
  PROVE  writer[w].outcome = "NONE"
BY DEF IInv, Fits, Inside

(* A call begins, or begins another turn of the loop. *)
LEMMA begin_Step ==
  ASSUME IInv, NEW w \in Writers,
         create(w) \/ (\E e \in Events : applyNew(w, e)) \/ attempt(w)
  PROVE  IInv'
<1>1. ~Inside(w) /\ Plain
  BY DEF create, applyNew, StartCall, attempt, At, Inside, IInv
<1>2. writer[w].outcome = "NONE"
  BY <1>1, OutsideNoOutcome
<1>3. /\ Plain' /\ Frame(w) /\ UNCHANGED <<file, lock, acked>>
      /\ writer'[w].pc \in {"attempt", "open"} /\ writer'[w].outcome = "NONE"
  BY <1>1, <1>2, start_Plain, attempt_Plain
<1>4. SameLock
  BY <1>3 DEF SameLock
<1> QED BY <1>3, <1>4, OutsideStep

(* The exclusive create succeeds only when nobody has the lock. *)
LEMMA openLock_Step ==
  ASSUME IInv, NEW w \in Writers, openLock(w)
  PROVE  IInv'
<1>0. /\ UNCHANGED <<file, acked>> /\ writer[w].pc = "open" /\ writer[w].outcome = "NONE"
      /\ writer \in [Writers -> Call] /\ Plain'
  BY openLock_Plain DEF openLock, IInv, Plain, At, Fits
<1>1. CASE lock # NoLock
  <2>1. GoTo(w, "inspect") /\ SameLock
    BY <1>1 DEF openLock, SameLock
  <2>2. Frame(w) /\ writer'[w].pc = "inspect" /\ writer'[w].outcome = "NONE"
    BY <1>0, <2>1, Moves DEF Steps
  <2> QED BY <1>0, <2>1, <2>2, OutsideStep
<1>2. CASE lock = NoLock
  <2>1. lock'.token = writer[w].token /\ GoTo(w, "writeLock")
    BY <1>2 DEF openLock
  <2>2. /\ Frame(w) /\ SameCall(w)
        /\ writer'[w].pc = "writeLock" /\ writer'[w].outcome = "NONE"
    BY <1>0, <2>1, Moves DEF Steps
  <2>3. Owns(w)' /\ Fits(w)' /\ AckedKept'
    BY <1>0, <2>1, <2>2 DEF Owns, SameCall, Fits, At, AckedKept, IInv
  <2>4. Alone(w)
    BY <1>2, UnlockedIsEmpty DEF Alone
  <2> QED BY <1>0, <2>2, <2>3, <2>4, StepOf
<1> QED BY <1>1, <1>2

(* The metadata is written to a lock file of one's own. *)
LEMMA writeLockFile_Step ==
  ASSUME IInv, NEW w \in Writers, writeLockFile(w)
  PROVE  IInv'
<1>0. /\ UNCHANGED <<file, acked>> /\ writer[w].pc = "writeLock" /\ GoTo(w, "read")
      /\ writer[w].outcome = "NONE" /\ writer \in [Writers -> Call] /\ Plain' /\ SameLock
  BY writeLockFile_Plain DEF writeLockFile, IInv, Plain, At, Fits, SameLock
<1>1. /\ Frame(w) /\ SameCall(w)
      /\ writer'[w].pc = "read" /\ writer'[w].outcome = "NONE"
  BY <1>0, Moves DEF Steps
<1>2. Inside(w) /\ Fits(w)' /\ AckedKept'
  BY <1>0, <1>1 DEF Inside, Fits, At, AckedKept, IInv
<1> QED BY <1>0, <1>1, <1>2, InsideStep

(* What the failed create leads to: another attempt, an error, a wait, or   *)
(* the reclaim of a lock that looks stale.                                  *)
LEMMA inspectLock_Step ==
  ASSUME IInv, NEW w \in Writers, inspectLock(w)
  PROVE  IInv'
<1>1. ~Inside(w) /\ Plain
  BY DEF inspectLock, At, Inside, IInv
<1>2. writer[w].outcome = "NONE"
  BY <1>1, OutsideNoOutcome
<1>3. /\ Plain' /\ Frame(w) /\ UNCHANGED <<file, lock, acked, stolen>>
      /\ \/ /\ writer'[w].pc \in {"attempt", "delay", "reclaim"}
            /\ writer'[w].outcome = writer[w].outcome
         \/ Throw(w)
  BY <1>1, inspectLock_Plain
<1>4. SameLock /\ AckedKept'
  BY <1>3 DEF SameLock, AckedKept, IInv
<1> QED BY <1>2, <1>3, <1>4, OutsideStep, EndStep

(* A lock that is moved without a theft is nobody's. *)
LEMMA reclaimStaleLock_Step ==
  ASSUME IInv, NEW w \in Writers, reclaimStaleLock(w), stolen' = {}
  PROVE  IInv'
<1>1. ~Inside(w) /\ Plain
  BY DEF reclaimStaleLock, At, Inside, IInv
<1>2. writer[w].outcome = "NONE"
  BY <1>1, OutsideNoOutcome
<1>3. /\ Plain' /\ Frame(w) /\ UNCHANGED <<file, acked>>
      /\ writer'[w].pc \in {"attempt", "checkAside"} /\ writer'[w].outcome = "NONE"
  BY <1>1, <1>2, reclaimStaleLock_Plain
<1>4. SameLock \/ Alone(w)
  <2>1. CASE lock = NoLock
    BY <2>1 DEF reclaimStaleLock, SameLock
  <2>2. CASE lock # NoLock
    <3>1. Theft(w) = {}
      BY <2>2 DEF reclaimStaleLock
    <3>2. \A v \in Writers : Inside(v) => writer[v].token # lock.token
      BY <3>1 DEF Theft
    <3> QED BY <3>2 DEF IInv, Owns, Alone
  <2> QED BY <2>1, <2>2
<1> QED BY <1>3, <1>4, OutsideStep

(* What was moved is removed, or left where it is with an error. *)
LEMMA checkAside_Step ==
  ASSUME IInv, NEW w \in Writers, checkAside(w)
  PROVE  IInv'
<1>0. /\ UNCHANGED <<file, lock, acked>> /\ Plain' /\ writer \in [Writers -> Call]
      /\ writer[w].pc = "checkAside" /\ writer[w].outcome = "NONE"
  BY checkAside_Plain DEF checkAside, IInv, Plain, At, Fits
<1>1. SameLock /\ AckedKept'
  BY <1>0 DEF SameLock, IInv, AckedKept
<1>2. CASE GoTo(w, "attempt")
  <2>1. Frame(w) /\ writer'[w].pc = "attempt" /\ writer'[w].outcome = "NONE"
    BY <1>0, <1>2, Moves DEF Steps
  <2> QED BY <1>0, <1>1, <2>1, OutsideStep
<1>3. CASE Throw(w)
  BY <1>0, <1>1, <1>3, EndStep
<1> QED BY <1>2, <1>3 DEF checkAside

(* A write that fails anywhere releases the lock with an error; so does a   *)
(* version that is not the expected one.                                    *)
LEMMA FailedStep ==
  ASSUME IInv, Plain', NEW w \in Writers, Inside(w),
         NEW out \in {"VERSION_CONFLICT", "ATOMIC_WRITE_FAILED"}, Release(w, out),
         UNCHANGED <<file, lock, acked>>
  PROVE  IInv'
<1>1. SameLock /\ AckedKept' /\ writer \in [Writers -> Call]
  BY DEF SameLock, IInv, Plain, AckedKept
<1>2. /\ Frame(w) /\ SameCall(w)
      /\ writer'[w].pc = "release" /\ writer'[w].outcome = out
  BY <1>1, Releases DEF Outcomes
<1>3. Fits(w)'
  BY <1>2 DEF Fits, At
<1> QED BY <1>1, <1>2, <1>3, InsideStep

(* The version is compared under the lock, so what passes still fits when   *)
(* it is written; the temporary file is read by nobody.                     *)
LEMMA readAndWrite_Step ==
  ASSUME IInv, NEW w \in Writers, readRecord(w) \/ writeTemp(w)
  PROVE  IInv'
<1>0. /\ UNCHANGED <<file, lock, acked>> /\ Plain' /\ Inside(w)
      /\ writer[w].outcome = "NONE" /\ writer \in [Writers -> Call]
  BY compareAndSet_Plain DEF compareAndSet, readRecord, writeTemp, IInv, Plain, At, Fits, Inside
<1>1. SameLock /\ AckedKept'
  BY <1>0 DEF SameLock, IInv, AckedKept
<1>2. ASSUME NEW pc \in {"write", "rename"}, GoTo(w, pc), assertCasPreconditions(w)
      PROVE  IInv'
  <2>1. /\ Frame(w) /\ SameCall(w)
        /\ writer'[w].pc = pc /\ writer'[w].outcome = "NONE"
    BY <1>0, <1>2, Moves DEF Steps
  <2>2. Fits(w)'
    BY <1>0, <1>2, <2>1 DEF Fits, SameCall, At, assertCasPreconditions
  <2> QED BY <1>0, <1>1, <2>1, <2>2, InsideStep
<1>3. ASSUME NEW out \in {"VERSION_CONFLICT", "ATOMIC_WRITE_FAILED"}, Release(w, out)
      PROVE  IInv'
  BY <1>0, <1>3, FailedStep
<1>4. writeTemp(w) => assertCasPreconditions(w)
  BY DEF writeTemp, IInv, Fits, At
<1> QED BY <1>2, <1>3, <1>4 DEF readRecord, writeTemp

(* A record one longer than its prefix is the prefix and one commit more. *)
LEMMA OneMore ==
  ASSUME NEW s \in Seq(Commits), NEW t \in Seq(Commits),
         Len(s) + 1 = Len(t), IsPrefix(s, t)
  PROVE  /\ t = Append(s, t[Len(t)]) /\ t[Len(t)] \in Commits
         /\ ToSet(s) \subseteq ToSet(t)
<1>1. Len(s) \in Nat /\ Len(t) \in 1..Len(t) /\ t[Len(t)] \in Commits
  OBVIOUS
<1>2. SubSeq(s, 1, Len(s)) = SubSeq(t, 1, Len(s))
  BY DEF IsPrefix
<1>3. ASSUME NEW i \in 1..Len(s) PROVE s[i] = t[i]
  <2>1. SubSeq(s, 1, Len(s))[i] = s[i] /\ SubSeq(t, 1, Len(s))[i] = t[i]
    BY <1>1
  <2> QED BY <1>2, <2>1
<1>4. t = Append(s, t[Len(t)])
  <2> DEFINE a == Append(s, t[Len(t)])
  <2>1. /\ a \in Seq(Commits) /\ Len(a) = Len(t) /\ a[Len(t)] = t[Len(t)]
        /\ \A i \in 1..Len(s) : a[i] = s[i]
    BY <1>1
  <2>2. \A i \in 1..Len(t) : i \in 1..Len(s) \/ i = Len(t)
    BY <1>1
  <2>3. \A i \in 1..Len(t) : a[i] = t[i]
    BY <1>3, <2>1, <2>2
  <2> HIDE DEF a
  <2>4. t = a
    BY <2>1, <2>3
  <2> QED BY <2>4 DEF a
<1>5. ToSet(s) \subseteq ToSet(t)
  <2>1. DOMAIN s = 1..Len(s) /\ DOMAIN t = 1..Len(t) /\ 1..Len(s) \subseteq 1..Len(t)
    BY <1>1
  <2> QED BY <1>3, <2>1 DEF ToSet
<1> QED BY <1>1, <1>4, <1>5

(* What a call at the rename writes extends the record by one commit. *)
LEMMA RenameExtends ==
  ASSUME IInv, NEW w \in Writers, writer[w].pc = "rename"
  PROVE  /\ writer[w].next = Append(file, writer[w].next[Len(writer[w].next)])
         /\ writer[w].next[Len(writer[w].next)] \in Commits
         /\ ToSet(file) \subseteq ToSet(writer[w].next)
<1>1. writer[w].next \in Seq(Commits) /\ file \in Seq(Commits)
  BY DEF IInv, Plain, FilesType, Call
<1>2. assertCasPreconditions(w)
  BY DEF IInv, Fits
<1> QED BY <1>1, <1>2, OneMore DEF assertCasPreconditions

(* The rename, with the lock held, replaces the record by its extension. *)
LEMMA renameTemp_Step ==
  ASSUME IInv, NEW w \in Writers, renameTemp(w)
  PROVE  IInv'
<1>0. /\ UNCHANGED <<lock, acked>> /\ Plain' /\ writer[w].pc = "rename"
      /\ writer[w].outcome = "NONE" /\ writer \in [Writers -> Call]
  BY compareAndSet_Plain DEF compareAndSet, renameTemp, IInv, Plain, At, Fits
<1>1. SameLock /\ Inside(w)
  BY <1>0 DEF SameLock, Inside
<1>2. CASE file' = writer[w].next /\ GoTo(w, "verify")
  <2>1. /\ Frame(w) /\ SameCall(w)
        /\ writer'[w].pc = "verify" /\ writer'[w].outcome = "NONE"
    BY <1>0, <1>2, Moves DEF Steps
  <2>2. AckedKept'
    BY <1>0, <1>2, RenameExtends DEF IInv, AckedKept
  <2>3. Fits(w)'
    BY <1>2, <2>1 DEF Fits, SameCall, At
  <2> QED BY <1>0, <1>1, <2>1, <2>2, <2>3, InsideStep
<1>3. CASE UNCHANGED file /\ Release(w, "ATOMIC_WRITE_FAILED")
  BY <1>0, <1>1, <1>3, FailedStep
<1> QED BY <1>2, <1>3 DEF renameTemp

(* What is read back is what was written: the lock is still held. *)
LEMMA verifyWritten_Step ==
  ASSUME IInv, NEW w \in Writers, verifyWritten(w)
  PROVE  IInv'
<1>0. /\ UNCHANGED <<file, lock, acked>> /\ Plain'
      /\ writer[w].pc = "verify" /\ file = writer[w].next /\ writer \in [Writers -> Call]
  BY compareAndSet_Plain DEF compareAndSet, verifyWritten, IInv, Plain, At, Fits
<1>1. SameLock /\ AckedKept' /\ Inside(w)
  BY <1>0 DEF SameLock, IInv, AckedKept, Inside
<1>2. CASE Release(w, "APPLIED")
  <2>1. /\ Frame(w) /\ SameCall(w)
        /\ writer'[w].pc = "release" /\ writer'[w].outcome = "APPLIED"
    BY <1>0, <1>2, Releases DEF Outcomes
  <2>2. Fits(w)'
    BY <1>0, <2>1 DEF Fits, SameCall, At
  <2> QED BY <1>0, <1>1, <2>1, <2>2, InsideStep
<1>3. CASE Release(w, "ATOMIC_WRITE_FAILED")
  BY <1>0, <1>1, <1>3, FailedStep
<1> QED BY <1>2, <1>3 DEF verifyWritten

(* What a call answers is committed. *)
LEMMA AnswersCommitted ==
  ASSUME IInv, NEW w \in Writers, ~At(w, "idle")
  PROVE  Answered(w) \subseteq ToSet(file)
<1>1. /\ acked \subseteq ToSet(file)
      /\ writer[w].outcome = "APPLIED" => file = writer[w].next
      /\ Last(writer[w].next) \in ToSet(writer[w].next)
  BY AnswersCommits DEF IInv, AckedKept, Fits
<1> QED BY <1>1 DEF Answered

(* A holder that finds its lock goes on to unlink it; it always does. *)
LEMMA releaseFileLock_Step ==
  ASSUME IInv, NEW w \in Writers, releaseFileLock(w)
  PROVE  IInv'
<1>0. /\ UNCHANGED <<file, lock>> /\ Plain' /\ writer[w].pc = "release"
      /\ writer \in [Writers -> Call] /\ Fits(w)
  BY compareAndSet_Plain DEF compareAndSet, releaseFileLock, IInv, Plain, At
<1>1. SameLock /\ Inside(w) /\ ~At(w, "idle")
  BY <1>0 DEF SameLock, Inside, At
<1>2. CASE GoTo(w, "unlink") /\ UNCHANGED acked
  <2>1. /\ Frame(w) /\ SameCall(w)
        /\ writer'[w].pc = "unlink" /\ writer'[w].outcome = writer[w].outcome
    BY <1>0, <1>2, Moves DEF Steps
  <2>2. Fits(w)' /\ AckedKept'
    BY <1>0, <1>2, <2>1 DEF Fits, SameCall, At, IInv, AckedKept
  <2> QED BY <1>0, <1>1, <2>1, <2>2, InsideStep
<1>3. CASE Throw(w) /\ acked' = Answered(w)
  <2>1. AckedKept'
    BY <1>0, <1>1, <1>3, AnswersCommitted DEF AckedKept
  <2> QED BY <1>0, <1>1, <1>3, <2>1, EndStep
<1> QED BY <1>2, <1>3 DEF releaseFileLock

(* The lock file unlinked is one's own. *)
LEMMA unlinkLock_Step ==
  ASSUME IInv, NEW w \in Writers, unlinkLock(w)
  PROVE  IInv'
<1>0. /\ UNCHANGED file /\ Plain' /\ Inside(w) /\ ~At(w, "idle")
      /\ Throw(w) /\ acked' = Answered(w)
  BY compareAndSet_Plain DEF compareAndSet, unlinkLock, IInv, At, Throw, Inside
<1>1. Alone(w)
  BY <1>0, MutualExclusion DEF Alone
<1>2. AckedKept'
  BY <1>0, AnswersCommitted DEF AckedKept
<1> QED BY <1>0, <1>1, <1>2, EndStep

(* Steps that change no call, and a process that dies: its lock stays. *)
LEMMA others_Step ==
  ASSUME IInv, \/ \E w \in Writers : crash(w) \/ \E e \in Events : applyReplayed(w, e)
               \/ tick \/ UNCHANGED vars
  PROVE  IInv'
<1>0. Plain'
  BY others_Plain DEF IInv
<1>1. ASSUME NEW w \in Writers, crash(w)
      PROVE  IInv'
  <2>1. Throw(w) /\ UNCHANGED <<file, lock, acked>>
    BY <1>1 DEF crash, Throw
  <2>2. SameLock /\ AckedKept'
    BY <2>1 DEF SameLock, AckedKept, IInv
  <2> QED BY <1>0, <2>1, <2>2, EndStep
<1>2. ASSUME NEW w \in Writers, NEW e \in Events, applyReplayed(w, e)
      PROVE  UNCHANGED <<file, lock, writer>> /\ AckedKept'
  BY <1>2 DEF applyReplayed, IInv, AckedKept
<1>3. CASE tick
  <2>1. UNCHANGED <<file, lock, writer, acked>>
    BY <1>3, Zenon DEF tick
  <2> QED BY <1>0, <2>1 DEF IInv, AckedKept, Owns, Inside, Fits, At, assertCasPreconditions
<1>4. CASE UNCHANGED vars
  BY <1>0, <1>4 DEF vars, IInv, AckedKept, Owns, Inside, Fits, At, assertCasPreconditions
<1>5. ASSUME UNCHANGED <<file, lock, writer>>, AckedKept'
      PROVE  IInv'
  BY <1>0, <1>5 DEF IInv, Owns, Inside, Fits, At, assertCasPreconditions
<1> QED BY <1>1, <1>2, <1>3, <1>4, <1>5

-----------------------------------------------------------------------------
(* The theorems *)

(* The invariant holds at the start. *)
LEMMA InitInvariant == Init => IInv
<1> SUFFICES ASSUME Init PROVE IInv
  OBVIOUS
<1>1. /\ writer = [w \in Writers |-> Idle] /\ now = 0 /\ calls = 0 /\ file = <<>>
      /\ lock = NoLock /\ acked = {}
  BY DEF Init
<1>2. \A w \in Writers :
        /\ writer[w] = Idle /\ writer[w].pc = "idle" /\ writer[w].token = 0
        /\ writer[w].triedAt = 0 /\ writer[w].inspected = 0
        /\ writer[w].outcome = "NONE"
  BY <1>1 DEF Idle
<1>3. writer \in [Writers -> Call]
  BY <1>1, IdleCall
<1>4. lock.token <= calls
  BY <1>1 DEF NoLock
<1>5. FilesType
  BY <1>1, <1>4, StoreConstants DEF Init, FilesType, Times
<1>6. Unique /\ Distinct(file) /\ AckedKept
  BY <1>1, <1>2 DEF Unique, Distinct, AckedKept, At
<1>7. ASSUME NEW w \in Writers PROVE Numbers(w) /\ Means(w) /\ Owns(w) /\ Fits(w)
  BY <1>1, <1>2 DEF Numbers, Means, Owns, Inside, Fits, At
<1> QED BY <1>3, <1>5, <1>6, <1>7 DEF IInv, Plain

(* A theft is remembered. *)
LEMMA StolenGrows ==
  ASSUME [Next]_vars
  PROVE  stolen \subseteq stolen'
BY DEF Next, vars, create, applyNew, StartCall, applyReplayed, crash, tick, Proceed,
       acquireFileLock, attempt, openLock, writeLockFile, inspectLock, reclaimStaleLock,
       checkAside, compareAndSet, readRecord, writeTemp, renameTemp, verifyWritten,
       releaseFileLock, unlinkLock

(* Every step that leaves no theft behind keeps it. *)
LEMMA StepInvariant ==
  ASSUME IInv, [Next]_vars, stolen' = {}
  PROVE  IInv'
<1>1. ASSUME NEW w \in Writers, acquireFileLock(w)
      PROVE  IInv'
  BY <1>1, begin_Step, openLock_Step, writeLockFile_Step, inspectLock_Step,
     reclaimStaleLock_Step, checkAside_Step DEF acquireFileLock
<1>2. ASSUME NEW w \in Writers, compareAndSet(w)
      PROVE  IInv'
  BY <1>2, readAndWrite_Step, renameTemp_Step, verifyWritten_Step,
     releaseFileLock_Step, unlinkLock_Step DEF compareAndSet
<1>3. ASSUME NEW w \in Writers,
             create(w) \/ (\E e \in Events : applyNew(w, e) \/ applyReplayed(w, e)) \/ crash(w)
      PROVE  IInv'
  BY <1>3, begin_Step, others_Step
<1> QED BY <1>1, <1>2, <1>3, others_Step DEF Next, Proceed

(* However many processes call, crash and reclaim stale locks in whatever  *)
(* order, whoever works on lifecycle-<tenderId>.json owns the lock file,   *)
(* until reclaimStaleLock takes one from a call that relies on it.         *)
THEOREM InvariantAlways == Spec => [](Plain /\ (stolen = {} => IInv))
<1>1. Init => Plain /\ (stolen = {} => IInv)
  BY InitInvariant DEF IInv
<1>2. Plain /\ (stolen = {} => IInv) /\ [Next]_vars => (Plain /\ (stolen = {} => IInv))'
  <2> SUFFICES ASSUME Plain, stolen = {} => IInv, [Next]_vars
               PROVE  Plain' /\ (stolen' = {} => IInv')
    OBVIOUS
  <2>1. stolen' = {} => stolen = {}
    BY StolenGrows
  <2> QED BY <2>1, PlainStep, StepInvariant
<1> QED BY <1>1, <1>2, PTL DEF Spec

(* The files and the calls are well formed, and a lock token is used by    *)
(* one call of acquireFileLock.                                            *)
THEOREM TypeCorrect == Spec => []TypeOK
<1>1. Plain => TypeOK
  BY DEF Plain, FilesType, Call, Unique, Numbers, TypeOK
<1> QED BY <1>1, InvariantAlways, PTL

(* What apply answered as applied or replayed is in the record, and no     *)
(* other process's compare-and-set takes it away, unless a lock file was   *)
(* taken from a call that relied on it.                                    *)
THEOREM AckedAlwaysCommitted == Spec => []AckedIsCommitted
<1>1. (stolen = {} => IInv) => AckedIsCommitted
  BY DEF IInv, AckedKept, AckedIsCommitted
<1> QED BY <1>1, InvariantAlways, PTL

(* compareAndSet commits an action id at most once, whatever is retried    *)
(* and whatever becomes of the locks.                                      *)
THEOREM CommittedOnce == Spec => []ActionCommittedOnce
<1>1. Plain => ActionCommittedOnce
  BY DEF Plain, Distinct, ActionCommittedOnce
<1> QED BY <1>1, InvariantAlways, PTL

(* Every rename of writeAtomic adds one commit to the record that is       *)
(* there: the version compared under the lock is still the stored one,     *)
(* until a lock file is taken from a call that relies on it.               *)
THEOREM VersionsCommittedOnce == Spec => OneCommitUnlessStolen
<1>1. ASSUME stolen = {} => IInv, [Next]_vars, stolen = {}, file' # file
      PROVE  \E c \in Commits : file' = Append(file, c)
  <2>1. PICK w \in Writers : renameTemp(w) /\ file' = writer[w].next
    BY <1>1 DEF Next, vars, create, applyNew, StartCall, applyReplayed, crash, tick, Proceed,
         acquireFileLock, attempt, openLock, writeLockFile, inspectLock, reclaimStaleLock,
         checkAside, compareAndSet, readRecord, writeTemp, renameTemp, verifyWritten,
         releaseFileLock, unlinkLock
  <2>2. writer[w].pc = "rename"
    BY <2>1 DEF renameTemp, At
  <2> QED BY <1>1, <2>1, <2>2, RenameExtends
<1>2. (stolen = {} => IInv) /\ [Next]_vars => [stolen = {} => AddsOneCommit]_vars
  BY <1>1 DEF AddsOneCommit
<1> QED BY <1>2, InvariantAlways, PTL DEF Spec, OneCommitUnlessStolen
==============================================================================
