---------------------------- MODULE LifecycleStore ----------------------------
(***************************************************************************)
(* How lifecycle events reach the disk: the service's apply and create     *)
(* (src/v2/store/lifecycle-service.ts), the file store's compare-and-set   *)
(* (lifecycle-store.ts) and the lock file under it (file-lock.ts), for one *)
(* tender and several writers in different Node processes.                 *)
(*                                                                         *)
(* A step is one file-system call with the local computation around it, so *)
(* a process may be descheduled, or crash, between any two of them.  The   *)
(* record is the sequence of what was committed to it, its creation first, *)
(* so that recordVersion is its length and processedActions its entries;   *)
(* no file is the empty sequence.  In-process calls are serialized by the  *)
(* store's KeyedMutex, which only removes interleavings: a writer here is  *)
(* the one call its process has in the store.                              *)
(***************************************************************************)
EXTENDS Integers, FiniteSets, SequencesExt

CONSTANTS
  Writers,        \* Node processes
  Events,         \* [action, hash]: events clients may send, retries included
  Creation,       \* the commit that creates the record
  StaleAfter,     \* staleAfterMs, in ticks
  AcquireTimeout, \* acquireTimeoutMs, in ticks
  HoldersAreFast, \* whether every attempt ends within StaleAfter ticks
  MaxCalls,       \* bound: calls made
  MaxCrashes,     \* bound: crashes
  MaxTime         \* bound: the clock

ASSUME StoreConstants ==
  /\ \A e \in Events \cup {Creation} : DOMAIN e = {"action", "hash"}
  /\ \A e \in Events : e.action # Creation.action
  /\ StaleAfter \in Nat \ {0} /\ AcquireTimeout \in Nat
  /\ HoldersAreFast \in BOOLEAN
  /\ MaxCalls \in Nat /\ MaxCrashes \in Nat /\ MaxTime \in Nat

VARIABLES
  file,     \* the authoritative lifecycle-<tenderId>.json
  lock,     \* lifecycle-<tenderId>.lock
  aside,    \* <lock>.stale.<token>, the lock file that call moved there
  writer,   \* each process's call in the store
  acked,    \* what clients were told is applied or replayed
  stolen,   \* history: how a lock file was taken from a call that was using it
  now, calls, crashes

vars == <<file, lock, aside, writer, acked, stolen, now, calls, crashes>>

Commits == Events \cup {Creation}
Times == 0..MaxTime

(* A lock file: its owner's token and acquiredAt; it is empty until the     *)
(* owner has written its metadata.  Token 0 is no lock file.                *)
LockMetadata == [token: 1..MaxCalls, acquiredAt: Times, complete: BOOLEAN]
NoLock == [token |-> 0, acquiredAt |-> 0, complete |-> FALSE]

Steps == {"idle", "attempt", "open", "writeLock", "inspect", "delay",
          "reclaim", "checkAside", "read", "write", "rename", "verify",
          "release", "unlink"}
Outcomes == {"NONE", "APPLIED", "VERSION_CONFLICT", "ATOMIC_WRITE_FAILED"}

(* A call: the record it means to write, its lock token, the time of its    *)
(* current attempt, its deadline, the token of a stale lock it inspected.   *)
Idle == [pc |-> "idle", next |-> <<>>, token |-> 0, triedAt |-> 0,
         deadline |-> 0, inspected |-> 0, outcome |-> "NONE"]

Init ==
  /\ file = <<>> /\ lock = NoLock
  /\ aside = [token \in 1..MaxCalls |-> NoLock]
  /\ writer = [w \in Writers |-> Idle]
  /\ acked = {} /\ stolen = {}
  /\ now = 0 /\ calls = 0 /\ crashes = 0

-----------------------------------------------------------------------------
(* The service: what happens before the lock *)

At(w, pc) == writer[w].pc = pc
GoTo(w, pc) == writer' = [writer EXCEPT ![w].pc = pc]

(* acquireFileLock's first lines: a fresh token and a deadline. *)
StartCall(w, next) ==
  /\ At(w, "idle")
  /\ calls < MaxCalls /\ now + AcquireTimeout < MaxTime
  /\ calls' = calls + 1
  /\ writer' = [writer EXCEPT ![w] =
                  [Idle EXCEPT !.pc = "attempt", !.next = next,
                               !.token = calls + 1,
                               !.deadline = now + AcquireTimeout]]
  /\ UNCHANGED <<file, lock, aside, acked, stolen, now, crashes>>

create(w) == StartCall(w, <<Creation>>)

(* Mutant: an event already processed is reduced again. *)
applyWithoutReplayCheck(w, e) ==
  /\ file # <<>>
  /\ StartCall(w, Append(file, e))

(* get, then reduce: the next record extends what was read without a lock. *)
applyNew(w, e) ==
  /\ file # <<>>
  /\ \A c \in ToSet(file) : c.action # e.action
  /\ StartCall(w, Append(file, e))

(* An event whose action id is committed with the same payload is REPLAYED; *)
(* with another payload it is refused and nothing changes.                  *)
applyReplayed(w, e) ==
  /\ At(w, "idle")
  /\ e \in ToSet(file)
  /\ acked' = acked \cup {e}
  /\ UNCHANGED <<file, lock, aside, writer, stolen, now, calls, crashes>>

-----------------------------------------------------------------------------
(* acquireFileLock *)

(* A turn of the loop reads the clock; a retry first waits one interval. *)
attempt(w) ==
  /\ \/ At(w, "attempt")
     \/ At(w, "delay") /\ writer[w].triedAt < now
  /\ writer' = [writer EXCEPT ![w].pc = "open", ![w].triedAt = now]
  /\ UNCHANGED <<file, lock, aside, acked, stolen, now, calls, crashes>>

(* Exclusive create of an empty lock file. *)
openLock(w) ==
  /\ At(w, "open")
  /\ IF lock = NoLock
     THEN /\ lock' = [token |-> writer[w].token,
                      acquiredAt |-> writer[w].triedAt, complete |-> FALSE]
          /\ GoTo(w, "writeLock")
     ELSE GoTo(w, "inspect") /\ UNCHANGED lock
  /\ UNCHANGED <<file, aside, acked, stolen, now, calls, crashes>>

(* The metadata goes to the open file, wherever it has been moved. *)
Completed(l, token) == IF l.token = token THEN [l EXCEPT !.complete = TRUE] ELSE l

writeLockFile(w) ==
  /\ At(w, "writeLock")
  /\ lock' = Completed(lock, writer[w].token)
  /\ aside' = [t \in 1..MaxCalls |-> Completed(aside[t], writer[w].token)]
  /\ GoTo(w, "read")
  /\ UNCHANGED <<file, acked, stolen, now, calls, crashes>>

(* The lock file is read again after the failed create: gone, malformed,    *)
(* stale, or live; on a live one the call waits or gives up.                *)
Throw(w) == writer' = [writer EXCEPT ![w] = Idle]

IsStale(w) == writer[w].triedAt - lock.acquiredAt >= StaleAfter

(* Mutant: a malformed lock is waited for like a live one. *)
inspectWaitsOnMalformed(w) ==
  /\ At(w, "inspect")
  /\ \/ lock = NoLock /\ GoTo(w, "attempt")
     \/ lock # NoLock /\ ~lock.complete /\ GoTo(w, "delay")
     \/ /\ lock.complete /\ IsStale(w)
        /\ writer' = [writer EXCEPT ![w].pc = "reclaim", ![w].inspected = lock.token]
     \/ lock.complete /\ ~IsStale(w) /\ Throw(w)
  /\ UNCHANGED <<file, lock, aside, acked, stolen, now, calls, crashes>>

inspectLock(w) ==
  /\ At(w, "inspect")
  /\ \/ lock = NoLock /\ GoTo(w, "attempt")
     \/ lock # NoLock /\ ~lock.complete /\ Throw(w)          \* LOCK_CORRUPT
     \/ /\ lock.complete /\ IsStale(w)
        /\ writer' = [writer EXCEPT ![w].pc = "reclaim", ![w].inspected = lock.token]
     \/ /\ lock.complete /\ ~IsStale(w)
        /\ IF writer[w].triedAt + 1 > writer[w].deadline
           THEN Throw(w)                                 \* LOCK_BUSY, LOCK_TIMEOUT
           ELSE GoTo(w, "delay")
  /\ UNCHANGED <<file, lock, aside, acked, stolen, now, calls, crashes>>

(* The steps a call takes while it relies on the lock file it created. *)
Inside(w) ==
  writer[w].pc \in {"writeLock", "read", "write", "rename", "verify", "release", "unlink"}

(* Moving this lock file takes it from a call that relies on it: one that   *)
(* has been inside for as long as a dead one would, or one that created it  *)
(* after another call had moved the stale lock that was inspected.          *)
Theft(w) ==
  IF \A v \in Writers : Inside(v) => writer[v].token # lock.token THEN {}
  ELSE IF lock.token = writer[w].inspected THEN {"slowHolder"} ELSE {"replacedLock"}

(* reclaimStaleLock: rename whatever lock file is there to a path of one's  *)
(* own, then look at what was moved.                                        *)
reclaimStaleLock(w) ==
  /\ At(w, "reclaim")
  /\ IF lock = NoLock
     THEN GoTo(w, "attempt") /\ UNCHANGED <<lock, aside, stolen>>
     ELSE /\ aside' = [aside EXCEPT ![writer[w].token] = lock]
          /\ lock' = NoLock
          /\ stolen' = stolen \cup Theft(w)
          /\ GoTo(w, "checkAside")
  /\ UNCHANGED <<file, acked, now, calls, crashes>>

(* The inspected lock: removed, and the loop goes on.  Another one: the     *)
(* call throws LOCK_CORRUPT and the moved file stays where it is.           *)
checkAside(w) ==
  /\ At(w, "checkAside")
  /\ LET moved == aside[writer[w].token]
     IN  IF moved.complete /\ moved.token = writer[w].inspected
         THEN /\ aside' = [aside EXCEPT ![writer[w].token] = NoLock]
              /\ GoTo(w, "attempt")
         ELSE Throw(w) /\ UNCHANGED aside
  /\ UNCHANGED <<file, lock, acked, stolen, now, calls, crashes>>

-----------------------------------------------------------------------------
(* compareAndSet and create under the lock *)

Release(w, outcome) ==
  writer' = [writer EXCEPT ![w].pc = "release", ![w].outcome = outcome]

(* Mutant: the stored version is not compared with the expected one. *)
AnyVersionAccepted(w) == TRUE

(* The stored version is the one the call read and no committed action is   *)
(* dropped or rewritten; for create, there is no record yet.                *)
assertCasPreconditions(w) ==
  /\ Len(file) + 1 = Len(writer[w].next)
  /\ IsPrefix(file, writer[w].next)

readRecord(w) ==
  /\ At(w, "read")
  /\ IF assertCasPreconditions(w) THEN GoTo(w, "write")
                                 ELSE Release(w, "VERSION_CONFLICT")
  /\ UNCHANGED <<file, lock, aside, acked, stolen, now, calls, crashes>>

(* writeAtomic: the temporary file, the rename, the read-back.  Each can    *)
(* fail; a crash leaves the temporary file, which nobody reads.             *)
writeTemp(w) ==
  /\ At(w, "write")
  /\ GoTo(w, "rename") \/ Release(w, "ATOMIC_WRITE_FAILED")
  /\ UNCHANGED <<file, lock, aside, acked, stolen, now, calls, crashes>>

renameTemp(w) ==
  /\ At(w, "rename")
  /\ \/ file' = writer[w].next /\ GoTo(w, "verify")
     \/ UNCHANGED file /\ Release(w, "ATOMIC_WRITE_FAILED")
  /\ UNCHANGED <<lock, aside, acked, stolen, now, calls, crashes>>

(* Only the version is compared. *)
verifyWritten(w) ==
  /\ At(w, "verify")
  /\ \/ Len(file) = Len(writer[w].next) /\ Release(w, "APPLIED")
     \/ Release(w, "ATOMIC_WRITE_FAILED")
  /\ UNCHANGED <<file, lock, aside, acked, stolen, now, calls, crashes>>

(* releaseFileLock, first half: is the lock file still mine? *)
Answered(w) ==
  IF writer[w].outcome = "APPLIED" THEN acked \cup {Last(writer[w].next)} ELSE acked

releaseFileLock(w) ==
  /\ At(w, "release")
  /\ IF lock.complete /\ lock.token = writer[w].token
     THEN GoTo(w, "unlink") /\ UNCHANGED acked
     ELSE Throw(w) /\ acked' = Answered(w)
  /\ UNCHANGED <<file, lock, aside, stolen, now, calls, crashes>>

(* Second half: unlink the path.  Then the call returns. *)
unlinkLock(w) ==
  /\ At(w, "unlink")
  /\ lock' = NoLock
  /\ acked' = Answered(w)
  /\ writer' = [writer EXCEPT ![w] = Idle]
  /\ UNCHANGED <<file, aside, stolen, now, calls, crashes>>

-----------------------------------------------------------------------------
(* The environment *)

(* A process dies: its call is forgotten, its lock and its writes stay. *)
crash(w) ==
  /\ ~At(w, "idle")
  /\ crashes < MaxCrashes
  /\ crashes' = crashes + 1
  /\ writer' = [writer EXCEPT ![w] = Idle]
  /\ UNCHANGED <<file, lock, aside, acked, stolen, now, calls>>

Attempting(w) == writer[w].pc \notin {"idle", "attempt", "delay"}

tick ==
  /\ now < MaxTime
  /\ HoldersAreFast =>
       \A w \in Writers : Attempting(w) => now + 1 - writer[w].triedAt < StaleAfter
  /\ now' = now + 1
  /\ UNCHANGED <<file, lock, aside, writer, acked, calls, crashes, stolen>>

acquireFileLock(w) ==
  attempt(w) \/ openLock(w) \/ writeLockFile(w) \/ inspectLock(w)
  \/ reclaimStaleLock(w) \/ checkAside(w)

compareAndSet(w) ==
  readRecord(w) \/ writeTemp(w) \/ renameTemp(w) \/ verifyWritten(w)
  \/ releaseFileLock(w) \/ unlinkLock(w)

Proceed(w) == acquireFileLock(w) \/ compareAndSet(w)

Next ==
  \/ \E w \in Writers :
       \/ create(w)
       \/ \E e \in Events : applyNew(w, e) \/ applyReplayed(w, e)
       \/ Proceed(w)
       \/ crash(w)
  \/ tick

Spec == Init /\ [][Next]_vars

(* The operating system runs every process that can take a step, and time  *)
(* passes.                                                                 *)
FairSpec ==
  Spec /\ WF_vars(tick) /\ \A w \in Writers : WF_vars(Proceed(w))

-----------------------------------------------------------------------------
(* Properties *)

(* The files and the calls are well formed; a token is used by one call.   *)
TypeOK ==
  /\ file \in Seq(Commits)
  /\ lock \in LockMetadata \cup {NoLock}
  /\ aside \in [1..MaxCalls -> LockMetadata \cup {NoLock}]
  /\ \A w \in Writers :
       /\ writer[w].pc \in Steps /\ writer[w].outcome \in Outcomes
       /\ writer[w].next \in Seq(Commits)
       /\ writer[w].token \in 0..calls /\ writer[w].inspected \in 0..calls
       /\ writer[w].triedAt \in 0..now
  /\ \A v, w \in Writers :
       v # w /\ writer[v].token = writer[w].token => At(v, "idle") /\ At(w, "idle")
  /\ acked \subseteq Commits /\ stolen \subseteq {"slowHolder", "replacedLock"}
  /\ now \in Times /\ calls \in 0..MaxCalls /\ crashes \in 0..MaxCrashes

(* Two processes never both commit from the same version: every write to   *)
(* the authoritative file adds one commit to the record that was there.    *)
AddsOneCommit == file' # file => \E c \in Commits : file' = Append(file, c)
OneCommitPerVersion == [][AddsOneCommit]_file

(* That is so until a lock file is taken from a call that relies on it:    *)
(* crashes, retries, failed writes and stale locks of dead processes do    *)
(* not fork the record.                                                    *)
OneCommitUnlessStolen == [][stolen = {} => AddsOneCommit]_vars

(* What a client was told is applied, or replayed, is in the record, and   *)
(* stays there whatever the other processes do or wherever they crash,     *)
(* until a lock file is taken from a call that relies on it.               *)
AckedIsCommitted == stolen = {} => acked \subseteq ToSet(file)

(* An action id is committed at most once, whatever clients retry after a  *)
(* crash, a timeout or a lost answer, and whatever becomes of the locks:   *)
(* the record a call writes never has an id twice, be it stale or forked.  *)
ActionCommittedOnce ==
  \A i, j \in DOMAIN file : file[i].action = file[j].action => i = j

(* Of finitely many calls each one returns, with an answer or an error,    *)
(* also when the process that holds the lock has died or was suspended.    *)
(* The loop looks at its deadline only when it finds a live lock, so that  *)
(* an endless sequence of calls around it may hold a call up for ever.     *)
EveryCallReturns ==
  \A w \in Writers : ~At(w, "idle") ~> At(w, "idle")
=============================================================================
