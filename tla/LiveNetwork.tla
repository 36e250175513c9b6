----------------------------- MODULE LiveNetwork -----------------------------
(***************************************************************************)
(* Hedera testnet as the four guarded live scripts see it (scripts/run-v2- *)
(* {access,escrow,pod,release}-live.ts): an append-only ledger of          *)
(* the writes that reached consensus with SUCCESS, and a Mirror Node that  *)
(* shows a growing prefix of it.  A file, a contract and a topic are named *)
(* by the ledger position of the write that created them.  A script is one *)
(* process with a progress file; whatever stops it (a crash, a receipt     *)
(* that never comes, a Mirror lookup that times out, a balance read too    *)
(* early) loses its memory, and it is run again by hand.                   *)
(***************************************************************************)
EXTENDS Naturals, Sequences, FiniteSets

CONSTANTS
  Appends,        \* FileAppend chunks the compiled bytecode needs
  MaxStops,       \* bound: how often a script stops before its end
  MaxTorn         \* bound: how many of those stops tear a progress file

ASSUME LiveConstants ==
  /\ Appends \in Nat
  /\ MaxStops \in Nat
  /\ MaxTorn \in Nat

VARIABLES
  ledger,     \* the successful writes, in consensus order
  shown,      \* how many of them the Mirror Node shows
  lost,       \* positions that were in a script's hand when it stopped
  stops,      \* how many times a script stopped before its end
  torn        \* the scripts whose progress file was torn by a stop

networkVars == <<ledger, shown, lost, stops, torn>>

Phases == {"access", "escrow", "pod", "release"}

(* A write: what was called, on which object, which chunk of it. *)
Call(op, at, chunk) == [op |-> op, at |-> at, chunk |-> chunk]

(* The positions of the writes on object x among the first n. *)
WritesOn(x, n) == {i \in 1..n : ledger[i].at = x}
CallsOn(x, n) == {ledger[i].op : i \in WritesOn(x, n)}

(* The contract's state after the first n writes: every call of the     *)
(* happy path is taken once, in order (RouteGuardFreightEscrowBase).    *)
ContractState(c, n) ==
  LET calls == CallsOn(c, n)
  IN IF "release_full" \in calls THEN "RELEASED"
     ELSE IF "allocation" \in calls THEN "ALLOCATED"
     ELSE IF "funding" \in calls THEN "FUNDED"
     ELSE IF "registration" \in calls THEN "REGISTERED"
     ELSE "UNREGISTERED"

Chunks(f, n) == {i \in WritesOn(f, n) : ledger[i].op = "file_append"}

(* The file holds the compiled bytecode: every chunk once, in order. *)
Intact(f, n) ==
  /\ Cardinality(Chunks(f, n)) = Appends
  /\ \A i \in Chunks(f, n) : ledger[i].chunk = Cardinality(Chunks(f, i))

(* The contract runs the compiled code: its file was intact when it was made. *)
Sound(c) == Intact(ledger[c].at, c - 1)

(* Whether the state of the contract lets a call pass; a submission that   *)
(* fails for another reason is one of the stops.  A contract made of       *)
(* anything but the compiled bytecode is taken not to answer.              *)
Accepts(op, x) ==
  LET now == Len(ledger)
  IN CASE op = "association"  -> Sound(x)
       [] op = "registration" -> Sound(x) /\ ContractState(x, now) = "UNREGISTERED"
       [] op = "funding" ->
            /\ Sound(x)
            /\ ContractState(x, now) = "REGISTERED"
            /\ {"association", "allowance"} \subseteq CallsOn(x, now)
       [] op = "allocation"   -> Sound(x) /\ ContractState(x, now) = "FUNDED"
       [] op = "release_full" -> ContractState(x, now) = "ALLOCATED"
       [] OTHER -> TRUE

(* The sequence number of the last message of topic t among the first n    *)
(* writes, and the messages by their sequence numbers.                     *)
SequenceNumber(t, n) == Cardinality(WritesOn(t, n))
Messages(t, n) ==
  [k \in 1..SequenceNumber(t, n) |->
     ledger[CHOOSE i \in WritesOn(t, n) : SequenceNumber(t, i) = k].op]

Reach(w) ==
  /\ ledger' = Append(ledger, w)
  /\ UNCHANGED <<shown, lost, stops, torn>>

(* A run of the script of phase p ends early with the write at position   *)
(* hand (0: none) submitted and not recorded.                             *)
Halt(p, hand, tears) ==
  /\ stops < MaxStops
  /\ stops' = stops + 1
  /\ lost' = IF hand = 0 THEN lost ELSE lost \cup {hand}
  /\ torn' = IF tears THEN torn \cup {p} ELSE torn
  /\ tears => Cardinality(torn) < MaxTorn
  /\ UNCHANGED <<ledger, shown>>

(* The bounded wait for a write on the Mirror Node is over. *)
mirrorVerifyTransaction(i) == i <= shown

MirrorShows ==
  /\ shown < Len(ledger)
  /\ shown' = shown + 1
  /\ UNCHANGED <<ledger, lost, stops, torn>>

NetworkInit ==
  /\ ledger = <<>>
  /\ shown = 0
  /\ lost = {}
  /\ stops = 0
  /\ torn = {}
==============================================================================
