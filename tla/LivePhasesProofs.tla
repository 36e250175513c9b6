-------------------------- MODULE LivePhasesProofs ---------------------------
(***************************************************************************)
(* Three properties of the live scripts, for any number of appended        *)
(* chunks, of stops, of torn files and of run ids: the record says paid    *)
(* only when the release is shown, a write is repeated only if an earlier  *)
(* one was lost with its process or the progress file was torn, and what   *)
(* the scripts report, on the topic and in their evidence, is so.  The     *)
(* first two follow from IInv, whose part for each script says where every *)
(* write of its kind on the ledger is accounted for; the third from        *)
(* Truthful, which adds what each script has done by the point it is at.   *)
(* Both invariants are framed: a lemma for each script says that the steps *)
(* of the others leave its part alone.                                     *)
(***************************************************************************)
EXTENDS LivePhases, SequenceTheorems, FiniteSetTheorems, WellFoundedInduction, TLAPS

EscrowOps == {"file_create", "file_append", "contract_create", "association",
              "registration", "allowance", "funding", "allocation"}
WriteOps == AccessWrites \cup EscrowOps \cup PodWrites \cup ReleaseWrites
Write == [op : WriteOps, at : Nat, chunk : Nat]

(* The ledger is a sequence of writes, the Mirror Node shows a prefix. *)
Network ==
  /\ ledger \in Seq(Write)
  /\ shown \in Nat /\ shown <= Len(ledger)
  /\ lost \subseteq Positions

-----------------------------------------------------------------------------
(* Phase B2b: a settled activation is lost, in hand or committed; a bid is *)
(* settled at most once, under a committed activation.                     *)
AccessRun == [activation : ClaimStates, tx : Nat, bid : ClaimStates, body : BOOLEAN]
AtActivation == {"activate", "settleActivation", "activationSettled",
                 "commitActivation"}
AtBid == {"resume", "verifyActivation", "bid", "putBody", "claimBid", "settleBid",
          "bidSettled", "commitBid", "verifyBid"}

AccessInv ==
  /\ aRun \in AccessRun
  /\ aHand \in {0} \cup Positions
  /\ apc \in AtBid => aRun.activation = "COMMITTED"
  /\ apc \in AtActivation => aRun.activation # "COMMITTED"
  /\ apc \in {"putBody", "claimBid"} => aRun.bid = "NONE"
  /\ apc = "settleBid" => aRun.bid # "NONE"
  /\ \A i \in Positions : ledger[i].op = "access_activation" =>
       \/ i \in lost
       \/ i = aHand /\ apc \in {"activationSettled", "commitActivation"}
       \/ aRun.activation = "COMMITTED"
  /\ \A i \in Positions : ledger[i].op = "access_bid" =>
       /\ aRun.activation = "COMMITTED"
       /\ aRun.bid # "NONE"
       /\ apc # "settleBid"

-----------------------------------------------------------------------------
(* Phase C2: the file is what the process has, every write is lost, torn,  *)
(* in hand or recorded, and while no file was torn the tender was funded   *)
(* only on the recorded contract.                                          *)
ContractCreate == Step("contract_create", 0)
OnContract == {"association", "registration", "allowance", "funding", "allocation"}
EscrowStep == [op : EscrowOps \ {"contract_create"}, chunk : Nat] \cup {ContractCreate}
EscrowRun == [status : {"NONE", "IN_PROGRESS", "SUCCESS"}, log : Seq(EscrowStep),
              file : Nat, contract : Nat]

EscrowInv ==
  /\ eMem \in EscrowRun /\ eFile \in EscrowRun
  /\ eHand \in {0} \cup Positions
  /\ eSummary \in Nat
  /\ epc # "idle" => eMem = eFile /\ eFile.status # "NONE" /\ eSummary = 0
  /\ eFile.status = "NONE" => eFile = NoRun
  /\ eFile.contract # 0 <=> ContractCreate \in Recorded(eFile.log)
  /\ eHand # 0 =>
       /\ epc = "step"
       /\ Pending(eFile) # {}
       /\ Step(ledger[eHand].op, ledger[eHand].chunk) = NextStep(eFile)
  /\ \A i \in Positions : ledger[i].op \in EscrowOps =>
       \/ i \in lost \/ "escrow" \in torn \/ i = eHand
       \/ Step(ledger[i].op, ledger[i].chunk) \in Recorded(eFile.log)
  /\ \A i \in Positions : ledger[i].op = "funding" =>
       "escrow" \in torn \/ (ledger[i].at = eFile.contract /\ eFile.contract # 0)

-----------------------------------------------------------------------------
(* Phase D2: the same, without the contract. *)
IsPodRun(p) ==
  /\ p = [status |-> p.status, run |-> p.run, pod |-> p.pod, advised |-> p.advised,
          accepted |-> p.accepted, topic |-> p.topic, at |-> p.at,
          number |-> p.number, seen |-> p.seen]
  /\ p.at \in [PodWrites -> Nat]
  /\ p.topic \in Nat

PodInv ==
  /\ IsPodRun(pMem) /\ IsPodRun(pFile) /\ IsPodRun(pSummary)
  /\ pHand \in {0} \cup Positions
  /\ ppc # "idle" => pMem = pFile /\ pFile.status # "NONE"
  /\ pFile.status = "NONE" => \A s \in PodWrites : pFile.at[s] = 0
  /\ pHand # 0 =>
       /\ ppc \in PodWrites /\ ~pDry
       /\ ledger[pHand].op = ppc
       /\ pFile.at[ppc] = 0
  /\ \A i \in Positions : ledger[i].op \in PodWrites =>
       \/ i \in lost \/ "pod" \in torn \/ i = pHand
       \/ pFile.at[ledger[i].op] # 0

-----------------------------------------------------------------------------
(* The lifecycle record, and that it says paid only if the release is shown. *)
Boot == {BootStates[i] : i \in 1..Len(BootStates)}
LifecycleStates == {"NONE"} \cup Boot \cup PodStates \cup Released
IsAccepted == lifecycle.state \in {"POD_ACCEPTED"} \cup Released

LifecycleInv ==
  /\ lifecycle \in [state : LifecycleStates, run : Nat]
  /\ pMem.run \in Nat /\ pFile.run \in Nat /\ pRuns \in Nat
  /\ lifecycle.state \in Released => Released_(shown)

(* Phase E1: freight is released on the contract of the evidence, on an    *)
(* accepted POD; the release is lost, in hand, recorded or shown, and a    *)
(* run that has not recorded one began when none was shown.                *)
ReleaseRun == [status : {"NONE", "IN_PROGRESS", "SUCCESS"},
               at : [ReleaseWrites -> Nat], seen : SUBSET ReleaseWrites]
IsRelease(i) == ledger[i].op = "release_full"
ReleasedAt == rFile.at["release_full"]

ReleaseInv ==
  /\ rMem \in ReleaseRun /\ rFile \in ReleaseRun
  /\ rHand \in {0} \cup Positions
  /\ asked \in 0..2
  /\ rpc # "idle" => rMem = rFile /\ eSummary # 0 /\ IsAccepted
  /\ rHand # 0 =>
       /\ rpc \in ReleaseWrites
       /\ ledger[rHand].op = rpc
       /\ rFile.at[rpc] = 0
  /\ \A i \in Positions : ledger[i].op \in ReleaseWrites \ {"release_full"} =>
       \/ i \in lost \/ "release" \in torn \/ i = rHand
       \/ rFile.at[ledger[i].op] # 0
  /\ \A i \in Positions : IsRelease(i) =>
       /\ ledger[i].at = eSummary /\ eSummary # 0
       /\ IsAccepted
       /\ i \in lost \/ i = rHand \/ i = ReleasedAt \/ i <= shown
  /\ "release_full" \in rFile.seen => ReleasedAt # 0 /\ ReleasedAt <= shown
  /\ rpc \notin {"idle", "release_full"} => ReleasedAt # 0 /\ ReleasedAt <= shown
  /\ rpc = "release_full" /\ ReleasedAt = 0 =>
       /\ "allocation" \in CallsOn(eSummary, shown)
       /\ \A i \in Positions : IsRelease(i) => i \in lost \/ i = rHand
  /\ asked > 0 => failed \/ \E i \in Positions : IsRelease(i)
  /\ asked > 1 => failed \/ \E i \in lost : IsRelease(i)

-----------------------------------------------------------------------------
(* The first part of RepeatedOnlyIfLost; the second is in ReleaseInv. *)
Unrepeated ==
  \A i, j \in Positions :
    i < j /\ ledger[i].op = ledger[j].op /\ ledger[i].chunk = ledger[j].chunk =>
      /\ i \in lost \/ Owner(ledger[i].op) \in torn
      /\ ledger[i].op = "funding" => "escrow" \in torn
      /\ ledger[i].op # "access_bid"

IInv ==
  /\ Network
  /\ AccessInv
  /\ EscrowInv
  /\ PodInv
  /\ LifecycleInv
  /\ ReleaseInv
  /\ Unrepeated

-----------------------------------------------------------------------------
(* What any step does to the network, as the other scripts see it: the     *)
(* ledger is extended by writes of the kinds in O, and nothing comes back. *)
Grows(O) ==
  /\ ledger' \in Seq(Write)
  /\ Len(ledger) <= Len(ledger')
  /\ \A i \in Positions : ledger'[i] = ledger[i]
  /\ \A i \in Positions' : i \in Positions \/ ledger'[i].op \in O
  /\ shown <= shown' /\ shown' \in Nat /\ shown' <= Len(ledger')
  /\ lost \subseteq lost' /\ lost' \subseteq Positions'
  /\ torn \subseteq torn'

(* Reach: one write more. *)
LEMMA Reached ==
  ASSUME Network, NEW w \in Write, Reach(w)
  PROVE  /\ Grows({w.op})
         /\ Len(ledger') = Len(ledger) + 1
         /\ ledger'[Len(ledger')] = w
         /\ Len(ledger') \in Positions'
         /\ Len(ledger') # 0
BY DEF Network, Reach, Grows, Positions

(* A step that leaves the network alone. *)
LEMMA Untouched ==
  ASSUME Network, UNCHANGED networkVars
  PROVE  Grows({})
BY DEF Network, networkVars, Grows, Positions

(* Halt: the write in hand is lost. *)
LEMMA Halted ==
  ASSUME Network, NEW p, NEW hand \in {0} \cup Positions, NEW tears \in BOOLEAN,
         Halt(p, hand, tears)
  PROVE  /\ Grows({})
         /\ hand # 0 => hand \in lost'
         /\ tears => p \in torn'
         /\ UNCHANGED <<ledger, shown>>
BY DEF Network, Halt, Grows, Positions

(* MirrorShows: the Mirror Node catches up by one write. *)
LEMMA Mirrored ==
  ASSUME Network, MirrorShows
  PROVE  Grows({})
BY DEF Network, MirrorShows, Grows, Positions

(* What the network has become is a network. *)
LEMMA StillNetwork ==
  ASSUME Network, NEW O, Grows(O)
  PROVE  Network'
BY DEF Network, Grows, Positions

-----------------------------------------------------------------------------
(* The steps of the other scripts leave the part of Phase B2b alone. *)
LEMMA AccessFrame ==
  ASSUME Network, AccessInv, NEW O, Grows(O), O \cap AccessWrites = {},
         UNCHANGED accessVars
  PROVE  AccessInv'
<1>1. /\ aRun' = aRun /\ aHand' = aHand /\ apc' = apc
      /\ Positions \subseteq Positions' /\ lost \subseteq lost'
      /\ \A i \in Positions' : ledger'[i].op \in AccessWrites =>
           i \in Positions /\ ledger'[i] = ledger[i]
  BY DEF accessVars, Grows, Positions, Network
<1> QED BY <1>1 DEF AccessInv, AccessWrites

(* The same for Phase C2. *)
LEMMA EscrowFrame ==
  ASSUME Network, EscrowInv, NEW O, Grows(O), O \cap EscrowOps = {},
         UNCHANGED escrowVars
  PROVE  EscrowInv'
<1>1. /\ epc' = epc /\ eMem' = eMem /\ eFile' = eFile /\ eHand' = eHand
      /\ eSummary' = eSummary
      /\ Positions \subseteq Positions' /\ lost \subseteq lost' /\ torn \subseteq torn'
      /\ \A i \in Positions : ledger'[i] = ledger[i]
      /\ \A i \in Positions' : ledger'[i].op \in EscrowOps =>
           i \in Positions /\ ledger'[i] = ledger[i]
  BY DEF escrowVars, Grows, Positions, Network
<1>2. "funding" \in EscrowOps
  BY DEF EscrowOps
<1>3. /\ \A i \in Positions' : ledger'[i].op \in EscrowOps =>
           \/ i \in lost' \/ "escrow" \in torn' \/ i = eHand'
           \/ Step(ledger'[i].op, ledger'[i].chunk) \in Recorded(eFile'.log)
      /\ \A i \in Positions' : ledger'[i].op = "funding" =>
           "escrow" \in torn' \/ (ledger'[i].at = eFile'.contract /\ eFile'.contract # 0)
  BY <1>1, <1>2 DEF EscrowInv
<1> QED BY <1>1, <1>3 DEF EscrowInv, Pending, NextStep, EscrowSteps

(* The same for Phase D2. *)
LEMMA PodFrame ==
  ASSUME Network, PodInv, NEW O, Grows(O), O \cap PodWrites = {},
         UNCHANGED podLocal
  PROVE  PodInv'
<1>1. /\ ppc' = ppc /\ pMem' = pMem /\ pFile' = pFile /\ pHand' = pHand
      /\ pDry' = pDry /\ pSummary' = pSummary
      /\ Positions \subseteq Positions' /\ lost \subseteq lost' /\ torn \subseteq torn'
      /\ \A i \in Positions : ledger'[i] = ledger[i]
      /\ \A i \in Positions' : ledger'[i].op \in PodWrites =>
           i \in Positions /\ ledger'[i] = ledger[i]
  BY DEF podLocal, Grows, Positions, Network
<1> QED BY <1>1 DEF PodInv, IsPodRun

-----------------------------------------------------------------------------
(* A call on the contract that the Mirror Node shows is shown for good. *)
LEMMA CallsStay ==
  ASSUME Network, NEW O, Grows(O), eSummary' = eSummary, NEW c, c \in CallsOn(eSummary, shown)
  PROVE  c \in CallsOn(eSummary, shown)'
<1>1. PICK i \in 1..shown : ledger[i].at = eSummary /\ ledger[i].op = c
  BY DEF CallsOn, WritesOn
<1>2. i \in 1..shown' /\ ledger'[i] = ledger[i]
  BY <1>1 DEF Grows, Network, Positions
<1> QED BY <1>1, <1>2 DEF CallsOn, WritesOn

(* The evidence of Phase C2 is not rewritten. *)
SameEscrow == eSummary' = eSummary \/ eSummary = 0

(* The release stays shown: the other scripts, and the Mirror Node, do not *)
(* move the record.                                                        *)
LEMMA LifecycleFrame ==
  ASSUME Network, LifecycleInv, ReleaseInv, NEW O, Grows(O), SameEscrow,
         lifecycle' = lifecycle, UNCHANGED podLocal
  PROVE  LifecycleInv'
<1>1. pMem' = pMem /\ pFile' = pFile /\ pRuns' = pRuns
  BY DEF podLocal
<1>2. ASSUME lifecycle.state \in Released PROVE Released_(shown)'
  <2>1. "release_full" \in CallsOn(eSummary, shown)
    BY <1>2 DEF LifecycleInv, Released_, ContractState
  <2>2. PICK i \in 1..shown : ledger[i].at = eSummary /\ ledger[i].op = "release_full"
    BY <2>1 DEF CallsOn, WritesOn
  <2>3. eSummary # 0
    BY <2>2 DEF ReleaseInv, IsRelease, Positions, Network
  <2>4. eSummary' = eSummary
    BY <2>3 DEF SameEscrow
  <2>5. ("release_full" \in CallsOn(eSummary, shown))'
    BY <2>1, <2>4, CallsStay
  <2> QED BY <2>5 DEF Released_, ContractState
<1> QED BY <1>1, <1>2 DEF LifecycleInv

(* The steps of the other scripts leave the part of Phase E1 alone, if     *)
(* they do not take an acceptance back.                                    *)
LEMMA ReleaseFrame ==
  ASSUME Network, ReleaseInv, NEW O, Grows(O), O \cap ReleaseWrites = {},
         SameEscrow, IsAccepted => IsAccepted', UNCHANGED releaseVars
  PROVE  ReleaseInv'
<1>1. /\ rpc' = rpc /\ rMem' = rMem /\ rFile' = rFile /\ rHand' = rHand /\ <<asked, failed>>' = <<asked, failed>>
      /\ ReleasedAt' = ReleasedAt
  BY DEF releaseVars, ReleasedAt
<1>2. /\ Positions \subseteq Positions' /\ lost \subseteq lost' /\ torn \subseteq torn'
      /\ shown <= shown' /\ shown \in Nat /\ shown' \in Nat
      /\ \A i \in Positions : i \in Nat
      /\ \A i \in Positions : ledger'[i] = ledger[i]
      /\ \A i \in Positions' : ledger'[i].op \in ReleaseWrites =>
           i \in Positions /\ ledger'[i] = ledger[i]
  BY DEF Grows, Positions, Network
<1>3. "release_full" \in ReleaseWrites
  BY DEF ReleaseWrites
<1>4. ReleasedAt \in Nat
  BY <1>3 DEF ReleaseInv, ReleaseRun, ReleasedAt
<1>5. eSummary # 0 => eSummary' = eSummary
  BY DEF SameEscrow
<1>6. \A i \in Positions' : ledger'[i].op \in ReleaseWrites \ {"release_full"} =>
        \/ i \in lost' \/ "release" \in torn' \/ i = rHand'
        \/ rFile'.at[ledger'[i].op] # 0
  BY <1>1, <1>2 DEF ReleaseInv
<1>7. \A i \in Positions' : IsRelease(i)' =>
        /\ ledger'[i].at = eSummary' /\ eSummary' # 0
        /\ IsAccepted'
        /\ i \in lost' \/ i = rHand' \/ i = ReleasedAt' \/ i <= shown'
  BY <1>1, <1>2, <1>3, <1>5 DEF ReleaseInv, IsRelease
<1>8. /\ "release_full" \in rFile'.seen => ReleasedAt' # 0 /\ ReleasedAt' <= shown'
      /\ rpc' \notin {"idle", "release_full"} => ReleasedAt' # 0 /\ ReleasedAt' <= shown'
  BY <1>1, <1>2, <1>4 DEF ReleaseInv
<1>9. ASSUME rpc' = "release_full" /\ ReleasedAt' = 0
      PROVE  /\ "allocation" \in CallsOn(eSummary, shown)'
             /\ \A i \in Positions' : IsRelease(i)' => i \in lost' \/ i = rHand'
  <2>1. eSummary' = eSummary /\ "allocation" \in CallsOn(eSummary, shown)
    BY <1>1, <1>5, <1>9 DEF ReleaseInv
  <2>2. "allocation" \in CallsOn(eSummary, shown)'
    BY <2>1, CallsStay
  <2> QED BY <1>1, <1>2, <1>3, <1>9, <2>2 DEF ReleaseInv, IsRelease
<1>10. /\ asked' > 0 => failed' \/ \E i \in Positions' : IsRelease(i)'
       /\ asked' > 1 => failed' \/ \E i \in lost' : IsRelease(i)'
  BY <1>1, <1>2 DEF ReleaseInv, IsRelease, Network
<1>11. rHand' # 0 => /\ rpc' \in ReleaseWrites
                     /\ ledger'[rHand'].op = rpc'
                     /\ rFile'.at[rpc'] = 0
  BY <1>1, <1>2 DEF ReleaseInv
<1>12. /\ rMem' \in ReleaseRun /\ rFile' \in ReleaseRun
       /\ rHand' \in {0} \cup Positions'
       /\ asked' \in 0..2
       /\ rpc' # "idle" => rMem' = rFile' /\ eSummary' # 0 /\ IsAccepted'
  BY <1>1, <1>2, <1>5 DEF ReleaseInv
<1> QED BY <1>6, <1>7, <1>8, <1>9, <1>10, <1>11, <1>12 DEF ReleaseInv

-----------------------------------------------------------------------------
(* Nothing is repeated by a step that writes nothing. *)
LEMMA NothingRepeated ==
  ASSUME Network, Unrepeated, Grows({})
  PROVE  Unrepeated'
<1>1. /\ Positions' = Positions /\ lost \subseteq lost' /\ torn \subseteq torn'
      /\ \A i \in Positions : ledger'[i] = ledger[i]
  BY DEF Grows, Positions, Network
<1>2. \A o : Owner(o)' = Owner(o)
  BY DEF Owner
<1> QED BY <1>1, <1>2 DEF Unrepeated

(* A write may be submitted again when every earlier one of its kind was   *)
(* lost, or the file was torn.                                             *)
MayWrite(w) ==
  \A i \in Positions : ledger[i].op = w.op /\ ledger[i].chunk = w.chunk =>
    /\ i \in lost \/ Owner(w.op) \in torn
    /\ w.op = "funding" => "escrow" \in torn
    /\ w.op # "access_bid"

(* Such a write repeats nothing that was not lost. *)
LEMMA WriteRepeated ==
  ASSUME Network, Unrepeated, NEW w \in Write, Reach(w), MayWrite(w)
  PROVE  Unrepeated'
<1>1. /\ ledger' \in Seq(Write) /\ Len(ledger') = Len(ledger) + 1 /\ Len(ledger) \in Nat
      /\ lost' = lost /\ torn' = torn
      /\ \A i \in Positions : ledger'[i] = ledger[i]
      /\ ledger'[Len(ledger')] = w
  BY DEF Reach, Network, Positions
<1>2. \A o : Owner(o)' = Owner(o)
  BY DEF Owner
<1>3. \A j \in Positions' : j \in Positions \/ j = Len(ledger')
  BY <1>1 DEF Positions
<1>4. \A i, j \in Positions' : i < j => i \in Positions
  BY <1>1 DEF Positions
<1>5. ASSUME NEW i \in Positions', NEW j \in Positions', i < j,
             ledger'[i].op = ledger'[j].op, ledger'[i].chunk = ledger'[j].chunk
      PROVE  /\ i \in lost' \/ Owner(ledger[i].op) \in torn'
             /\ ledger'[i].op = "funding" => "escrow" \in torn'
             /\ ledger'[i].op # "access_bid"
  <2>1. i \in Positions
    BY <1>4, <1>5
  <2>2. CASE j \in Positions
    BY <1>1, <1>5, <2>1, <2>2 DEF Unrepeated
  <2>3. CASE j = Len(ledger')
    BY <1>1, <1>5, <2>1, <2>3 DEF MayWrite
  <2> QED BY <1>3, <2>2, <2>3
<1>6. \A i \in Positions : ledger'[i].op = ledger[i].op
  BY <1>1
<1> QED BY <1>2, <1>4, <1>5, <1>6 DEF Unrepeated

(* The owner of each kind of write. *)
LEMMA Owners ==
  /\ \A o \in AccessWrites : Owner(o) = "access"
  /\ \A o \in EscrowOps : Owner(o) = "escrow"
  /\ \A o \in PodWrites : Owner(o) = "pod"
  /\ \A o \in ReleaseWrites : Owner(o) = "release"
<1>1. \A o \in AccessWrites : Owner(o) = "access"
  BY DEF Owner, AccessWrites, PodWrites, ReleaseWrites
<1>2. \A o \in EscrowOps : Owner(o) = "escrow"
  BY DEF Owner, AccessWrites, PodWrites, ReleaseWrites, EscrowOps
<1>3. \A o \in PodWrites : Owner(o) = "pod"
  BY DEF Owner, AccessWrites, PodWrites, ReleaseWrites
<1>4. \A o \in ReleaseWrites : Owner(o) = "release"
  BY DEF Owner, AccessWrites, PodWrites, ReleaseWrites
<1> QED BY <1>1, <1>2, <1>3, <1>4

(* The four scripts write different things. *)
LEMMA KindsDisjoint ==
  /\ AccessWrites \cap EscrowOps = {} /\ AccessWrites \cap PodWrites = {}
  /\ AccessWrites \cap ReleaseWrites = {} /\ EscrowOps \cap PodWrites = {}
  /\ EscrowOps \cap ReleaseWrites = {} /\ PodWrites \cap ReleaseWrites = {}
BY DEF AccessWrites, EscrowOps, PodWrites, ReleaseWrites

(* A step of Phase B2b keeps the invariant if it keeps its own part. *)
LEMMA AccessStep ==
  ASSUME IInv, UNCHANGED laterVars, NEW O \in SUBSET AccessWrites, Grows(O),
         AccessInv', Unrepeated'
  PROVE  IInv'
<1>1. /\ UNCHANGED escrowVars /\ UNCHANGED podLocal /\ UNCHANGED releaseVars
      /\ lifecycle' = lifecycle /\ eSummary' = eSummary
  BY DEF laterVars, escrowVars, podVars, podLocal, releaseVars
<1>2. /\ O \cap EscrowOps = {} /\ O \cap PodWrites = {} /\ O \cap ReleaseWrites = {}
  BY KindsDisjoint
<1>3. IsAccepted => IsAccepted'
  BY <1>1 DEF IsAccepted
<1> QED BY <1>1, <1>2, <1>3, StillNetwork, EscrowFrame, PodFrame, LifecycleFrame, ReleaseFrame
        DEF IInv, SameEscrow

(* The same for Phase C2. *)
LEMMA EscrowStepKept ==
  ASSUME IInv, UNCHANGED <<accessVars, podVars, releaseVars>>,
         NEW O \in SUBSET EscrowOps, Grows(O), EscrowInv', SameEscrow, Unrepeated'
  PROVE  IInv'
<1>1. /\ UNCHANGED accessVars /\ UNCHANGED podLocal /\ UNCHANGED releaseVars
      /\ lifecycle' = lifecycle
  BY DEF podVars, podLocal
<1>2. /\ O \cap AccessWrites = {} /\ O \cap PodWrites = {} /\ O \cap ReleaseWrites = {}
  BY KindsDisjoint
<1>3. IsAccepted => IsAccepted'
  BY <1>1 DEF IsAccepted
<1> QED BY <1>1, <1>2, <1>3, StillNetwork, AccessFrame, PodFrame, LifecycleFrame, ReleaseFrame
        DEF IInv

(* The same for Phase D2, which also moves the record. *)
LEMMA PodStep ==
  ASSUME IInv, UNCHANGED <<accessVars, escrowVars, releaseVars>>,
         NEW O \in SUBSET PodWrites, Grows(O), PodInv', LifecycleInv',
         IsAccepted => IsAccepted', Unrepeated'
  PROVE  IInv'
<1>1. eSummary' = eSummary
  BY DEF escrowVars
<1>2. /\ O \cap AccessWrites = {} /\ O \cap EscrowOps = {} /\ O \cap ReleaseWrites = {}
  BY KindsDisjoint
<1> QED BY <1>1, <1>2, StillNetwork, AccessFrame, EscrowFrame, ReleaseFrame
        DEF IInv, SameEscrow

(* The same for Phase E1. *)
LEMMA ReleaseStep ==
  ASSUME IInv, UNCHANGED <<accessVars, escrowVars, podLocal>>,
         NEW O \in SUBSET ReleaseWrites, Grows(O), ReleaseInv', LifecycleInv',
         Unrepeated'
  PROVE  IInv'
<1>1. /\ O \cap AccessWrites = {} /\ O \cap EscrowOps = {} /\ O \cap PodWrites = {}
  BY KindsDisjoint
<1> QED BY <1>1, StillNetwork, AccessFrame, EscrowFrame, PodFrame DEF IInv

-----------------------------------------------------------------------------
(* Phase B2b.  The facts a local step of the script needs. *)
AccessLocal ==
  /\ aRun' \in AccessRun
  /\ aHand' \in {0} \cup Positions
  /\ apc' \in AtBid => aRun'.activation = "COMMITTED"
  /\ apc' \in AtActivation => aRun'.activation # "COMMITTED"
  /\ apc' \in {"putBody", "claimBid"} => aRun'.bid = "NONE"
  /\ apc' = "settleBid" => aRun'.bid # "NONE"
  /\ aRun'.activation = "COMMITTED"
       \/ (aRun.activation # "COMMITTED"
            /\ (apc \in {"activationSettled", "commitActivation"} =>
                  aHand' = aHand /\ apc' \in {"activationSettled", "commitActivation"}))
  /\ aRun.bid # "NONE" => aRun'.bid # "NONE" \/ aRun.activation # "COMMITTED"
  /\ apc' = "settleBid" => aRun.bid = "NONE"

(* A step of the script that leaves the network alone keeps its part. *)
LEMMA AccessQuiet ==
  ASSUME IInv, UNCHANGED laterVars, UNCHANGED networkVars, AccessLocal
  PROVE  IInv'
<1>1. Grows({})
  BY Untouched DEF IInv
<1>2. Unrepeated'
  BY <1>1, NothingRepeated DEF IInv
<1>3. Positions' = Positions /\ ledger' = ledger /\ lost' = lost
  BY DEF networkVars, Positions
<1>4. AccessInv'
  BY <1>3 DEF IInv, AccessInv, AccessLocal
<1> QED BY <1>1, <1>2, <1>4, AccessStep

(* AccessStart and ResumeActivation. *)
LEMMA AccessStarts ==
  ASSUME IInv, UNCHANGED laterVars, AccessStart \/ ResumeActivation
  PROVE  IInv'
<1>1. AccessInv
  BY DEF IInv
<1>2. CASE AccessStart
  <2>1. NewRun \in AccessRun /\ NewRun.activation = "NONE"
    BY DEF NewRun, AccessRun, ClaimStates
  <2>2. AccessLocal
    BY <1>1, <1>2, <2>1 DEF AccessStart, resume, AccessInv, AccessLocal, AtBid, AtActivation
  <2> QED BY <1>2, <2>2, AccessQuiet DEF AccessStart
<1>3. CASE ResumeActivation
  <2>1. AccessLocal
    BY <1>1, <1>3 DEF ResumeActivation, AccessGoTo, AccessInv, AccessLocal, AtBid, AtActivation
  <2> QED BY <1>3, <2>1, AccessQuiet DEF ResumeActivation, AccessGoTo
<1> QED BY <1>2, <1>3

(* The steps between the writes. *)
LEMMA AccessActivates ==
  ASSUME IInv, UNCHANGED laterVars,
         \/ ActivationClaimed \/ ActivationRecorded \/ ActivationCommitted
         \/ ActivationVerified
  PROVE  IInv'
<1>1. AccessInv /\ aRun \in AccessRun
  BY DEF IInv, AccessInv
<1>0. Positions \subseteq Nat
  BY DEF Positions
<1>2. CASE ActivationClaimed
  <2>1. /\ aRun' \in AccessRun /\ aRun'.activation = "SETTLING" /\ aRun'.bid = aRun.bid
    BY <1>1, <1>2 DEF ActivationClaimed, AccessRun, ClaimStates
  <2>2. AccessLocal
    BY <1>1, <1>2, <2>1 DEF ActivationClaimed, AccessInv, AccessLocal, AtBid, AtActivation
  <2> QED BY <1>2, <2>2, AccessQuiet DEF ActivationClaimed
<1>3. CASE ActivationRecorded
  <2>1. aHand \in Nat
    BY <1>0, <1>1 DEF AccessInv
  <2>2. /\ aRun' \in AccessRun /\ aRun'.activation = "SETTLED_PENDING_COMMIT"
        /\ aRun'.bid = aRun.bid
    BY <1>1, <1>3, <2>1 DEF ActivationRecorded, AccessRun, ClaimStates
  <2>3. AccessLocal
    BY <1>1, <1>3, <2>2 DEF ActivationRecorded, AccessInv, AccessLocal, AtBid, AtActivation
  <2> QED BY <1>3, <2>3, AccessQuiet DEF ActivationRecorded
<1>4. CASE ActivationCommitted
  <2>1. /\ aRun' \in AccessRun /\ aRun'.activation = "COMMITTED" /\ aRun'.bid = aRun.bid
    BY <1>1, <1>4 DEF ActivationCommitted, AccessRun, ClaimStates
  <2>2. AccessLocal
    BY <1>1, <1>4, <2>1 DEF ActivationCommitted, AccessInv, AccessLocal, AtBid, AtActivation
  <2> QED BY <1>4, <2>2, AccessQuiet DEF ActivationCommitted
<1>5. CASE ActivationVerified
  <2>1. AccessLocal
    BY <1>1, <1>5 DEF ActivationVerified, AccessGoTo, AccessInv, AccessLocal, AtBid, AtActivation
  <2> QED BY <1>5, <2>1, AccessQuiet DEF ActivationVerified, AccessGoTo
<1> QED BY <1>2, <1>3, <1>4, <1>5

(* The bid's steps between the writes. *)
LEMMA AccessBids ==
  ASSUME IInv, UNCHANGED laterVars,
         \/ BidUnpaid \/ BidStored \/ BidClaimed \/ BidRecorded
         \/ BidCommitted \/ AccessEvidence
  PROVE  IInv'
<1>1. AccessInv /\ aRun \in AccessRun
  BY DEF IInv, AccessInv
<1>2. CASE BidUnpaid
  <2>1. AccessLocal
    BY <1>1, <1>2 DEF BidUnpaid, AccessGoTo, AccessInv, AccessLocal, AtBid, AtActivation
  <2> QED BY <1>2, <2>1, AccessQuiet DEF BidUnpaid, AccessGoTo
<1>3. CASE BidStored
  <2>1. /\ aRun' \in AccessRun /\ aRun'.activation = aRun.activation
        /\ aRun'.bid = aRun.bid
    BY <1>1, <1>3 DEF BidStored, AccessRun, ClaimStates
  <2>2. AccessLocal
    BY <1>1, <1>3, <2>1 DEF BidStored, AccessInv, AccessLocal, AtBid, AtActivation
  <2> QED BY <1>3, <2>2, AccessQuiet DEF BidStored
<1>4. CASE BidClaimed
  <2>1. /\ aRun' \in AccessRun /\ aRun'.activation = aRun.activation
        /\ aRun'.bid = "SETTLING"
    BY <1>1, <1>4 DEF BidClaimed, AccessRun, ClaimStates
  <2>2. AccessLocal
    BY <1>1, <1>4, <2>1 DEF BidClaimed, AccessInv, AccessLocal, AtBid, AtActivation
  <2> QED BY <1>4, <2>2, AccessQuiet DEF BidClaimed
<1>5. CASE BidRecorded
  <2>1. /\ aRun' \in AccessRun /\ aRun'.activation = aRun.activation
        /\ aRun'.bid = "SETTLED_PENDING_COMMIT"
    BY <1>1, <1>5 DEF BidRecorded, AccessRun, ClaimStates
  <2>2. AccessLocal
    BY <1>1, <1>5, <2>1 DEF BidRecorded, AccessInv, AccessLocal, AtBid, AtActivation
  <2> QED BY <1>5, <2>2, AccessQuiet DEF BidRecorded
<1>6. CASE BidCommitted
  <2>1. /\ aRun' \in AccessRun /\ aRun'.activation = aRun.activation
        /\ aRun'.bid = "COMMITTED"
    BY <1>1, <1>6 DEF BidCommitted, AccessRun, ClaimStates
  <2>2. AccessLocal
    BY <1>1, <1>6, <2>1 DEF BidCommitted, AccessInv, AccessLocal, AtBid, AtActivation
  <2> QED BY <1>6, <2>2, AccessQuiet DEF BidCommitted
<1>7. CASE AccessEvidence
  <2>1. AccessLocal
    BY <1>1, <1>7 DEF AccessEvidence, AccessInv, AccessLocal, AtBid, AtActivation
  <2> QED BY <1>7, <2>1, AccessQuiet DEF AccessEvidence
<1> QED BY <1>2, <1>3, <1>4, <1>5, <1>6, <1>7

(* A settlement is submitted. *)
LEMMA AccessSettles ==
  ASSUME IInv, UNCHANGED laterVars, ActivationSettled \/ BidSettled
  PROVE  IInv'
<1>1. AccessInv /\ Network /\ Unrepeated
  BY DEF IInv
<1>2. CASE ActivationSettled
  <2> DEFINE w == Call("access_activation", 0, 0)
  <2>1. w \in Write /\ w.op = "access_activation" /\ Reach(w)
        /\ apc = "settleActivation" /\ apc' = "activationSettled"
        /\ aHand' = Len(ledger') /\ aRun' = aRun
    BY <1>2 DEF ActivationSettled, PaymentSettled, Call, Write, WriteOps, AccessWrites
  <2> HIDE DEF w
  <2>2. /\ Grows({"access_activation"}) /\ Len(ledger') \in Positions' /\ lost' = lost
        /\ \A i \in Positions : ledger'[i] = ledger[i]
        /\ \A i \in Positions' : i \in Positions \/ i = Len(ledger')
        /\ ledger'[Len(ledger')] = w
    BY <1>1, <2>1, Reached DEF Reach, Network, Positions
  <2>3. \A i \in Positions : ledger[i].op = "access_activation" => i \in lost
    BY <1>1, <2>1 DEF AccessInv, AtActivation
  <2>4. MayWrite(w)
    BY <2>1, <2>3 DEF MayWrite
  <2>5. Unrepeated'
    BY <1>1, <2>1, <2>4, WriteRepeated
  <2>6. AccessInv'
    BY <1>1, <2>1, <2>2, <2>3 DEF AccessInv, AtActivation, AtBid
  <2> QED BY <2>2, <2>5, <2>6, AccessStep DEF AccessWrites
<1>3. CASE BidSettled
  <2> DEFINE w == Call("access_bid", 0, 0)
  <2>1. w \in Write /\ w.op = "access_bid" /\ Reach(w)
        /\ apc = "settleBid" /\ apc' = "bidSettled"
        /\ aHand' = Len(ledger') /\ aRun' = aRun
    BY <1>3 DEF BidSettled, PaymentSettled, Call, Write, WriteOps, AccessWrites
  <2> HIDE DEF w
  <2>2. /\ Grows({"access_bid"}) /\ Len(ledger') \in Positions' /\ lost' = lost
        /\ \A i \in Positions : ledger'[i] = ledger[i]
        /\ \A i \in Positions' : i \in Positions \/ i = Len(ledger')
        /\ ledger'[Len(ledger')] = w
    BY <1>1, <2>1, Reached DEF Reach, Network, Positions
  <2>3. \A i \in Positions : ledger[i].op # "access_bid"
    BY <1>1, <2>1 DEF AccessInv
  <2>4. MayWrite(w)
    BY <2>1, <2>3 DEF MayWrite
  <2>5. Unrepeated'
    BY <1>1, <2>1, <2>4, WriteRepeated
  <2>6. AccessInv'
    BY <1>1, <2>1, <2>2, <2>3 DEF AccessInv, AtActivation, AtBid
  <2> QED BY <2>2, <2>5, <2>6, AccessStep DEF AccessWrites
<1> QED BY <1>2, <1>3

(* The script ends early: refused, or stopped. *)
LEMMA AccessEnds ==
  ASSUME IInv, UNCHANGED laterVars, SettlementRefused \/ AccessStops
  PROVE  IInv'
<1>1. AccessInv /\ Network /\ Unrepeated /\ aRun \in AccessRun
  BY DEF IInv, AccessInv
<1>2. CASE SettlementRefused
  <2>1. Grows({}) /\ ledger' = ledger /\ lost \subseteq lost'
    BY <1>1, <1>2, Halted DEF SettlementRefused, Grows
  <2>2. /\ aRun' \in AccessRun /\ aRun'.bid \in {aRun.bid, "FAILED"}
        /\ aRun'.activation = IF apc = "settleBid" THEN aRun.activation ELSE "FAILED"
    BY <1>1, <1>2 DEF SettlementRefused, AccessRun, ClaimStates
  <2>3. /\ apc \in {"settleActivation", "settleBid"} /\ apc' = "idle" /\ aHand' = aHand
    BY <1>2 DEF SettlementRefused
  <2>4. AccessInv'
    BY <1>1, <2>1, <2>2, <2>3 DEF AccessInv, AtActivation, AtBid, Positions
  <2> QED BY <1>1, <2>1, <2>4, NothingRepeated, AccessStep
<1>3. CASE AccessStops
  <2>1. Grows({}) /\ ledger' = ledger /\ lost \subseteq lost'
        /\ (aHand # 0 => aHand \in lost')
    BY <1>1, <1>3, Halted DEF AccessStops, Grows, AccessInv
  <2>2. apc' = "idle" /\ aHand' = 0 /\ aRun' = aRun
    BY <1>3 DEF AccessStops
  <2>3. \A i \in Positions : i # 0
    BY DEF Positions
  <2>4. AccessInv'
    BY <1>1, <2>1, <2>2, <2>3 DEF AccessInv, AtActivation, AtBid, Positions
  <2> QED BY <1>1, <2>1, <2>4, NothingRepeated, AccessStep
<1> QED BY <1>2, <1>3

(* Every step of Phase B2b. *)
LEMMA AccessPreserves ==
  ASSUME IInv, OfAccess(AccessNext)
  PROVE  IInv'
BY AccessStarts, AccessActivates, AccessBids, AccessSettles, AccessEnds
   DEF OfAccess, AccessNext, AccessProgress

-----------------------------------------------------------------------------
(* Two sequences, one after the other. *)
LEMMA Joined ==
  ASSUME NEW S, NEW s \in Seq(S), NEW t \in Seq(S)
  PROVE  /\ s \o t \in Seq(S)
         /\ Len(s \o t) = Len(s) + Len(t)
         /\ \A i \in 1..Len(s) : (s \o t)[i] = s[i]
OBVIOUS

(* The elements of the second. *)
LEMMA JoinedTail ==
  ASSUME NEW S, NEW s \in Seq(S), NEW t \in Seq(S), NEW i \in 1..Len(t)
  PROVE  (s \o t)[Len(s) + i] = t[i]
OBVIOUS

(* A sequence and one element more. *)
LEMMA JoinedLast ==
  ASSUME NEW S, NEW s \in Seq(S), NEW x \in S
  PROVE  (s \o <<x>>)[Len(s) + 1] = x
OBVIOUS

(* Phase C2.  The writes of the script: the contract is created last when  *)
(* it is deployed, and the deployment calls nothing on it.                 *)
LEMMA DeploySteps ==
  /\ stepDeploy \in Seq(EscrowStep)
  /\ Len(stepDeploy) = Appends + 2
  /\ stepDeploy[Appends + 2] = ContractCreate
  /\ \A i \in 1..(Appends + 2) : stepDeploy[i].op \notin OnContract
<1> DEFINE Deploy == [op : {"file_create", "file_append"}, chunk : Nat] \cup {ContractCreate}
           first == <<Step("file_create", 0)>>
           chunks == [i \in 1..Appends |-> Step("file_append", i)]
           file == first \o chunks
<1>0. Appends \in Nat
  BY LiveConstants
<1>1. /\ \A i \in 1..Appends : Step("file_append", i) \in Deploy
      /\ Step("file_create", 0) \in Deploy /\ ContractCreate \in Deploy
  BY <1>0 DEF Step, ContractCreate
<1>2. Deploy \subseteq EscrowStep /\ \A s \in Deploy : s.op \notin OnContract
  BY DEF EscrowStep, EscrowOps, ContractCreate, Step, OnContract
<1>3. stepDeploy = file \o <<ContractCreate>>
  BY DEF stepDeploy, ContractCreate
<1> HIDE DEF Deploy
<1>4. /\ chunks \in Seq(Deploy) /\ Len(chunks) = Appends
      /\ first \in Seq(Deploy) /\ Len(first) = 1
      /\ <<ContractCreate>> \in Seq(Deploy) /\ Len(<<ContractCreate>>) = 1
  BY <1>0, <1>1
<1> HIDE DEF first, chunks
<1>5. file \in Seq(Deploy) /\ Len(file) = Len(first) + Len(chunks)
  BY Zenon, <1>4, Joined
<1> HIDE DEF file
<1>6. /\ stepDeploy \in Seq(Deploy) /\ Len(stepDeploy) = Len(file) + Len(<<ContractCreate>>)
      /\ stepDeploy[Len(file) + 1] = ContractCreate
  BY Zenon, <1>1, <1>3, <1>4, <1>5, Joined, JoinedLast
<1>7. Len(file) + 1 = Appends + 2 /\ Len(stepDeploy) = Appends + 2
  BY <1>0, <1>4, <1>5, <1>6
<1>8. stepDeploy \in Seq(EscrowStep) /\ \A i \in 1..(Appends + 2) : stepDeploy[i].op \notin OnContract
  BY <1>0, <1>2, <1>6, <1>7
<1> QED BY <1>6, <1>7, <1>8

(* Steps of the script. *)
LEMMA AllSteps ==
  /\ EscrowSteps \in Seq(EscrowStep)
  /\ Len(EscrowSteps) \in Nat /\ Appends + 2 \in 1..Len(EscrowSteps)
  /\ EscrowSteps[Appends + 2] = ContractCreate
  /\ \A i \in 1..Len(EscrowSteps) : EscrowSteps[i].op \in OnContract => i > Appends + 2
  /\ \E i \in 1..Len(EscrowSteps) : EscrowSteps[i] = Step("association", 0)
  /\ \E i \in 1..Len(EscrowSteps) : EscrowSteps[i] = Step("allocation", 0)
<1> DEFINE rest == <<Step("association", 0), Step("registration", 0),
                     Step("allowance", 0), Step("funding", 0), Step("allocation", 0)>>
<1>0. Appends \in Nat /\ Appends + 2 \in Nat /\ 5 \in Nat
  BY LiveConstants
<1>1. /\ Step("association", 0) \in EscrowStep /\ Step("registration", 0) \in EscrowStep
      /\ Step("allowance", 0) \in EscrowStep /\ Step("funding", 0) \in EscrowStep
      /\ Step("allocation", 0) \in EscrowStep
  BY DEF Step, EscrowStep, EscrowOps
<1>2. /\ rest \in Seq(EscrowStep) /\ Len(rest) = 5
      /\ rest[1] = Step("association", 0) /\ rest[5] = Step("allocation", 0)
  BY <1>1
<1>3. EscrowSteps = stepDeploy \o rest
  BY <1>1, DeploySteps, LiveConstants DEF EscrowSteps, stepAssociate, stepRegister,
     stepAllowance, stepFund, stepAllocate
<1> HIDE DEF rest
<1>4. /\ EscrowSteps \in Seq(EscrowStep) /\ Len(EscrowSteps) = (Appends + 2) + 5
      /\ \A i \in 1..(Appends + 2) : EscrowSteps[i] = stepDeploy[i]
      /\ \A i \in 1..5 : EscrowSteps[(Appends + 2) + i] = rest[i]
  <2>1. /\ EscrowSteps \in Seq(EscrowStep)
        /\ Len(EscrowSteps) = Len(stepDeploy) + Len(rest)
        /\ \A i \in 1..Len(stepDeploy) : EscrowSteps[i] = stepDeploy[i]
    BY Zenon, <1>2, <1>3, DeploySteps, Joined
  <2>2. \A i \in 1..Len(rest) : EscrowSteps[Len(stepDeploy) + i] = rest[i]
    <3> SUFFICES ASSUME NEW i \in 1..Len(rest)
                 PROVE  (stepDeploy \o rest)[Len(stepDeploy) + i] = rest[i]
      BY <1>3
    <3>1. stepDeploy \in Seq(EscrowStep) /\ rest \in Seq(EscrowStep)
      BY <1>2, DeploySteps
    <3> QED BY ONLY <3>1, i \in 1..Len(rest), JoinedTail, Zenon
  <2> QED BY <1>0, <1>2, <2>1, <2>2, DeploySteps
<1>5. /\ EscrowSteps[(Appends + 2) + 1] = Step("association", 0)
      /\ EscrowSteps[(Appends + 2) + 5] = Step("allocation", 0)
      /\ (Appends + 2) + 1 \in 1..Len(EscrowSteps)
      /\ (Appends + 2) + 5 \in 1..Len(EscrowSteps)
  BY <1>0, <1>2, <1>4
<1>6. /\ \E i \in 1..Len(EscrowSteps) : EscrowSteps[i] = Step("association", 0)
      /\ \E i \in 1..Len(EscrowSteps) : EscrowSteps[i] = Step("allocation", 0)
  BY <1>5
<1> QED BY <1>0, <1>4, <1>6, DeploySteps

(* The next step is one that is not recorded; the contract is called only  *)
(* when its creation is.                                                   *)
LEMMA NextStepIsFirst ==
  ASSUME NEW p, Pending(p) # {}
  PROVE  /\ NextStep(p) \in EscrowStep
         /\ NextStep(p) \notin Recorded(p.log)
         /\ NextStep(p).op \in OnContract => ContractCreate \in Recorded(p.log)
<1> DEFINE S == Pending(p)
<1>1. S \subseteq Nat /\ S # {}
  BY AllSteps DEF Pending
<1>2. \E i \in S : \A j \in S : i <= j
  <2>1. PICK x \in S : \A y \in S : <<y, x>> \notin OpToRel(<, Nat)
    BY <1>1, WFMin, NatLessThanWellFounded
  <2>2. x \in S /\ \A y \in S : ~(y < x)
    BY <1>1, <2>1 DEF OpToRel
  <2> QED BY <1>1, <2>2
<1> DEFINE m == CHOOSE i \in S : \A j \in S : i <= j
<1>3. m \in S /\ \A j \in S : m <= j
  BY <1>2
<1>4. NextStep(p) = EscrowSteps[m]
  BY DEF NextStep
<1> HIDE DEF m
<1>5. NextStep(p) \in EscrowStep /\ NextStep(p) \notin Recorded(p.log)
  BY <1>3, <1>4, AllSteps DEF Pending
<1>6. ASSUME NextStep(p).op \in OnContract, ContractCreate \notin Recorded(p.log)
      PROVE  FALSE
  <2>1. Appends + 2 \in S
    BY <1>6, AllSteps DEF Pending
  <2>2. m > Appends + 2
    BY <1>3, <1>4, <1>6, AllSteps DEF Pending
  <2>3. m <= Appends + 2
    BY <1>3, <2>1
  <2> QED BY <1>1, <1>3, <2>2, <2>3, LiveConstants
<1> QED BY <1>5, <1>6

(* What a recorded step adds to the log. *)
LEMMA RecordedAppend ==
  ASSUME NEW log \in Seq(EscrowStep), NEW s \in EscrowStep
  PROVE  /\ Append(log, s) \in Seq(EscrowStep)
         /\ Recorded(Append(log, s)) = Recorded(log) \cup {s}
<1>1. /\ Append(log, s) \in Seq(EscrowStep) /\ Len(Append(log, s)) = Len(log) + 1
      /\ \A i \in 1..Len(log) : Append(log, s)[i] = log[i]
      /\ Append(log, s)[Len(log) + 1] = s
      /\ Len(log) \in Nat
  OBVIOUS
<1>2. \A i \in 1..(Len(log) + 1) : i \in 1..Len(log) \/ i = Len(log) + 1
  BY <1>1
<1>3. 1..Len(log) \subseteq 1..(Len(log) + 1) /\ Len(log) + 1 \in 1..(Len(log) + 1)
  BY <1>1
<1>4. Recorded(Append(log, s)) \subseteq Recorded(log) \cup {s}
  BY <1>1, <1>2 DEF Recorded
<1>5. Recorded(log) \cup {s} \subseteq Recorded(Append(log, s))
  BY <1>1, <1>3 DEF Recorded
<1> QED BY <1>1, <1>4, <1>5

(* A new run, and no run. *)
LEMMA FreshRuns ==
  /\ NoRun \in EscrowRun /\ NewEscrowRun \in EscrowRun
  /\ NoRun.log = <<>> /\ NoRun.contract = 0
  /\ NewEscrowRun.log = <<>> /\ NewEscrowRun.contract = 0
  /\ NewEscrowRun.status = "IN_PROGRESS"
  /\ Recorded(<<>>) = {}
<1>1. <<>> \in Seq(EscrowStep) /\ Recorded(<<>>) = {}
  BY DEF Recorded
<1>2. NoRun \in EscrowRun /\ NoRun.log = <<>> /\ NoRun.contract = 0
  BY <1>1 DEF NoRun, EscrowRun
<1>3. /\ NewEscrowRun \in EscrowRun /\ NewEscrowRun.log = <<>>
      /\ NewEscrowRun.contract = 0 /\ NewEscrowRun.status = "IN_PROGRESS"
  BY <1>1 DEF NewEscrowRun, NoRun, EscrowRun
<1> QED BY <1>1, <1>2, <1>3

(* A local step that has nothing in hand keeps the part of the script.     *)
EscrowLocal ==
  /\ eMem' \in EscrowRun /\ eFile' \in EscrowRun
  /\ eHand = 0 /\ eHand' = 0
  /\ eSummary' \in Nat /\ SameEscrow
  /\ epc' # "idle" => eMem' = eFile' /\ eFile'.status # "NONE" /\ eSummary' = 0
  /\ eFile'.status = "NONE" => eFile' = NoRun
  /\ eFile'.log = eFile.log /\ eFile'.contract = eFile.contract

(* A step of that form keeps the invariant. *)
LEMMA EscrowQuiet ==
  ASSUME IInv, UNCHANGED <<accessVars, podVars, releaseVars>>, UNCHANGED networkVars,
         EscrowLocal
  PROVE  IInv'
<1>1. Grows({})
  BY Untouched DEF IInv
<1>2. Unrepeated'
  BY <1>1, NothingRepeated DEF IInv
<1>3. Positions' = Positions /\ ledger' = ledger /\ lost' = lost /\ torn' = torn
  BY DEF networkVars, Positions
<1>4. EscrowInv'
  BY <1>3 DEF IInv, EscrowInv, EscrowLocal
<1> QED BY <1>1, <1>2, <1>4, EscrowStepKept DEF EscrowLocal

(* EscrowStart: a new run has recorded as little as the file. *)
LEMMA EscrowStarts ==
  ASSUME IInv, UNCHANGED <<accessVars, podVars, releaseVars>>, EscrowStart
  PROVE  IInv'
<1>1. EscrowInv
  BY DEF IInv
<1>2. /\ epc = "idle" /\ eSummary = 0 /\ eHand' = eHand /\ eSummary' = eSummary
      /\ eMem' = IF eFile.status = "NONE" THEN NewEscrowRun ELSE eFile
      /\ eFile' = eMem'
  BY DEF EscrowStart
<1>3. eHand = 0
  BY <1>1, <1>2 DEF EscrowInv
<1>4. EscrowLocal
  BY <1>1, <1>2, <1>3, FreshRuns DEF EscrowInv, EscrowLocal, SameEscrow
<1> QED BY <1>4, EscrowQuiet DEF EscrowStart

(* The steps that write neither to the network nor a step. *)
LEMMA EscrowConcludes ==
  ASSUME IInv, UNCHANGED <<accessVars, podVars, releaseVars>>,
         EscrowEvidenceOnly \/ EscrowRefused \/ EscrowSuccess \/ EscrowEvidence
  PROVE  IInv'
<1>1. EscrowInv /\ eFile \in EscrowRun /\ eMem \in EscrowRun /\ eSummary \in Nat
      /\ (eHand # 0 => epc = "step")
  BY DEF IInv, EscrowInv
<1>2. \A p \in EscrowRun : p.contract \in Nat
  BY DEF EscrowRun
<1>3. CASE EscrowEvidenceOnly
  <2>1. EscrowLocal
    BY <1>1, <1>2, <1>3 DEF EscrowEvidenceOnly, EscrowInv, EscrowLocal, SameEscrow
  <2> QED BY <1>3, <2>1, EscrowQuiet DEF EscrowEvidenceOnly
<1>4. CASE EscrowRefused
  <2>1. EscrowLocal
    BY <1>1, <1>4, FreshRuns DEF EscrowRefused, EscrowInv, EscrowLocal, SameEscrow
  <2> QED BY <1>4, <2>1, EscrowQuiet DEF EscrowRefused
<1>5. CASE EscrowSuccess
  <2>1. epc = "step" /\ eHand = 0 /\ eHand' = eHand /\ eSummary' = eSummary
        /\ eMem' = [eMem EXCEPT !.status = "SUCCESS"] /\ eFile' = eMem'
        /\ epc' = "evidence"
    BY <1>5 DEF EscrowSuccess
  <2>2. eMem' \in EscrowRun /\ eMem'.status = "SUCCESS" /\ eMem'.log = eMem.log
        /\ eMem'.contract = eMem.contract
    BY <1>1, <2>1 DEF EscrowRun
  <2>3. eMem = eFile /\ eSummary = 0
    BY <1>1, <2>1 DEF EscrowInv
  <2>4. EscrowLocal
    BY <1>1, <2>1, <2>2, <2>3 DEF EscrowLocal, SameEscrow
  <2> QED BY <1>5, <2>4, EscrowQuiet DEF EscrowSuccess
<1>6. CASE EscrowEvidence
  <2>1. EscrowLocal
    BY <1>1, <1>2, <1>6, FreshRuns DEF EscrowEvidence, EscrowInv, EscrowLocal, SameEscrow
  <2> QED BY <1>6, <2>1, EscrowQuiet DEF EscrowEvidence
<1> QED BY <1>3, <1>4, <1>5, <1>6

(* What a step of the script is. *)
LEMMA StepShape ==
  ASSUME NEW s \in EscrowStep
  PROVE  /\ s = Step(s.op, s.chunk) /\ s.op \in EscrowOps /\ s.chunk \in Nat
         /\ s.op = "contract_create" => s = ContractCreate
BY DEF EscrowStep, EscrowOps, ContractCreate, Step

(* submitWithClient: the next write; what was recorded is not repeated,    *)
(* and the contract takes the funding once.                                *)
LEMMA EscrowSubmits ==
  ASSUME IInv, UNCHANGED <<accessVars, podVars, releaseVars>>, submitWithClient
  PROVE  IInv'
<1> DEFINE s == NextStep(eMem)
           x == Target(eMem, s)
           w == Call(s.op, x, s.chunk)
<1>1. Network /\ EscrowInv /\ Unrepeated
  BY DEF IInv
<1>2. /\ epc = "step" /\ eHand = 0 /\ Pending(eMem) # {}
      /\ Accepts(s.op, x) /\ Reach(w)
      /\ eHand' = Len(ledger')
      /\ epc' = epc /\ eMem' = eMem /\ eFile' = eFile /\ eSummary' = eSummary
  BY DEF submitWithClient
<1>3. eMem = eFile /\ eSummary = 0 /\ eFile \in EscrowRun
  BY <1>1, <1>2 DEF EscrowInv
<1>4. s \in EscrowStep /\ s \notin Recorded(eFile.log)
      /\ (s.op = "funding" => ContractCreate \in Recorded(eFile.log))
  BY <1>2, <1>3, NextStepIsFirst DEF OnContract
<1>5. s = Step(s.op, s.chunk) /\ s.op \in EscrowOps /\ s.chunk \in Nat
  BY <1>4, StepShape
<1>6. x \in Nat /\ (s.op = "funding" => x = eFile.contract)
  BY <1>3 DEF Target, EscrowRun
<1> HIDE DEF s, x
<1>7. w \in Write /\ w.op = s.op /\ w.chunk = s.chunk /\ w.at = x
  BY <1>5, <1>6 DEF Call, Write, WriteOps
<1> HIDE DEF w
<1>8. /\ Grows({s.op}) /\ Len(ledger') \in Positions' /\ Len(ledger') # 0
      /\ lost' = lost /\ torn' = torn
      /\ \A i \in Positions : ledger'[i] = ledger[i]
      /\ \A i \in Positions' : i \in Positions \/ i = Len(ledger')
      /\ ledger'[Len(ledger')] = w
  BY <1>1, <1>2, <1>7, Reached DEF Reach, Network, Positions
<1>9. ASSUME s.op = "funding", NEW i \in Positions, ledger[i].op = "funding"
      PROVE  "escrow" \in torn
  <2>1. SUFFICES ASSUME "escrow" \notin torn PROVE FALSE
    OBVIOUS
  <2>2. ledger[i].at = x
    BY <1>1, <1>6, <1>9, <2>1 DEF EscrowInv
  <2>3. "funding" \in CallsOn(x, Len(ledger))
    BY <1>9, <2>2 DEF CallsOn, WritesOn, Positions
  <2>4. ContractState(x, Len(ledger)) = "REGISTERED"
    BY <1>2, <1>9 DEF Accepts
  <2> QED BY <2>3, <2>4 DEF ContractState
<1>10. MayWrite(w)
  <2> SUFFICES ASSUME NEW i \in Positions, ledger[i].op = s.op, ledger[i].chunk = s.chunk
               PROVE  /\ i \in lost \/ Owner(s.op) \in torn
                      /\ s.op = "funding" => "escrow" \in torn
                      /\ s.op # "access_bid"
    BY <1>7 DEF MayWrite
  <2>1. i # 0
    BY DEF Positions
  <2>2. i \in lost \/ "escrow" \in torn
    BY <1>1, <1>2, <1>4, <1>5, <2>1 DEF EscrowInv
  <2>3. Owner(s.op) = "escrow"
    BY <1>5, Owners
  <2>4. s.op # "access_bid"
    BY <1>5 DEF EscrowOps
  <2> QED BY <1>9, <2>2, <2>3, <2>4
<1>11. Unrepeated'
  BY <1>1, <1>2, <1>7, <1>10, WriteRepeated
<1>12. s.op = "funding" => eFile.contract # 0
  BY <1>1, <1>4 DEF EscrowInv
<1>13. Pending(eFile)' = Pending(eFile) /\ NextStep(eFile)' = NextStep(eFile)
  BY <1>2 DEF Pending, NextStep, EscrowSteps
<1>14. Step(ledger'[eHand'].op, ledger'[eHand'].chunk) = NextStep(eFile)
  BY <1>2, <1>3, <1>5, <1>7, <1>8 DEF s
<1>15. EscrowInv'
  <2>1. \A i \in Positions' : ledger'[i].op \in EscrowOps =>
          \/ i \in lost' \/ "escrow" \in torn' \/ i = eHand'
          \/ Step(ledger'[i].op, ledger'[i].chunk) \in Recorded(eFile'.log)
    BY <1>1, <1>2, <1>8 DEF EscrowInv, Positions
  <2>2. \A i \in Positions' : ledger'[i].op = "funding" =>
          "escrow" \in torn' \/ (ledger'[i].at = eFile'.contract /\ eFile'.contract # 0)
    BY <1>1, <1>2, <1>6, <1>7, <1>8, <1>12 DEF EscrowInv
  <2>3. eHand' \in {0} \cup Positions'
    BY <1>2, <1>8
  <2> QED BY <1>1, <1>2, <1>3, <1>13, <1>14, <2>1, <2>2, <2>3 DEF EscrowInv
<1>16. {s.op} \in SUBSET EscrowOps /\ SameEscrow
  BY <1>2, <1>5 DEF SameEscrow
<1> QED BY <1>8, <1>11, <1>15, <1>16, EscrowStepKept

(* markStep: the write in hand is recorded. *)
LEMMA EscrowMarks ==
  ASSUME IInv, UNCHANGED <<accessVars, podVars, releaseVars>>, markStep
  PROVE  IInv'
<1> DEFINE s == NextStep(eFile)
           log == Append(eFile.log, s)
           file == IF s.op = "file_create" THEN eHand ELSE eFile.file
           contract == IF s.op = "contract_create" THEN eHand ELSE eFile.contract
<1>1. Network /\ EscrowInv /\ Unrepeated
  BY DEF IInv
<1>2. /\ epc = "step" /\ eHand # 0 /\ eHand' = 0 /\ epc' = epc /\ eSummary' = eSummary
      /\ eFile' = eMem' /\ UNCHANGED networkVars
      /\ eMem = eFile /\ eSummary = 0 /\ eFile \in EscrowRun
      /\ eHand \in Positions /\ Pending(eFile) # {}
      /\ Step(ledger[eHand].op, ledger[eHand].chunk) = s
  BY <1>1 DEF markStep, EscrowInv
<1>3. eFile' = [eFile EXCEPT !.log = log, !.file = file, !.contract = contract]
  BY <1>2 DEF markStep
<1>4. s \in EscrowStep /\ s \notin Recorded(eFile.log)
  BY <1>2, NextStepIsFirst
<1>5. s.op = "contract_create" => s = ContractCreate
  BY <1>4, StepShape
<1> HIDE DEF s
<1>6. log \in Seq(EscrowStep) /\ Recorded(log) = Recorded(eFile.log) \cup {s}
  BY <1>2, <1>4, RecordedAppend DEF EscrowRun
<1>7. file \in Nat /\ contract \in Nat /\ eHand \in Nat
  BY <1>2 DEF EscrowRun, Positions
<1> HIDE DEF log, file
<1>8. contract # 0 <=> ContractCreate \in Recorded(log)
  <2>1. CASE s.op = "contract_create"
    BY <1>2, <1>5, <1>6, <2>1
  <2>2. CASE s.op # "contract_create"
    <3>1. s # ContractCreate
      BY <2>2 DEF ContractCreate, Step
    <3> QED BY <1>1, <1>6, <2>2, <3>1 DEF EscrowInv
  <2> QED BY <2>1, <2>2
<1>9. eFile.contract # 0 => contract = eFile.contract
  BY <1>1, <1>4, <1>5 DEF EscrowInv
<1> HIDE DEF contract
<1>10. /\ eFile' \in EscrowRun /\ eFile'.log = log /\ eFile'.contract = contract
       /\ eFile'.status = eFile.status
  BY <1>2, <1>3, <1>6, <1>7 DEF EscrowRun
<1>11. eFile.status # "NONE"
  BY <1>1, <1>2 DEF EscrowInv
<1>12. Positions' = Positions /\ ledger' = ledger /\ lost' = lost /\ torn' = torn
  BY <1>2 DEF networkVars, Positions
<1>13. EscrowInv'
  <2>1. \A i \in Positions' : ledger'[i].op \in EscrowOps =>
          \/ i \in lost' \/ "escrow" \in torn' \/ i = eHand'
          \/ Step(ledger'[i].op, ledger'[i].chunk) \in Recorded(eFile'.log)
    BY <1>1, <1>2, <1>6, <1>10, <1>12 DEF EscrowInv
  <2>2. \A i \in Positions' : ledger'[i].op = "funding" =>
          "escrow" \in torn' \/ (ledger'[i].at = eFile'.contract /\ eFile'.contract # 0)
    BY <1>1, <1>9, <1>10, <1>12 DEF EscrowInv
  <2> QED BY <1>2, <1>8, <1>10, <1>11, <2>1, <2>2 DEF EscrowInv
<1>14. Grows({}) /\ SameEscrow
  BY <1>1, <1>2, Untouched DEF SameEscrow
<1> QED BY <1>1, <1>13, <1>14, NothingRepeated, EscrowStepKept

(* A stop, which may tear the progress file. *)
LEMMA EscrowHalts ==
  ASSUME IInv, UNCHANGED <<accessVars, podVars, releaseVars>>,
         NEW tears \in BOOLEAN, EscrowStops(tears)
  PROVE  IInv'
<1>1. Network /\ EscrowInv /\ Unrepeated /\ eHand \in {0} \cup Positions
  BY DEF IInv, EscrowInv
<1>2. /\ Halt("escrow", eHand, tears) /\ epc' = "idle" /\ eMem' = NoRun /\ eHand' = 0
      /\ eFile' = (IF tears THEN NoRun ELSE eFile) /\ eSummary' = eSummary
  BY DEF EscrowStops
<1>3. /\ Grows({}) /\ ledger' = ledger /\ lost \subseteq lost' /\ torn \subseteq torn'
      /\ (eHand # 0 => eHand \in lost') /\ (tears => "escrow" \in torn')
      /\ Positions' = Positions
  BY <1>1, <1>2, Halted DEF Grows, Positions
<1>4. EscrowInv'
  <2>1. CASE tears
    BY <1>1, <1>2, <1>3, <2>1, FreshRuns DEF EscrowInv
  <2>2. CASE ~tears
    BY <1>1, <1>2, <1>3, <2>2, FreshRuns DEF EscrowInv
  <2> QED BY <2>1, <2>2
<1> QED BY <1>1, <1>2, <1>3, <1>4, NothingRepeated, EscrowStepKept DEF SameEscrow

(* Every step of Phase C2. *)
LEMMA EscrowPreserves ==
  ASSUME IInv, OfEscrow(EscrowNext)
  PROVE  IInv'
BY EscrowStarts, EscrowConcludes, EscrowSubmits, EscrowMarks, EscrowHalts
   DEF OfEscrow, EscrowNext, EscrowProgress

-----------------------------------------------------------------------------
(* Phase D2.  The states the bootstrap leads through. *)
LEMMA BootFacts ==
  /\ Len(BootStates) = 10 /\ BootStates[10] = "DELIVERY_REPORTED"
  /\ "DRAFT" \in Boot
  /\ \A i \in 1..10 : BootStates[i] \in Boot
  /\ \A i \in 1..10 : BootStates[i] \notin {"POD_ACCEPTED"} \cup Released
<1>1. Len(BootStates) = 10 /\ BootStates[10] = "DELIVERY_REPORTED" /\ BootStates[1] = "DRAFT"
  BY DEF BootStates
<1>2. \A i \in 1..10 : i = 1 \/ i = 2 \/ i = 3 \/ i = 4 \/ i = 5 \/ i = 6 \/ i = 7
                         \/ i = 8 \/ i = 9 \/ i = 10
  OBVIOUS
<1>3. \A i \in 1..10 : BootStates[i] \notin {"POD_ACCEPTED"} \cup Released
  BY <1>2 DEF BootStates, Released
<1>4. \A i \in 1..10 : BootStates[i] \in Boot
  BY <1>1 DEF Boot
<1>5. "DRAFT" \in Boot
  BY <1>1, <1>4
<1> QED BY <1>1, <1>3, <1>4, <1>5

(* The record after an event. *)
LEMMA LifecycleMoves ==
  ASSUME lifecycle \in [state : LifecycleStates, run : Nat], NEW s \in LifecycleStates
  PROVE  /\ [lifecycle EXCEPT !.state = s] \in [state : LifecycleStates, run : Nat]
         /\ [lifecycle EXCEPT !.state = s].state = s
OBVIOUS

(* What a local step of the script with nothing in hand does. *)
PodLocal ==
  /\ IsPodRun(pMem') /\ IsPodRun(pFile') /\ IsPodRun(pSummary')
  /\ pMem'.run \in Nat /\ pFile'.run \in Nat /\ pRuns' \in Nat
  /\ pHand = 0 /\ pHand' = 0
  /\ ppc' # "idle" => pMem' = pFile' /\ pFile'.status # "NONE"
  /\ pFile'.status = "NONE" => \A s \in PodWrites : pFile'.at[s] = 0
  /\ \A s \in PodWrites : pFile.at[s] # 0 => pFile'.at[s] # 0

(* What it does to the record: it neither pays nor takes an acceptance back. *)
LifecycleLocal ==
  /\ lifecycle' \in [state : LifecycleStates, run : Nat]
  /\ lifecycle'.state \in Released => lifecycle' = lifecycle
  /\ IsAccepted => IsAccepted'

(* A step of that form keeps the invariant. *)
LEMMA PodQuiet ==
  ASSUME IInv, UNCHANGED <<accessVars, escrowVars, releaseVars>>, UNCHANGED networkVars,
         PodLocal, LifecycleLocal
  PROVE  IInv'
<1>1. Grows({})
  BY Untouched DEF IInv
<1>2. Unrepeated'
  BY <1>1, NothingRepeated DEF IInv
<1>3. Positions' = Positions /\ ledger' = ledger /\ lost' = lost /\ torn' = torn
      /\ shown' = shown /\ eSummary' = eSummary
  BY DEF networkVars, Positions, escrowVars
<1>4. PodInv'
  BY <1>3 DEF IInv, PodInv, PodLocal
<1>5. LifecycleInv'
  <2>1. Released_(shown)' <=> Released_(shown)
    BY <1>3 DEF Released_, ContractState, CallsOn, WritesOn
  <2> QED BY <2>1 DEF IInv, LifecycleInv, LifecycleLocal, PodLocal
<1> QED BY <1>1, <1>2, <1>4, <1>5, PodStep DEF LifecycleLocal

(* The record is left alone. *)
LEMMA LifecycleSame ==
  ASSUME IInv, lifecycle' = lifecycle
  PROVE  LifecycleLocal
BY DEF IInv, LifecycleInv, LifecycleLocal, IsAccepted

(* The progress objects, as the local steps change them. *)
LEMMA PodFields ==
  ASSUME NEW p, IsPodRun(p), NEW v
  PROVE  /\ IsPodRun([p EXCEPT !.pod = v]) /\ [p EXCEPT !.pod = v].at = p.at
         /\ [p EXCEPT !.pod = v].status = p.status /\ [p EXCEPT !.pod = v].run = p.run
         /\ IsPodRun([p EXCEPT !.advised = v]) /\ [p EXCEPT !.advised = v].at = p.at
         /\ [p EXCEPT !.advised = v].status = p.status /\ [p EXCEPT !.advised = v].run = p.run
         /\ IsPodRun([p EXCEPT !.accepted = v]) /\ [p EXCEPT !.accepted = v].at = p.at
         /\ [p EXCEPT !.accepted = v].status = p.status /\ [p EXCEPT !.accepted = v].run = p.run
         /\ IsPodRun([p EXCEPT !.status = v]) /\ [p EXCEPT !.status = v].at = p.at
         /\ [p EXCEPT !.status = v].status = v /\ [p EXCEPT !.status = v].run = p.run
         /\ IsPodRun([p EXCEPT !.seen = v]) /\ [p EXCEPT !.seen = v].at = p.at
         /\ [p EXCEPT !.seen = v].status = p.status /\ [p EXCEPT !.seen = v].run = p.run
BY DEF IsPodRun

(* No run. *)
LEMMA NoPodRunFields ==
  /\ IsPodRun(NoPodRun) /\ NoPodRun.run = 0 /\ \A s \in PodWrites : NoPodRun.at[s] = 0
<1>1. [s \in PodWrites |-> 0] \in [PodWrites -> Nat]
  OBVIOUS
<1> QED BY <1>1 DEF NoPodRun, IsPodRun

(* A run begun under a new id. *)
LEMMA NewPodRunFields ==
  ASSUME NEW r, NEW p, p = [NoPodRun EXCEPT !.status = "IN_PROGRESS", !.run = r]
  PROVE  IsPodRun(p) /\ p.run = r /\ p.status = "IN_PROGRESS"
<1> DEFINE q == [NoPodRun EXCEPT !.status = "IN_PROGRESS"]
<1>1. IsPodRun(q) /\ q.status = "IN_PROGRESS"
  BY NoPodRunFields, PodFields
<1>2. p = [q EXCEPT !.run = r]
  BY NoPodRunFields DEF IsPodRun
<1> HIDE DEF q
<1> QED BY <1>1, <1>2 DEF IsPodRun

(* What the invariant says of a process that has nothing in hand. *)
LEMMA PodFacts ==
  ASSUME IInv
  PROVE  /\ IsPodRun(pMem) /\ IsPodRun(pFile) /\ IsPodRun(pSummary)
         /\ pMem.run \in Nat /\ pFile.run \in Nat /\ pRuns \in Nat
         /\ lifecycle \in [state : LifecycleStates, run : Nat]
         /\ ppc # "idle" => pMem = pFile /\ pFile.status # "NONE"
         /\ pHand # 0 => ppc \in PodWrites
         /\ pFile.status = "NONE" => \A s \in PodWrites : pFile.at[s] = 0
BY DEF IInv, PodInv, LifecycleInv

(* PodStart, for a rehearsal or not. *)
LEMMA PodStarts ==
  ASSUME IInv, UNCHANGED <<accessVars, escrowVars, releaseVars>>,
         NEW dry, PodStart(dry)
  PROVE  IInv'
<1>1. /\ ppc = "idle" /\ pHand' = pHand /\ lifecycle' = lifecycle /\ UNCHANGED networkVars
      /\ pSummary' = pSummary
      /\ \/ /\ pFile.status = "NONE" /\ pRuns' = pRuns + 1
            /\ PodSave([NoPodRun EXCEPT !.status = "IN_PROGRESS", !.run = pRuns'])
         \/ PodSave(pFile) /\ pFile.status = "IN_PROGRESS" /\ pRuns' = pRuns
  BY DEF PodStart, PodHere
<1>2. pHand = 0
  BY <1>1, PodFacts DEF PodWrites
<1>3. CASE /\ pFile.status = "NONE" /\ pRuns' = pRuns + 1
           /\ PodSave([NoPodRun EXCEPT !.status = "IN_PROGRESS", !.run = pRuns'])
  <2> DEFINE new == [NoPodRun EXCEPT !.status = "IN_PROGRESS", !.run = pRuns']
  <2>1. IsPodRun(new) /\ new.run = pRuns' /\ new.status = "IN_PROGRESS"
    BY NewPodRunFields
  <2>2. pMem' = new /\ pFile' = new
    BY <1>3 DEF PodSave
  <2> HIDE DEF new
  <2>3. pRuns' \in Nat
    BY <1>3, PodFacts
  <2>4. PodLocal
    BY <1>1, <1>2, <1>3, <2>1, <2>2, <2>3, PodFacts DEF PodLocal
  <2> QED BY <1>1, <2>4, PodQuiet, LifecycleSame
<1>4. CASE PodSave(pFile) /\ pFile.status = "IN_PROGRESS" /\ pRuns' = pRuns
  <2>1. PodLocal
    BY <1>1, <1>2, <1>4, PodFacts DEF PodLocal, PodSave
  <2> QED BY <1>1, <2>1, PodQuiet, LifecycleSame
<1> QED BY <1>1, <1>3, <1>4

(* The steps that leave the progress and the record alone. *)
LEMMA PodPasses ==
  ASSUME IInv, UNCHANGED <<accessVars, escrowVars, releaseVars>>,
         PodEvidenceOnly \/ assertEscrowUntouched \/ PodStorePut \/ PodEvidence \/ PodDryEnd
  PROVE  IInv'
<1>1. /\ lifecycle' = lifecycle /\ pFile' = pFile /\ pRuns' = pRuns
      /\ ppc \in {"idle", "escrow", "store", "evidence", "finish"} /\ pHand' \in {0, pHand}
      /\ pSummary' \in {pSummary, pMem, pFile} /\ UNCHANGED networkVars
      /\ pMem' = pMem \/ (pMem' = NoPodRun /\ ppc' = "idle")
      /\ ppc' # "idle" => ppc # "idle" /\ pMem' = pMem
  BY DEF PodEvidenceOnly, assertEscrowUntouched, PodStorePut, PodEvidence, PodDryEnd,
         PodDies, PodHere, PodGo
<1>2. pHand = 0
  BY <1>1, PodFacts DEF PodWrites
<1>3. PodLocal
  BY <1>1, <1>2, PodFacts, NoPodRunFields DEF PodLocal
<1> QED BY <1>1, <1>3, PodQuiet, LifecycleSame

(* ensureLifecycleRecord: the record moves through the bootstrap. *)
LEMMA BootMoves ==
  ASSUME IInv, ensureLifecycleRecord
  PROVE  LifecycleLocal
<1>0. \/ lifecycle.state = "NONE" /\ lifecycle' = [state |-> "DRAFT", run |-> pMem.run]
      \/ /\ ~Booted /\ lifecycle.state # "NONE"
         /\ lifecycle' = [lifecycle EXCEPT !.state = BootStates[BootIndex + 1]]
      \/ lifecycle' = lifecycle
  BY DEF ensureLifecycleRecord, PodDies
<1>1. CASE lifecycle.state = "NONE" /\ lifecycle' = [state |-> "DRAFT", run |-> pMem.run]
  <2>1. "DRAFT" \in LifecycleStates
    BY BootFacts DEF LifecycleStates
  <2> QED BY <1>1, <2>1, PodFacts DEF LifecycleLocal, IsAccepted, Released
<1>2. CASE /\ ~Booted /\ lifecycle.state # "NONE"
           /\ lifecycle' = [lifecycle EXCEPT !.state = BootStates[BootIndex + 1]]
  <2> DEFINE k == BootIndex
             s == BootStates[k + 1]
  <2>1. lifecycle.state \in Boot
    BY <1>2, PodFacts DEF Booted, LifecycleStates
  <2>2. k \in 1..10 /\ BootStates[k] = lifecycle.state
    BY <2>1, BootFacts DEF BootIndex, Boot
  <2>3. k # 10
    BY <1>2, <2>2, BootFacts DEF Booted
  <2> HIDE DEF k
  <2>4. k + 1 \in 1..10
    BY <2>2, <2>3
  <2>5. s \in LifecycleStates /\ s \notin {"POD_ACCEPTED"} \cup Released
    BY <2>4, BootFacts DEF LifecycleStates
  <2>6. lifecycle' = [lifecycle EXCEPT !.state = s]
    BY <1>2 DEF k
  <2> HIDE DEF s
  <2>7. lifecycle' \in [state : LifecycleStates, run : Nat] /\ lifecycle'.state = s
    BY <2>5, <2>6, PodFacts, LifecycleMoves
  <2>8. ~IsAccepted
    BY <1>2 DEF Booted, IsAccepted, PodStates
  <2> QED BY <2>5, <2>7, <2>8 DEF LifecycleLocal
<1>3. CASE lifecycle' = lifecycle
  BY <1>3, LifecycleSame
<1> QED BY <1>0, <1>1, <1>2, <1>3

(* The same, with the progress. *)
LEMMA PodBoots ==
  ASSUME IInv, UNCHANGED <<accessVars, escrowVars, releaseVars>>, ensureLifecycleRecord
  PROVE  IInv'
<1>1. /\ ppc = "lifecycle" /\ pFile' = pFile /\ pRuns' = pRuns /\ pHand' \in {0, pHand}
      /\ pSummary' = pSummary /\ UNCHANGED networkVars
      /\ pMem' = pMem \/ (pMem' = NoPodRun /\ ppc' = "idle")
      /\ ppc' # "idle" => pMem' = pMem
  BY DEF ensureLifecycleRecord, PodDies, PodHere, PodGo
<1>2. pHand = 0
  BY <1>1, PodFacts DEF PodWrites
<1>3. PodLocal
  BY <1>1, <1>2, PodFacts, NoPodRunFields DEF PodLocal
<1>4. LifecycleLocal
  BY BootMoves
<1> QED BY <1>1, <1>3, <1>4, PodQuiet

(* A progress object that knows the same writes is saved. *)
LEMMA PodSaves ==
  ASSUME IInv, ppc \notin PodWrites \cup {"idle"} \/ pHand = 0, ppc # "idle", pHand' = pHand,
         pRuns' = pRuns, pSummary' = pSummary, NEW p, IsPodRun(p), p.at = pMem.at, p.run = pMem.run,
         p.status = pMem.status \/ p.status = "SUCCESS", PodSave(p)
  PROVE  PodLocal
<1>1. /\ pMem = pFile /\ pFile.status # "NONE" /\ pHand = 0 /\ pMem.run \in Nat
      /\ pRuns \in Nat
  BY PodFacts
<1> QED BY <1>1, PodFacts DEF PodLocal, PodSave

(* The progress is left alone, or the process is gone. *)
LEMMA PodRests ==
  ASSUME IInv, ppc \notin PodWrites, pHand' \in {0, pHand}, pRuns' = pRuns, pFile' = pFile,
         pSummary' = pSummary,
         pMem' = pMem \/ (pMem' = NoPodRun /\ ppc' = "idle"),
         ppc' # "idle" => ppc # "idle" /\ pMem' = pMem
  PROVE  PodLocal
<1>1. pHand = 0
  BY PodFacts
<1> QED BY <1>1, PodFacts, NoPodRunFields DEF PodLocal

(* The record moves on before the delivery is paid. *)
LEMMA LifecycleForward ==
  ASSUME IInv, NEW s \in PodStates, ~IsAccepted,
         lifecycle' = [lifecycle EXCEPT !.state = s]
  PROVE  LifecycleLocal
<1>1. s \in LifecycleStates /\ s \notin Released
  BY DEF LifecycleStates, PodStates, Released
<1>2. lifecycle' \in [state : LifecycleStates, run : Nat] /\ lifecycle'.state = s
  BY <1>1, PodFacts, LifecycleMoves
<1> QED BY <1>1, <1>2 DEF LifecycleLocal

(* PodSubmitApply: the event, then the proof. *)
LEMMA PodProves ==
  ASSUME IInv, UNCHANGED <<accessVars, escrowVars, releaseVars>>, PodSubmitApply
  PROVE  IInv'
<1>1. ppc = "proof" /\ ppc \notin PodWrites /\ UNCHANGED networkVars
  BY DEF PodSubmitApply, PodHere, PodWrites
<1>2. CASE /\ lifecycle.state = "DELIVERY_REPORTED"
           /\ lifecycle' = [lifecycle EXCEPT !.state = "POD_SUBMITTED"]
           /\ UNCHANGED <<ppc, pMem, pFile, pHand, pDry, pRuns, podStore, advisory, pSummary>>
  <2>1. PodLocal
    BY <1>1, <1>2, PodRests
  <2>2. LifecycleLocal
    BY <1>2, LifecycleForward DEF PodStates, IsAccepted, Released
  <2> QED BY <1>1, <2>1, <2>2, PodQuiet
<1>3. CASE /\ PodSave([pMem EXCEPT !.pod = TRUE]) /\ lifecycle' = lifecycle
           /\ pHand' = pHand /\ pRuns' = pRuns /\ pSummary' = pSummary
  <2> DEFINE p == [pMem EXCEPT !.pod = TRUE]
  <2>1. IsPodRun(p) /\ p.at = pMem.at /\ p.run = pMem.run /\ p.status = pMem.status
    BY PodFacts, PodFields
  <2>2. PodSave(p)
    BY <1>3
  <2> HIDE DEF p
  <2>3. PodLocal
    BY <1>1, <1>3, <2>1, <2>2, PodSaves
  <2> QED BY <1>1, <1>3, <2>3, PodQuiet, LifecycleSame
<1>4. CASE PodDies
  <2>1. PodLocal
    BY <1>1, <1>4, PodRests DEF PodDies
  <2> QED BY <1>1, <1>4, <2>1, PodQuiet, LifecycleSame DEF PodDies
<1> QED BY <1>2, <1>3, <1>4 DEF PodSubmitApply

(* PodReview: the review is begun, the report written, the progress saved. *)
LEMMA PodReviews ==
  ASSUME IInv, UNCHANGED <<accessVars, escrowVars, releaseVars>>, PodReview
  PROVE  IInv'
<1>1. ppc = "review" /\ ppc \notin PodWrites /\ UNCHANGED networkVars /\ pRuns' = pRuns
      /\ pHand' = pHand /\ pSummary' = pSummary
  BY DEF PodReview, PodHere, PodWrites
<1>2. CASE lifecycle' = lifecycle /\ pMem' = pMem /\ pFile' = pFile
  <2>1. PodLocal
    BY <1>1, <1>2, PodRests
  <2> QED BY <1>1, <1>2, <2>1, PodQuiet, LifecycleSame
<1>3. CASE /\ lifecycle.state = "POD_SUBMITTED"
           /\ lifecycle' = [lifecycle EXCEPT !.state = "POD_UNDER_REVIEW"]
           /\ UNCHANGED <<ppc, pMem, pFile>>
  <2>1. PodLocal
    BY <1>1, <1>3, PodRests
  <2>2. LifecycleLocal
    BY <1>3, LifecycleForward DEF PodStates, IsAccepted, Released
  <2> QED BY <1>1, <2>1, <2>2, PodQuiet
<1>4. CASE PodSave([pMem EXCEPT !.advised = TRUE]) /\ lifecycle' = lifecycle
  <2> DEFINE p == [pMem EXCEPT !.advised = TRUE]
  <2>1. IsPodRun(p) /\ p.at = pMem.at /\ p.run = pMem.run /\ p.status = pMem.status
    BY PodFacts, PodFields
  <2>2. PodSave(p)
    BY <1>4
  <2> HIDE DEF p
  <2>3. PodLocal
    BY <1>1, <2>1, <2>2, PodSaves
  <2> QED BY <1>1, <1>4, <2>3, PodQuiet, LifecycleSame
<1> QED BY <1>2, <1>3, <1>4 DEF PodReview

(* PodAccept and PodAcceptedSave: the acceptance, then the progress. *)
LEMMA PodAccepts ==
  ASSUME IInv, UNCHANGED <<accessVars, escrowVars, releaseVars>>, PodAccept \/ PodAcceptedSave
  PROVE  IInv'
<1>1. /\ ppc \in {"accept", "accepted"} /\ ppc \notin PodWrites /\ ppc # "idle"
      /\ pSummary' = pSummary /\ UNCHANGED networkVars
  BY DEF PodAccept, PodAcceptedSave, PodDies, PodHere, PodWrites
<1>2. CASE UNCHANGED <<pMem, pFile, pHand, pRuns, lifecycle>>
  <2>1. PodLocal
    BY <1>1, <1>2, PodRests
  <2> QED BY <1>1, <1>2, <2>1, PodQuiet, LifecycleSame
<1>3. CASE /\ lifecycle.state = "POD_UNDER_REVIEW"
           /\ lifecycle' = [lifecycle EXCEPT !.state = "POD_ACCEPTED"]
           /\ UNCHANGED <<pMem, pFile, pHand, pRuns>>
  <2>1. PodLocal
    BY <1>1, <1>3, PodRests
  <2>2. LifecycleLocal
    BY <1>3, LifecycleForward DEF PodStates, IsAccepted, Released
  <2> QED BY <1>1, <2>1, <2>2, PodQuiet
<1>4. CASE PodDies
  <2>1. PodLocal
    BY <1>1, <1>4, PodRests DEF PodDies
  <2> QED BY <1>1, <1>4, <2>1, PodQuiet, LifecycleSame DEF PodDies
<1>5. CASE PodAcceptedSave
  <2> DEFINE p == [pMem EXCEPT !.accepted = TRUE]
  <2>1. IsPodRun(p) /\ p.at = pMem.at /\ p.run = pMem.run /\ p.status = pMem.status
    BY PodFacts, PodFields
  <2>2. PodSave(p) /\ pHand' = pHand /\ pRuns' = pRuns /\ lifecycle' = lifecycle
    BY <1>5 DEF PodAcceptedSave
  <2> HIDE DEF p
  <2>3. PodLocal
    BY <1>1, <2>1, <2>2, PodSaves
  <2> QED BY <1>1, <2>2, <2>3, PodQuiet, LifecycleSame
<1> QED BY <1>2, <1>3, <1>4, <1>5 DEF PodAccept

(* PodSuccess: the run is done. *)
LEMMA PodSucceeds ==
  ASSUME IInv, UNCHANGED <<accessVars, escrowVars, releaseVars>>, PodSuccess
  PROVE  IInv'
<1> DEFINE p == [pMem EXCEPT !.status = "SUCCESS"]
<1>1. IsPodRun(p) /\ p.at = pMem.at /\ p.run = pMem.run /\ p.status = "SUCCESS"
  <2>1. IsPodRun(pMem)
    BY PodFacts
  <2> QED BY <2>1, PodFields
<1>2. /\ ppc = "finish" /\ ppc \notin PodWrites /\ PodSave(p) /\ pHand' = pHand
      /\ pRuns' = pRuns /\ pSummary' = pSummary /\ lifecycle' = lifecycle
      /\ UNCHANGED networkVars
  BY DEF PodSuccess, PodHere, PodWrites
<1> HIDE DEF p
<1>3. PodLocal
  BY <1>1, <1>2, PodSaves
<1> QED BY <1>2, <1>3, PodQuiet, LifecycleSame

(* PodVerify: a write that is recorded, or a rehearsal, goes on. *)
LEMMA PodVerifies ==
  ASSUME IInv, UNCHANGED <<accessVars, escrowVars, releaseVars>>,
         NEW s \in PodWrites, PodVerify(s)
  PROVE  IInv'
<1>1. /\ ppc = s /\ pHand' = pHand /\ pRuns' = pRuns /\ lifecycle' = lifecycle
      /\ pSummary' = pSummary /\ UNCHANGED networkVars
      /\ s \in completedSteps(pMem) \/ pDry
  BY DEF PodVerify, PodHere
<1>2. ppc # "idle" /\ IsPodRun(pMem) /\ pMem = pFile
  BY <1>1, PodFacts DEF PodWrites
<1>3. pHand = 0
  BY <1>1, <1>2 DEF IInv, PodInv, completedSteps
<1>4. CASE PodSave([pMem EXCEPT !.seen = @ \cup {s}])
  <2> DEFINE seen == pMem.seen \cup {s}
             p == [pMem EXCEPT !.seen = seen]
  <2>1. PodSave(p)
    BY <1>4
  <2> HIDE DEF seen
  <2>2. IsPodRun(p) /\ p.at = pMem.at /\ p.run = pMem.run /\ p.status = pMem.status
    BY <1>2 DEF IsPodRun
  <2> HIDE DEF p
  <2>3. PodLocal
    BY <1>1, <1>2, <1>3, <2>1, <2>2, PodSaves
  <2> QED BY <1>1, <2>3, PodQuiet, LifecycleSame
<1>5. CASE PodSave(pMem)
  <2>1. PodLocal
    BY <1>1, <1>2, <1>3, <1>5, PodSaves
  <2> QED BY <1>1, <2>1, PodQuiet, LifecycleSame
<1> QED BY <1>4, <1>5 DEF PodVerify

(* PodSubmit: the write is not repeated while the file knows it. *)
LEMMA PodSubmits ==
  ASSUME IInv, UNCHANGED <<accessVars, escrowVars, releaseVars>>,
         NEW s \in PodWrites, PodSubmit(s)
  PROVE  IInv'
<1> DEFINE w == Call(s, pMem.topic, 0)
<1>1. Network /\ PodInv /\ LifecycleInv /\ ReleaseInv /\ Unrepeated
  BY DEF IInv
<1>2. /\ ppc = s /\ ~pDry /\ s \notin completedSteps(pMem) /\ pHand = 0 /\ Reach(w)
      /\ pHand' = Len(ledger') /\ ppc' = ppc /\ pMem' = pMem /\ pFile' = pFile
      /\ pDry' = pDry /\ pRuns' = pRuns /\ pSummary' = pSummary /\ lifecycle' = lifecycle
  BY DEF PodSubmit, PodHere
<1>3. pMem = pFile /\ pFile.at[s] = 0 /\ pMem.topic \in Nat
  BY <1>1, <1>2 DEF PodInv, IsPodRun, completedSteps, PodWrites
<1>4. w \in Write /\ w.op = s
  BY <1>3 DEF Call, Write, WriteOps
<1> HIDE DEF w
<1>5. /\ Grows({s}) /\ Len(ledger') \in Positions' /\ Len(ledger') # 0
      /\ lost' = lost /\ torn' = torn /\ Positions \subseteq Positions'
      /\ \A i \in Positions : ledger'[i] = ledger[i] /\ i # 0
      /\ \A i \in Positions' : i \in Positions \/ i = Len(ledger')
      /\ ledger'[Len(ledger')] = w
  BY <1>1, <1>2, <1>4, Reached DEF Reach, Network, Positions
<1>6. MayWrite(w)
  <2>1. \A i \in Positions : ledger[i].op = s => i \in lost \/ "pod" \in torn
    BY <1>1, <1>2, <1>3, <1>5 DEF PodInv
  <2>2. Owner(s) = "pod"
    BY Owners
  <2>3. s # "funding" /\ s # "access_bid"
    BY DEF PodWrites
  <2> QED BY <1>4, <2>1, <2>2, <2>3 DEF MayWrite
<1>7. Unrepeated'
  BY <1>1, <1>2, <1>4, <1>6, WriteRepeated
<1>8. PodInv'
  <2>1. \A i \in Positions' : ledger'[i].op \in PodWrites =>
          \/ i \in lost' \/ "pod" \in torn' \/ i = pHand'
          \/ pFile'.at[ledger'[i].op] # 0
    BY <1>1, <1>2, <1>5 DEF PodInv
  <2>2. /\ ppc' \in PodWrites /\ ~pDry' /\ ledger'[pHand'].op = ppc' /\ pFile'.at[ppc'] = 0
        /\ pHand' \in {0} \cup Positions'
    BY <1>2, <1>3, <1>4, <1>5
  <2> QED BY <1>1, <1>2, <2>1, <2>2 DEF PodInv
<1>9. IsAccepted => IsAccepted'
  BY <1>2 DEF IsAccepted
<1>10. eSummary' = eSummary
  BY DEF escrowVars
<1>11. LifecycleInv'
  <2>1. ASSUME Released_(shown) PROVE Released_(shown)'
    <3>1. "release_full" \in CallsOn(eSummary, shown)
      BY <2>1 DEF Released_, ContractState
    <3>2. "release_full" \in CallsOn(eSummary, shown)'
      BY <1>1, <1>5, <1>10, <3>1, CallsStay
    <3> QED BY <3>2 DEF Released_, ContractState
  <2> QED BY <1>1, <1>2, <2>1 DEF LifecycleInv
<1> QED BY <1>5, <1>7, <1>8, <1>9, <1>11, PodStep

(* PodRecord: the write in hand is recorded. *)
LEMMA PodRecords ==
  ASSUME IInv, UNCHANGED <<accessVars, escrowVars, releaseVars>>,
         NEW s \in PodWrites, PodRecord(s)
  PROVE  IInv'
<1> DEFINE at == [pFile.at EXCEPT ![s] = pHand]
           topic == IF s = "topic_create" THEN pHand ELSE pFile.topic
           number == [pFile.number EXCEPT
                        ![s] = IF s = "topic_create" THEN 0
                               ELSE SequenceNumber(pMem.topic, pHand)]
<1>1. Network /\ PodInv /\ LifecycleInv /\ Unrepeated
  BY DEF IInv
<1>2. /\ ppc = s /\ pHand # 0 /\ pHand' = 0 /\ ppc' = ppc /\ pRuns' = pRuns
      /\ pSummary' = pSummary /\ lifecycle' = lifecycle /\ UNCHANGED networkVars
  BY DEF PodRecord, PodHere
<1>3. /\ pMem = pFile /\ pHand \in Positions /\ ledger[pHand].op = s
      /\ IsPodRun(pFile)
  BY <1>1, <1>2 DEF PodInv, PodWrites
<1>4. pMem' = pFile' /\ pFile' = [pFile EXCEPT !.at = at, !.topic = topic, !.number = number]
  BY <1>2, <1>3 DEF PodRecord, PodSave
<1>5. /\ at \in [PodWrites -> Nat] /\ topic \in Nat /\ at[s] # 0
      /\ \A r \in PodWrites : pFile.at[r] # 0 => at[r] # 0
  BY <1>2, <1>3 DEF IsPodRun, Positions
<1> HIDE DEF at, topic, number
<1>6. /\ IsPodRun(pFile') /\ pFile'.at = at /\ pFile'.status = pFile.status
      /\ pFile'.run = pFile.run
  BY <1>3, <1>4, <1>5 DEF IsPodRun
<1>7. Grows({})
  BY <1>1, <1>2, Untouched
<1>8. Positions' = Positions /\ ledger' = ledger /\ lost' = lost /\ torn' = torn
      /\ shown' = shown /\ eSummary' = eSummary
  BY <1>2 DEF networkVars, Positions, escrowVars
<1>9. pFile.status # "NONE"
  BY <1>1, <1>2, <1>3 DEF PodInv, PodWrites
<1>10. PodInv'
  <2>1. \A i \in Positions' : ledger'[i].op \in PodWrites =>
          \/ i \in lost' \/ "pod" \in torn' \/ i = pHand'
          \/ pFile'.at[ledger'[i].op] # 0
    BY <1>1, <1>3, <1>5, <1>6, <1>8 DEF PodInv
  <2> QED BY <1>1, <1>2, <1>4, <1>6, <1>9, <2>1 DEF PodInv
<1>11. LifecycleInv'
  <2>1. Released_(shown)' <=> Released_(shown)
    BY <1>8 DEF Released_, ContractState, CallsOn, WritesOn
  <2> QED BY <1>1, <1>2, <1>4, <1>6, <2>1 DEF LifecycleInv
<1>12. IsAccepted => IsAccepted'
  BY <1>2 DEF IsAccepted
<1> QED BY <1>1, <1>7, <1>10, <1>11, <1>12, NothingRepeated, PodStep

(* A stop, which may tear the progress file. *)
LEMMA PodHalts ==
  ASSUME IInv, UNCHANGED <<accessVars, escrowVars, releaseVars>>,
         NEW tears \in BOOLEAN, PodStops(tears)
  PROVE  IInv'
<1>1. Network /\ PodInv /\ LifecycleInv /\ Unrepeated /\ pHand \in {0} \cup Positions
  BY DEF IInv, PodInv
<1>2. /\ Halt("pod", pHand, tears) /\ ppc' = "idle" /\ pMem' = NoPodRun /\ pHand' = 0
      /\ pFile' = (IF tears THEN NoPodRun ELSE pFile)
      /\ pRuns' = pRuns /\ pSummary' = pSummary /\ lifecycle' = lifecycle
  BY DEF PodStops
<1>3. /\ Grows({}) /\ ledger' = ledger /\ shown' = shown
      /\ lost \subseteq lost' /\ torn \subseteq torn'
      /\ (pHand # 0 => pHand \in lost') /\ (tears => "pod" \in torn')
      /\ Positions' = Positions
  BY <1>1, <1>2, Halted DEF Grows, Positions
<1>4. PodInv'
  <2>1. CASE tears
    BY <1>1, <1>2, <1>3, <2>1, NoPodRunFields DEF PodInv
  <2>2. CASE ~tears
    BY <1>1, <1>2, <1>3, <2>2, NoPodRunFields DEF PodInv
  <2> QED BY <2>1, <2>2
<1>5. LifecycleInv'
  <2>1. eSummary' = eSummary
    BY DEF escrowVars
  <2>2. Released_(shown)' <=> Released_(shown)
    BY <1>3, <2>1 DEF Released_, ContractState, CallsOn, WritesOn
  <2> QED BY <1>1, <1>2, <2>2, NoPodRunFields DEF LifecycleInv
<1>6. IsAccepted => IsAccepted'
  BY <1>2 DEF IsAccepted
<1> QED BY <1>1, <1>3, <1>4, <1>5, <1>6, NothingRepeated, PodStep

(* Every step of Phase D2. *)
LEMMA PodPreserves ==
  ASSUME IInv, OfPod(PodNext)
  PROVE  IInv'
BY PodStarts, PodPasses, PodBoots, PodProves, PodReviews, PodAccepts, PodSucceeds,
   PodVerifies, PodSubmits, PodRecords, PodHalts
   DEF OfPod, PodNext, PodProgress

-----------------------------------------------------------------------------
(* Phase E1.  The progress objects. *)
LEMMA ReleaseFields ==
  /\ NoRelease \in ReleaseRun /\ \A s \in ReleaseWrites : NoRelease.at[s] = 0
  /\ NoRelease.seen = {}
  /\ \A p \in ReleaseRun : p.at \in [ReleaseWrites -> Nat] /\ p.seen \subseteq ReleaseWrites
  /\ "release_full" \in ReleaseWrites
<1>1. [s \in ReleaseWrites |-> 0] \in [ReleaseWrites -> Nat]
  OBVIOUS
<1>2. /\ NoRelease \in ReleaseRun /\ NoRelease.seen = {}
      /\ \A s \in ReleaseWrites : NoRelease.at[s] = 0
  BY <1>1 DEF NoRelease, ReleaseRun
<1>3. \A p \in ReleaseRun : p.at \in [ReleaseWrites -> Nat] /\ p.seen \subseteq ReleaseWrites
  BY DEF ReleaseRun
<1> QED BY <1>2, <1>3 DEF ReleaseWrites

(* A step of the script that writes nothing to the network and has nothing *)
(* in hand: the file knows the same writes, and a new sighting is a true   *)
(* one.                                                                    *)
ReleaseLocal ==
  /\ rMem' \in ReleaseRun /\ rFile' \in ReleaseRun
  /\ rHand = 0 /\ rHand' = 0
  /\ asked' \in 0..2
  /\ asked' > 0 => failed' \/ \E i \in Positions : IsRelease(i)
  /\ asked' > 1 => failed' \/ \E i \in lost : IsRelease(i)
  /\ rpc' # "idle" => rMem' = rFile' /\ eSummary # 0 /\ IsAccepted'
  /\ rFile'.at = rFile.at
  /\ "release_full" \in rFile'.seen => ReleasedAt # 0 /\ ReleasedAt <= shown
  /\ rpc' \notin {"idle", "release_full"} => ReleasedAt # 0 /\ ReleasedAt <= shown
  /\ rpc' = "release_full" /\ ReleasedAt = 0 =>
       /\ "allocation" \in CallsOn(eSummary, shown)
       /\ \A i \in Positions : IsRelease(i) => i \in lost
  /\ IsAccepted => IsAccepted'

(* The record, which this script may move once the release is shown. *)
PaidLocal ==
  /\ lifecycle' \in [state : LifecycleStates, run : Nat]
  /\ lifecycle'.state \in Released => Released_(shown)

(* A step of that form keeps the invariant. *)
LEMMA ReleaseQuiet ==
  ASSUME IInv, UNCHANGED <<accessVars, escrowVars, podLocal>>, UNCHANGED networkVars,
         ReleaseLocal, PaidLocal
  PROVE  IInv'
<1>1. Grows({})
  BY Untouched DEF IInv
<1>2. Unrepeated'
  BY <1>1, NothingRepeated DEF IInv
<1>3. Positions' = Positions /\ ledger' = ledger /\ lost' = lost /\ torn' = torn
      /\ shown' = shown /\ eSummary' = eSummary
      /\ pMem' = pMem /\ pFile' = pFile /\ pRuns' = pRuns
  BY DEF networkVars, Positions, escrowVars, podLocal
<1>4. /\ ReleasedAt' = ReleasedAt /\ (\A i : IsRelease(i)' <=> IsRelease(i))
      /\ CallsOn(eSummary, shown)' = CallsOn(eSummary, shown)
  BY <1>3 DEF ReleasedAt, IsRelease, ReleaseLocal, CallsOn, WritesOn
<1>5. ReleaseInv'
  BY <1>3, <1>4 DEF IInv, ReleaseInv, ReleaseLocal
<1>6. LifecycleInv'
  <2>1. Released_(shown)' <=> Released_(shown)
    BY <1>3 DEF Released_, ContractState, CallsOn, WritesOn
  <2> QED BY <1>3, <2>1 DEF IInv, LifecycleInv, PaidLocal
<1> QED BY <1>1, <1>2, <1>5, <1>6, ReleaseStep

(* The record is left alone. *)
LEMMA PaidSame ==
  ASSUME IInv, lifecycle' = lifecycle
  PROVE  PaidLocal /\ (IsAccepted' <=> IsAccepted)
BY DEF IInv, LifecycleInv, PaidLocal, IsAccepted

(* What the invariant says of the process. *)
LEMMA ReleaseFacts ==
  ASSUME IInv
  PROVE  /\ rMem \in ReleaseRun /\ rFile \in ReleaseRun
         /\ rpc # "idle" => rMem = rFile /\ eSummary # 0 /\ IsAccepted
         /\ rHand # 0 => rpc \in ReleaseWrites /\ rFile.at[rpc] = 0
         /\ "release_full" \in rFile.seen => ReleasedAt # 0 /\ ReleasedAt <= shown
         /\ rpc \notin {"idle", "release_full"} => ReleasedAt # 0 /\ ReleasedAt <= shown
         /\ rpc = "release_full" /\ ReleasedAt = 0 =>
              /\ "allocation" \in CallsOn(eSummary, shown)
              /\ \A i \in Positions : IsRelease(i) => i \in lost \/ i = rHand
         /\ asked \in 0..2
         /\ asked > 0 => failed \/ \E i \in Positions : IsRelease(i)
         /\ asked > 1 => failed \/ \E i \in lost : IsRelease(i)
         /\ \A i \in Positions : i # 0
BY DEF IInv, ReleaseInv, Positions

(* ReleaseStart: a run with no release recorded begins when none is shown. *)
LEMMA ReleaseStarts ==
  ASSUME IInv, UNCHANGED <<accessVars, escrowVars, podLocal>>, ReleaseStart
  PROVE  IInv'
<1>1. /\ rpc = "idle" /\ rpc' = "release_full" /\ rHand' = rHand /\ <<asked, failed>>' = <<asked, failed>>
      /\ lifecycle' = lifecycle /\ UNCHANGED networkVars
      /\ rMem' = rFile' /\ rFile' = [rFile EXCEPT !.status = "IN_PROGRESS"]
      /\ eSummary # 0 /\ IsAccepted /\ EscrowAsExpected(rFile)
  BY DEF ReleaseStart, CanStartRelease, ReleaseSave, readBindings,
         reverifyShipperAcceptance, IsAccepted
<1>2. rHand = 0
  BY <1>1, ReleaseFacts DEF ReleaseWrites
<1>3. rFile' \in ReleaseRun /\ rFile'.at = rFile.at /\ rFile'.seen = rFile.seen
  BY <1>1, ReleaseFacts DEF ReleaseRun
<1>4. ASSUME ReleasedAt = 0
      PROVE  /\ "allocation" \in CallsOn(eSummary, shown)
             /\ \A i \in Positions : IsRelease(i) => i \in lost
  <2>1. ContractState(eSummary, shown) = "ALLOCATED"
    BY <1>1, <1>4 DEF EscrowAsExpected, Executed, readContractState, ReleasedAt
  <2>2. "allocation" \in CallsOn(eSummary, shown) /\ "release_full" \notin CallsOn(eSummary, shown)
    BY <2>1 DEF ContractState
  <2>3. ASSUME NEW i \in Positions, IsRelease(i) PROVE i \in lost
    <3>1. ledger[i].at = eSummary /\ (i \in lost \/ i = rHand \/ i = ReleasedAt \/ i <= shown)
      BY <2>3 DEF IInv, ReleaseInv
    <3>2. i \notin 1..shown
      BY <2>2, <2>3, <3>1 DEF CallsOn, WritesOn, IsRelease
    <3>3. i # 0 /\ (i <= shown => i \in 1..shown)
      BY DEF Positions, IInv, Network
    <3> QED BY <1>2, <1>4, <3>1, <3>2, <3>3
  <2> QED BY <2>2, <2>3
<1>5. PaidLocal /\ IsAccepted'
  BY <1>1, PaidSame
<1>6. ReleaseLocal
  BY <1>1, <1>2, <1>3, <1>4, <1>5, ReleaseFacts DEF ReleaseLocal
<1> QED BY <1>1, <1>5, <1>6, ReleaseQuiet

(* The ends of a run: nothing is forgotten. *)
LEMMA ReleaseConcludes ==
  ASSUME IInv, UNCHANGED <<accessVars, escrowVars, podLocal>>,
         ReleaseEvidenceOnly \/ ReleaseSuccess \/ ReleaseEvidence
  PROVE  IInv'
<1>1. /\ rpc \in {"idle", "finish", "evidence"} /\ rHand' \in {0, rHand} /\ <<asked, failed>>' = <<asked, failed>>
      /\ lifecycle' = lifecycle /\ UNCHANGED networkVars
      /\ \/ rMem' = rMem /\ rpc' = rpc /\ rFile' = rFile
         \/ rMem' = NoRelease /\ rpc' = "idle" /\ rFile' = rFile
         \/ /\ rpc = "finish" /\ rpc' = "evidence"
            /\ rMem' = rFile' /\ rFile' = [rMem EXCEPT !.status = "SUCCESS"]
  BY DEF ReleaseEvidenceOnly, ReleaseSuccess, ReleaseEvidence, ReleaseDies, ReleaseSave
<1>2. rHand = 0
  BY <1>1, ReleaseFacts DEF ReleaseWrites
<1>3. PaidLocal /\ (IsAccepted' <=> IsAccepted)
  BY <1>1, PaidSame
<1>4. CASE \/ rMem' = rMem /\ rpc' = rpc /\ rFile' = rFile
           \/ rMem' = NoRelease /\ rpc' = "idle" /\ rFile' = rFile
  <2>1. ReleaseLocal
    BY <1>1, <1>2, <1>3, <1>4, ReleaseFacts, ReleaseFields DEF ReleaseLocal
  <2> QED BY <1>1, <1>3, <2>1, ReleaseQuiet
<1>5. CASE /\ rpc = "finish" /\ rpc' = "evidence"
           /\ rMem' = rFile' /\ rFile' = [rMem EXCEPT !.status = "SUCCESS"]
  <2>1. rMem = rFile /\ rMem \in ReleaseRun
    BY <1>5, ReleaseFacts
  <2>2. rFile' \in ReleaseRun /\ rFile'.at = rFile.at /\ rFile'.seen = rFile.seen
    BY <1>5, <2>1 DEF ReleaseRun
  <2>3. ReleaseLocal
    BY <1>1, <1>2, <1>3, <1>5, <2>2, ReleaseFacts DEF ReleaseLocal
  <2> QED BY <1>1, <1>3, <2>3, ReleaseQuiet
<1> QED BY <1>1, <1>4, <1>5

(* ReleaseVerify: what is remembered as seen is shown. *)
LEMMA ReleaseVerifies ==
  ASSUME IInv, UNCHANGED <<accessVars, escrowVars, podLocal>>,
         NEW s \in ReleaseWrites, ReleaseVerify(s)
  PROVE  IInv'
<1> DEFINE seen == rMem.seen \cup {s}
<1>1. /\ rpc = s /\ s \in Executed(rMem) /\ rHand' = rHand /\ <<asked, failed>>' = <<asked, failed>>
      /\ lifecycle' = lifecycle /\ UNCHANGED networkVars /\ rpc' = NextPoint(s)
      /\ rMem' = rFile' /\ rFile' = [rMem EXCEPT !.seen = seen]
      /\ s = "release_full" => verifyReleaseOnMirror(rMem)
  BY DEF ReleaseVerify, ReleaseSave
<1>2. rMem = rFile /\ rMem \in ReleaseRun /\ eSummary # 0 /\ IsAccepted
  BY <1>1, ReleaseFacts DEF ReleaseWrites
<1>3. rHand = 0
  BY <1>1, <1>2, ReleaseFacts DEF Executed
<1>4. seen \in SUBSET ReleaseWrites
  BY <1>2, ReleaseFields
<1>5. "release_full" \in seen => "release_full" \in rMem.seen \/ s = "release_full"
  OBVIOUS
<1> HIDE DEF seen
<1>6. rFile' \in ReleaseRun /\ rFile'.at = rFile.at /\ rFile'.seen = seen
  BY <1>1, <1>2, <1>4 DEF ReleaseRun
<1>7. s = "release_full" => ReleasedAt # 0 /\ ReleasedAt <= shown
  BY <1>1, <1>2, ReleaseFacts
     DEF Executed, verifyReleaseOnMirror, mirrorVerifyTransaction, ReleasedAt
<1>8. ReleasedAt # 0 /\ ReleasedAt <= shown
  BY <1>1, <1>7, ReleaseFacts DEF ReleaseWrites
<1>9. PaidLocal /\ IsAccepted'
  BY <1>1, <1>2, PaidSame
<1>10. ReleaseLocal
  BY <1>1, <1>2, <1>3, <1>6, <1>8, <1>9, ReleaseFacts DEF ReleaseLocal
<1> QED BY <1>1, <1>9, <1>10, ReleaseQuiet

(* ReleasePaid and ReleaseComplete: the record moves once the release is   *)
(* shown.                                                                  *)
LEMMA ReleasePays ==
  ASSUME IInv, UNCHANGED <<accessVars, escrowVars, podLocal>>,
         ReleasePaid \/ ReleaseComplete
  PROVE  IInv'
<1>1. /\ rpc \in {"paid", "complete"} /\ rpc' \notin {"idle", "release_full"}
      /\ rMem' = rMem /\ rFile' = rFile /\ rHand' = rHand /\ <<asked, failed>>' = <<asked, failed>>
      /\ UNCHANGED networkVars
  BY DEF ReleasePaid, ReleaseComplete
<1>2. \/ lifecycle' = lifecycle
      \/ \E s \in Released : /\ lifecycle' = [lifecycle EXCEPT !.state = s]
                             /\ Released_(shown) \/ lifecycle.state \in Released
  BY DEF ReleasePaid, ReleaseComplete, Released
<1>3. rHand = 0
  BY <1>1, ReleaseFacts DEF ReleaseWrites
<1>4. PaidLocal /\ IsAccepted'
  <2>0. IsAccepted /\ LifecycleInv
    BY <1>1, ReleaseFacts DEF IInv
  <2>1. CASE lifecycle' = lifecycle
    BY <2>0, <2>1, PaidSame
  <2>2. ASSUME NEW s \in Released, lifecycle' = [lifecycle EXCEPT !.state = s],
               Released_(shown) \/ lifecycle.state \in Released
        PROVE  PaidLocal /\ IsAccepted'
    <3>1. s \in LifecycleStates
      BY DEF LifecycleStates
    <3>2. lifecycle' \in [state : LifecycleStates, run : Nat] /\ lifecycle'.state = s
      BY <2>0, <2>2, <3>1, LifecycleMoves DEF LifecycleInv
    <3> QED BY <2>0, <2>2, <3>2 DEF LifecycleInv, PaidLocal, IsAccepted
  <2> QED BY <1>2, <2>1, <2>2
<1>5. ReleaseLocal
  BY <1>1, <1>3, <1>4, ReleaseFacts DEF ReleaseLocal
<1> QED BY <1>1, <1>4, <1>5, ReleaseQuiet

(* ReleaseSubmit, refused: releaseFull is refused only if it was taken.    *)
LEMMA ReleaseRefused ==
  ASSUME IInv, UNCHANGED <<accessVars, escrowVars, podLocal>>, NEW s \in ReleaseWrites,
         rpc = s, s \notin Executed(rMem), rHand = 0,
         asked' = IF s = "release_full" /\ asked < 2 THEN asked + 1 ELSE asked,
         ~Accepts(s, IF s = "release_full" THEN eSummary ELSE Topic),
         ReleaseDies, UNCHANGED <<failed, networkVars>>, UNCHANGED <<rFile, rSummary, lifecycle>>
  PROVE  IInv'
<1>1. rMem = rFile /\ eSummary # 0 /\ IsAccepted
  BY ReleaseFacts DEF ReleaseWrites
<1>2. /\ s = "release_full" => ReleasedAt = 0
      /\ rpc' = "idle" /\ rMem' = NoRelease /\ rHand' = 0 /\ rFile' = rFile
  BY <1>1 DEF Executed, ReleasedAt, ReleaseDies
<1>3. PaidLocal /\ (IsAccepted' <=> IsAccepted)
  BY PaidSame
<1>4. /\ asked' \in 0..2
      /\ asked' > 0 => failed' \/ \E i \in Positions : IsRelease(i)
      /\ asked' > 1 => failed' \/ \E i \in lost : IsRelease(i)
  <2>1. CASE s = "release_full"
    <3>1. "allocation" \in CallsOn(eSummary, shown) /\ \A i \in Positions : IsRelease(i) => i \in lost
      BY <1>2, <2>1, ReleaseFacts
    <3>2. "allocation" \in CallsOn(eSummary, Len(ledger))
      BY <3>1 DEF CallsOn, WritesOn, IInv, Network
    <3>3. ContractState(eSummary, Len(ledger)) # "ALLOCATED"
      BY <2>1 DEF Accepts
    <3>4. "release_full" \in CallsOn(eSummary, Len(ledger))
      BY <3>2, <3>3 DEF ContractState
    <3>5. \E i \in Positions : IsRelease(i)
      BY <3>4 DEF CallsOn, WritesOn, IsRelease, Positions
    <3>6. \E i \in lost : IsRelease(i)
      BY <3>1, <3>5
    <3> QED BY <3>5, <3>6, ReleaseFacts
  <2>2. CASE s # "release_full"
    BY <2>2, ReleaseFacts
  <2> QED BY <2>1, <2>2
<1>5. ReleaseLocal
  BY <1>2, <1>3, <1>4, ReleaseFacts, ReleaseFields DEF ReleaseLocal
<1> QED BY <1>3, <1>5, ReleaseQuiet

(* The contract takes releaseFull only if it has not. *)
LEMMA FirstRelease ==
  ASSUME ReleaseInv, Accepts("release_full", eSummary)
  PROVE  \A i \in Positions : ~IsRelease(i)
<1> SUFFICES ASSUME NEW i \in Positions, IsRelease(i) PROVE FALSE
  OBVIOUS
<1>1. ledger[i].at = eSummary
  BY DEF ReleaseInv
<1>2. "release_full" \in CallsOn(eSummary, Len(ledger))
  BY <1>1 DEF CallsOn, WritesOn, Positions, IsRelease
<1>3. ContractState(eSummary, Len(ledger)) = "ALLOCATED"
  BY DEF Accepts
<1> QED BY <1>2, <1>3 DEF ContractState

(* ReleaseSubmit, taken: releaseFull is taken once. *)
LEMMA ReleaseTaken ==
  ASSUME IInv, UNCHANGED <<accessVars, escrowVars, podLocal>>, NEW s \in ReleaseWrites,
         rpc = s, s \notin Executed(rMem), rHand = 0,
         asked' = IF s = "release_full" /\ asked < 2 THEN asked + 1 ELSE asked,
         NEW x \in Nat, s = "release_full" => x = eSummary,
         Accepts(s, x), Reach(Call(s, x, 0)), rHand' = Len(ledger'),
         UNCHANGED <<rpc, rMem, failed>>, UNCHANGED <<rFile, rSummary, lifecycle>>
  PROVE  IInv'
<1> DEFINE w == Call(s, x, 0)
<1>1. Network /\ LifecycleInv /\ ReleaseInv /\ Unrepeated
  BY DEF IInv
<1>2. rMem = rFile /\ eSummary # 0 /\ IsAccepted /\ rpc # "idle" /\ rFile.at[s] = 0
      /\ rFile \in ReleaseRun /\ rFile.at \in [ReleaseWrites -> Nat]
  BY ReleaseFacts, ReleaseFields DEF ReleaseWrites, Executed, ReleaseRun
<1>3. w \in Write /\ w.op = s /\ w.at = x /\ Reach(w)
  BY DEF Call, Write, WriteOps
<1> HIDE DEF w
<1>0. PICK n : n = Len(ledger')
  OBVIOUS
<1>4. /\ Grows({s}) /\ n \in Positions' /\ n # 0 /\ rHand' = n
      /\ lost' = lost /\ torn' = torn /\ shown' = shown /\ Positions \subseteq Positions'
      /\ \A i \in Positions : ledger'[i] = ledger[i] /\ i # 0
      /\ \A i \in Positions' : i \in Positions \/ i = n
      /\ ledger'[n] = w
  BY <1>0, <1>1, <1>3, Reached DEF Reach, Network, Positions
<1>5. eSummary' = eSummary /\ UNCHANGED podLocal
  BY DEF escrowVars
<1>6. /\ ReleasedAt' = ReleasedAt
      /\ \A i \in Positions : IsRelease(i)' <=> IsRelease(i)
      /\ IsRelease(n)' <=> s = "release_full"
  BY <1>3, <1>4 DEF ReleasedAt, IsRelease
<1>7. s = "release_full" => \A i \in Positions : ~IsRelease(i)
  BY <1>1, FirstRelease
<1>8. Unrepeated'
  <2>1. \A i \in Positions : ledger[i].op = s => i \in lost \/ "release" \in torn
    BY <1>1, <1>2, <1>4, <1>7 DEF ReleaseInv, IsRelease
  <2>2. Owner(s) = "release" /\ s # "funding" /\ s # "access_bid"
    BY Owners DEF ReleaseWrites
  <2>3. MayWrite(w)
    BY <1>3, <2>1, <2>2 DEF MayWrite
  <2> QED BY <1>1, <1>3, <2>3, WriteRepeated
<1>9. IsAccepted'
  BY <1>2 DEF IsAccepted
<1>10. LifecycleInv'
  BY <1>1, <1>4, <1>5, LifecycleFrame DEF SameEscrow
<1>11. ReleaseInv'
  <2>1. /\ rMem' \in ReleaseRun /\ rFile' \in ReleaseRun /\ rHand' \in {0} \cup Positions'
        /\ rMem' = rFile' /\ eSummary' # 0 /\ rpc' \in ReleaseWrites
        /\ ledger'[rHand'].op = rpc' /\ rFile'.at[rpc'] = 0
    BY <1>2, <1>3, <1>4, <1>5
  <2>2. \A i \in Positions' : ledger'[i].op \in ReleaseWrites \ {"release_full"} =>
          \/ i \in lost' \/ "release" \in torn' \/ i = rHand'
          \/ rFile'.at[ledger'[i].op] # 0
    BY <1>1, <1>4 DEF ReleaseInv
  <2>3. \A i \in Positions' : IsRelease(i)' =>
          /\ ledger'[i].at = eSummary' /\ eSummary' # 0
          /\ IsAccepted'
          /\ i \in lost' \/ i = rHand' \/ i = ReleasedAt' \/ i <= shown'
    BY <1>1, <1>2, <1>3, <1>4, <1>5, <1>6, <1>9 DEF ReleaseInv
  <2>4. /\ "release_full" \in rFile'.seen => ReleasedAt' # 0 /\ ReleasedAt' <= shown'
        /\ rpc' \notin {"idle", "release_full"} => ReleasedAt' # 0 /\ ReleasedAt' <= shown'
    BY <1>1, <1>4, <1>6 DEF ReleaseInv
  <2>5. ASSUME rpc' = "release_full", ReleasedAt' = 0
        PROVE  /\ "allocation" \in CallsOn(eSummary, shown)'
               /\ \A i \in Positions' : IsRelease(i)' => i \in lost' \/ i = rHand'
    <3>1. "allocation" \in CallsOn(eSummary, shown)
      BY <1>1, <1>6, <2>5 DEF ReleaseInv
    <3>2. "allocation" \in CallsOn(eSummary, shown)'
      BY <1>1, <1>4, <1>5, <3>1, CallsStay
    <3> QED BY <1>4, <1>6, <1>7, <2>5, <3>2
  <2>6. /\ asked' \in 0..2
        /\ asked' > 0 => failed' \/ \E i \in Positions' : IsRelease(i)'
        /\ asked' > 1 => failed' \/ \E i \in lost' : IsRelease(i)'
    <3>1. CASE s = "release_full"
      <4>1. asked \in 0..2 /\ (asked > 0 => failed)
        BY <1>1, <1>7, <3>1 DEF ReleaseInv
      <4>2. asked' \in 0..2 /\ (asked' > 1 => asked > 0)
        BY <3>1, <4>1
      <4>3. asked' > 1 => failed'
        BY <4>1, <4>2
      <4>4. \E i \in Positions' : IsRelease(i)'
        BY <1>4, <1>6, <3>1
      <4> QED BY <4>2, <4>3, <4>4
    <3>2. CASE s # "release_full"
      BY <1>1, <1>4, <1>6, <3>2 DEF ReleaseInv, Network
    <3> QED BY <3>1, <3>2
  <2> QED BY <1>9, <2>1, <2>2, <2>3, <2>4, <2>5, <2>6 DEF ReleaseInv
<1> QED BY <1>4, <1>8, <1>10, <1>11, ReleaseStep

(* A stop, which may tear the progress file: only a run whose release is   *)
(* shown, or in hand, can lose the record of it.                           *)
LEMMA ReleaseHalted ==
  ASSUME IInv, UNCHANGED <<accessVars, escrowVars, podLocal>>, NEW tears \in BOOLEAN,
         rpc # "idle", Halt("release", rHand, tears), tears => ReleaseSaving,
         rpc' = "idle", rMem' = NoRelease, rHand' = 0,
         lifecycle' = lifecycle, rFile' = IF tears THEN NoRelease ELSE rFile,
         asked' \in 0..2, failed' \/ (asked' = asked /\ failed' = failed)
  PROVE  IInv'
<1>1. Network /\ LifecycleInv /\ ReleaseInv /\ Unrepeated /\ rHand \in {0} \cup Positions
  BY DEF IInv, ReleaseInv
<1>2. /\ rpc # "idle" /\ Halt("release", rHand, tears) /\ (tears => ReleaseSaving)
      /\ rpc' = "idle" /\ rMem' = NoRelease /\ rHand' = 0
      /\ lifecycle' = lifecycle /\ rFile' = IF tears THEN NoRelease ELSE rFile
  OBVIOUS
<1>3. /\ Grows({}) /\ ledger' = ledger /\ shown' = shown
      /\ lost \subseteq lost' /\ torn \subseteq torn'
      /\ (rHand # 0 => rHand \in lost') /\ (tears => "release" \in torn')
      /\ Positions' = Positions
  BY <1>1, <1>2, Halted DEF Grows, Positions
<1>4. eSummary' = eSummary /\ UNCHANGED podLocal
  BY DEF escrowVars
<1>5. (\A i : IsRelease(i)' <=> IsRelease(i)) /\ (IsAccepted' <=> IsAccepted)
  BY <1>2, <1>3 DEF IsRelease, IsAccepted
<1>6. ASSUME tears, ReleasedAt # 0 PROVE ReleasedAt <= shown
  <2>1. CASE rpc # "release_full"
    BY <1>1, <1>2, <2>1 DEF ReleaseInv
  <2>2. CASE rpc = "release_full"
    <3>1. rMem = rFile
      BY <1>1, <1>2 DEF ReleaseInv
    <3>2. rHand = 0
      BY <1>1, <1>6, <2>2 DEF ReleaseInv, ReleasedAt
    <3> QED BY <1>2, <1>6, <2>2, <3>1, <3>2 DEF ReleaseSaving, ReleasedAt
  <2> QED BY <2>1, <2>2
<1>7. \A i \in Positions : IsRelease(i) =>
        i \in lost' \/ (~tears /\ i = ReleasedAt) \/ i <= shown
  <2>1. SUFFICES ASSUME NEW i \in Positions, IsRelease(i)
                 PROVE  i \in lost' \/ (~tears /\ i = ReleasedAt) \/ i <= shown
    OBVIOUS
  <2>2. i # 0
    BY DEF Positions
  <2>3. i \in lost \/ i = rHand \/ i = ReleasedAt \/ i <= shown
    BY <1>1, <2>1 DEF ReleaseInv
  <2> QED BY <1>3, <1>6, <2>2, <2>3
<1>8. ReleaseInv'
  <2>1. /\ rMem' \in ReleaseRun /\ rFile' \in ReleaseRun
        /\ tears => rFile'.seen = {}
        /\ ~tears => rFile' = rFile /\ ReleasedAt' = ReleasedAt
    BY <1>1, <1>2, ReleaseFields DEF ReleaseInv, ReleasedAt
  <2>2. \A i \in Positions' : ledger'[i].op \in ReleaseWrites \ {"release_full"} =>
          \/ i \in lost' \/ "release" \in torn' \/ i = rHand'
          \/ rFile'.at[ledger'[i].op] # 0
    BY <1>1, <1>3, <2>1 DEF ReleaseInv, Positions
  <2>3. \A i \in Positions' : IsRelease(i)' =>
          /\ ledger'[i].at = eSummary' /\ eSummary' # 0
          /\ IsAccepted'
          /\ i \in lost' \/ i = rHand' \/ i = ReleasedAt' \/ i <= shown'
    BY <1>1, <1>3, <1>4, <1>5, <1>7, <2>1 DEF ReleaseInv
  <2>4. "release_full" \in rFile'.seen => ReleasedAt' # 0 /\ ReleasedAt' <= shown'
    BY <1>1, <1>3, <2>1 DEF ReleaseInv
  <2>5. /\ asked' > 0 => failed' \/ \E i \in Positions' : IsRelease(i)'
        /\ asked' > 1 => failed' \/ \E i \in lost' : IsRelease(i)'
    BY <1>1, <1>2, <1>3, <1>5 DEF ReleaseInv
  <2> QED BY <1>1, <1>2, <2>1, <2>2, <2>3, <2>4, <2>5 DEF ReleaseInv
<1>9. LifecycleInv'
  BY <1>1, <1>2, <1>3, <1>4, LifecycleFrame DEF SameEscrow
<1> QED BY <1>1, <1>3, <1>8, <1>9, NothingRepeated, ReleaseStep

(* ReleaseSubmit. *)
LEMMA ReleaseSubmits ==
  ASSUME IInv, UNCHANGED <<accessVars, escrowVars, podLocal>>,
         NEW s \in ReleaseWrites, ReleaseSubmit(s)
  PROVE  IInv'
<1> DEFINE x == IF s = "release_full" THEN eSummary ELSE Topic
<1>1. x \in Nat /\ (s = "release_full" => x = eSummary)
  BY DEF IInv, EscrowInv, PodInv, IsPodRun, Topic
<1>2. /\ rpc = s /\ s \notin Executed(rMem) /\ rHand = 0
      /\ asked' = IF s = "release_full" /\ asked < 2 THEN asked + 1 ELSE asked
      /\ UNCHANGED <<rFile, rSummary, lifecycle>>
      /\ \/ /\ Accepts(s, x) /\ Reach(Call(s, x, 0)) /\ rHand' = Len(ledger')
            /\ UNCHANGED <<rpc, rMem, failed>>
         \/ ~Accepts(s, x) /\ ReleaseDies /\ UNCHANGED <<failed, networkVars>>
         \/ ReleaseFails
  BY DEF ReleaseSubmit
<1>3. CASE ~Accepts(s, x) /\ ReleaseDies /\ UNCHANGED <<failed, networkVars>>
  BY <1>2, <1>3, ReleaseRefused
<1> HIDE DEF x
<1>4. CASE /\ Accepts(s, x) /\ Reach(Call(s, x, 0)) /\ rHand' = Len(ledger')
           /\ UNCHANGED <<rpc, rMem, failed>>
  BY <1>1, <1>2, <1>4, ReleaseTaken
<1>5. CASE ReleaseFails
  <2>1. /\ rpc # "idle" /\ Halt("release", rHand, FALSE)
        /\ rpc' = "idle" /\ rMem' = NoRelease /\ rHand' = 0 /\ failed'
        /\ rFile' = IF FALSE THEN NoRelease ELSE rFile
    BY <1>2, <1>5 DEF ReleaseFails, ReleaseDies, ReleaseWrites
  <2>2. asked \in 0..2
    BY DEF IInv, ReleaseInv
  <2>3. asked' \in 0..2
    BY <1>2, <2>2
  <2> QED BY <1>2, <2>1, <2>3, ReleaseHalted
<1> QED BY <1>2, <1>3, <1>4, <1>5

(* ReleaseRecord: recorded, whatever the sequence number says. *)
LEMMA ReleaseRecords ==
  ASSUME IInv, UNCHANGED <<accessVars, escrowVars, podLocal>>,
         NEW s \in ReleaseWrites, ReleaseRecord(s)
  PROVE  IInv'
<1> DEFINE at == [rMem.at EXCEPT ![s] = rHand]
<1>1. Network /\ LifecycleInv /\ ReleaseInv /\ Unrepeated
  BY DEF IInv
<1>2. /\ rpc = s /\ rHand # 0 /\ rHand' = 0 /\ <<asked, failed>>' = <<asked, failed>> /\ lifecycle' = lifecycle
      /\ UNCHANGED networkVars /\ rFile' = [rMem EXCEPT !.at = at]
      /\ \/ rMem' = rFile' /\ rpc' = rpc
         \/ rMem' = NoRelease /\ rpc' = "idle"
  BY DEF ReleaseRecord, ReleaseDies
<1>3. /\ rMem = rFile /\ rFile \in ReleaseRun /\ eSummary # 0 /\ IsAccepted
      /\ rHand \in Positions /\ ledger[rHand].op = s /\ rFile.at[s] = 0
  BY <1>1, <1>2 DEF ReleaseInv, ReleaseWrites
<1>4. /\ at \in [ReleaseWrites -> Nat] /\ at[s] = rHand
      /\ \A r \in ReleaseWrites \ {s} : at[r] = rFile.at[r]
  BY <1>3, ReleaseFields DEF Positions
<1> HIDE DEF at
<1>5. rFile' \in ReleaseRun /\ rFile'.at = at /\ rFile'.seen = rFile.seen
  BY <1>2, <1>3, <1>4 DEF ReleaseRun
<1>6. /\ Positions' = Positions /\ ledger' = ledger /\ lost' = lost /\ torn' = torn
      /\ shown' = shown /\ eSummary' = eSummary /\ Grows({}) /\ UNCHANGED podLocal
  BY <1>1, <1>2, Untouched DEF networkVars, Positions, escrowVars
<1>7. /\ \A i : IsRelease(i)' <=> IsRelease(i)
      /\ CallsOn(eSummary, shown)' = CallsOn(eSummary, shown)
      /\ IsAccepted'
  BY <1>2, <1>3, <1>6 DEF IsRelease, CallsOn, WritesOn, IsAccepted
<1>8. /\ s = "release_full" => ReleasedAt = 0 /\ ReleasedAt' = rHand
      /\ s # "release_full" => ReleasedAt' = ReleasedAt
      /\ ReleasedAt # 0 => ReleasedAt' = ReleasedAt
  BY <1>3, <1>4, <1>5, ReleaseFields DEF ReleasedAt
<1>9. ReleaseInv'
  <2>1. /\ rMem' \in ReleaseRun /\ rFile' \in ReleaseRun
        /\ rpc' # "idle" => rMem' = rFile' /\ rpc' = s
    BY <1>2, <1>5, ReleaseFields
  <2>2. \A i \in Positions : ledger[i].op \in ReleaseWrites \ {"release_full"} =>
          i \in lost \/ "release" \in torn \/ rFile'.at[ledger[i].op] # 0
    BY <1>1, <1>2, <1>3, <1>4, <1>5 DEF ReleaseInv
  <2>3. \A i \in Positions : IsRelease(i) =>
          i \in lost \/ i = ReleasedAt' \/ i <= shown
    BY <1>1, <1>2, <1>3, <1>8 DEF ReleaseInv, IsRelease, Positions
  <2>4. /\ "release_full" \in rFile'.seen => ReleasedAt' # 0 /\ ReleasedAt' <= shown
        /\ rpc' \notin {"idle", "release_full"} => ReleasedAt' # 0 /\ ReleasedAt' <= shown
    BY <1>1, <1>2, <1>5, <1>8, <2>1 DEF ReleaseInv
  <2>5. ~(rpc' = "release_full" /\ ReleasedAt' = 0)
    BY <1>2, <1>8, <2>1
  <2>6. \A i \in Positions' : IsRelease(i)' =>
          /\ ledger'[i].at = eSummary' /\ eSummary' # 0
          /\ IsAccepted'
          /\ i \in lost' \/ i = rHand' \/ i = ReleasedAt' \/ i <= shown'
    BY <1>1, <1>6, <1>7, <2>3 DEF ReleaseInv
  <2> QED BY <1>1, <1>2, <1>3, <1>6, <1>7, <2>1, <2>2, <2>4, <2>5, <2>6 DEF ReleaseInv
<1>10. LifecycleInv'
  BY <1>1, <1>2, <1>6, LifecycleFrame DEF SameEscrow
<1> QED BY <1>1, <1>6, <1>9, <1>10, NothingRepeated, ReleaseStep

(* A stop. *)
LEMMA ReleaseHalts ==
  ASSUME IInv, UNCHANGED <<accessVars, escrowVars, podLocal>>,
         NEW tears \in BOOLEAN, ReleaseStops(tears)
  PROVE  IInv'
<1>1. /\ rpc # "idle" /\ Halt("release", rHand, tears) /\ (tears => ReleaseSaving)
      /\ rpc' = "idle" /\ rMem' = NoRelease /\ rHand' = 0
      /\ asked' = asked /\ failed' = failed
      /\ lifecycle' = lifecycle /\ rFile' = IF tears THEN NoRelease ELSE rFile
  BY DEF ReleaseStops, ReleaseDies
<1>2. asked' \in 0..2
  BY <1>1, ReleaseFacts
<1> QED BY <1>1, <1>2, ReleaseHalted

(* Every step of Phase E1. *)
LEMMA ReleasePreserves ==
  ASSUME IInv, OfRelease(ReleaseNext)
  PROVE  IInv'
BY ReleaseStarts, ReleaseConcludes, ReleaseVerifies, ReleasePays, ReleaseSubmits,
   ReleaseRecords, ReleaseHalts
   DEF OfRelease, ReleaseNext, ReleaseProgress

-----------------------------------------------------------------------------
(* A step that leaves every script alone: the Mirror Node catches up, or   *)
(* nothing happens.                                                        *)
LEMMA ScriptsRest ==
  ASSUME IInv, Grows({}), UNCHANGED <<accessVars, laterVars>>
  PROVE  IInv'
<1>1. AccessInv'
  BY AccessFrame DEF IInv
<1>2. Unrepeated'
  BY NothingRepeated DEF IInv
<1> QED BY <1>1, <1>2, AccessStep

(* Nothing is on the ledger, no script has run. *)
LEMMA InitHolds == Init => IInv
<1> SUFFICES ASSUME Init PROVE IInv
  OBVIOUS
<1>1. /\ ledger = <<>> /\ Len(ledger) = 0 /\ shown = 0 /\ lost = {} /\ Positions = {}
  BY DEF Init, NetworkInit, Positions
<1>2. Network /\ Unrepeated
  BY <1>1 DEF Network, Unrepeated
<1>3. AccessInv
  <2>1. NewRun \in AccessRun
    BY DEF NewRun, AccessRun, ClaimStates
  <2> QED BY <1>1, <2>1 DEF Init, AccessInit, AccessInv, AtBid, AtActivation
<1>4. EscrowInv
  BY <1>1, FreshRuns DEF Init, EscrowInit, EscrowInv
<1>5. PodInv
  BY <1>1, NoPodRunFields DEF Init, PodInit, PodInv
<1>6. LifecycleInv
  <2>1. lifecycle = [state |-> "NONE", run |-> 0] /\ pMem.run = 0 /\ pFile.run = 0 /\ pRuns = 0
    BY NoPodRunFields DEF Init, PodInit
  <2>2. "NONE" \in LifecycleStates /\ "NONE" \notin Released
    BY DEF LifecycleStates, Released
  <2> QED BY <2>1, <2>2 DEF LifecycleInv
<1>7. ReleaseInv
  BY <1>1, ReleaseFields DEF Init, ReleaseInit, ReleaseInv, ReleasedAt
<1> QED BY <1>2, <1>3, <1>4, <1>5, <1>6, <1>7 DEF IInv

(* Every step keeps the invariant. *)
LEMMA NextPreserves == IInv /\ [Next]_vars => IInv'
<1> SUFFICES ASSUME IInv, [Next]_vars PROVE IInv'
  OBVIOUS
<1>1. CASE OfAccess(AccessNext)
  BY <1>1, AccessPreserves
<1>2. CASE OfEscrow(EscrowNext)
  BY <1>2, EscrowPreserves
<1>3. CASE OfPod(PodNext)
  BY <1>3, PodPreserves
<1>4. CASE OfRelease(ReleaseNext)
  BY <1>4, ReleasePreserves
<1>5. CASE MirrorStep
  BY <1>5, Mirrored, ScriptsRest DEF MirrorStep, IInv
<1>6. CASE UNCHANGED vars
  BY <1>6, Untouched, ScriptsRest DEF vars, IInv
<1> QED BY <1>1, <1>2, <1>3, <1>4, <1>5, <1>6 DEF Next

(* The invariant holds of every behaviour of the four scripts. *)
THEOREM InvariantAlways == Spec => []IInv
BY InitHolds, NextPreserves, PTL DEF Spec

(* A write is submitted again only if an earlier one of its kind was lost  *)
(* with its process or the script's progress file was torn; the escrow is  *)
(* funded twice only after a torn file, no bid is charged twice, and       *)
(* releaseFull is asked for again only when a submission was lost or had   *)
(* failed by itself.                                                       *)
THEOREM NoNeedlessRepeat == Spec => []RepeatedOnlyIfLost
<1>1. IInv => RepeatedOnlyIfLost
  BY DEF IInv, ReleaseInv, IsRelease, Unrepeated, RepeatedOnlyIfLost
<1> QED BY <1>1, InvariantAlways, PTL

(* The record says paid only when the Mirror Node shows releaseFull on the *)
(* contract of the evidence, and the freight is released only on an        *)
(* accepted POD.                                                           *)
THEOREM PaidAlwaysReleased == Spec => []PaidIsReleased
<1>1. IInv => PaidIsReleased
  <2> SUFFICES ASSUME IInv PROVE PaidIsReleased
    OBVIOUS
  <2>1. lifecycle.state \in Released => Released_(shown)
    BY DEF IInv, LifecycleInv
  <2>2. ASSUME Released_(Len(ledger)) PROVE IsAccepted
    <3>1. "release_full" \in CallsOn(eSummary, Len(ledger))
      BY <2>2 DEF Released_, ContractState
    <3>2. PICK i \in Positions : IsRelease(i)
      BY <3>1 DEF CallsOn, WritesOn, Positions, IsRelease
    <3> QED BY <3>2 DEF IInv, ReleaseInv
  <2> QED BY <2>1, <2>2 DEF PaidIsReleased, IsAccepted
<1> QED BY <1>1, InvariantAlways, PTL

-----------------------------------------------------------------------------
(* ReportedIsTrue needs a second invariant, proved with the first: what    *)
(* each script has done by the point it is at.                             *)
AccessTrue ==
  /\ aSummary \in {0, 1}
  /\ apc \in {"activationSettled", "commitActivation"} \/ aRun.activation = "COMMITTED" =>
       "access_activation" \in Ops
  /\ apc \in {"bidSettled", "commitBid", "verifyBid"} \/ aRun.bid = "COMMITTED" =>
       "access_bid" \in Ops
  /\ apc = "verifyBid" => aRun.bid = "COMMITTED"
  /\ aSummary = 1 =>
       apc = "idle" /\ aRun.activation = "COMMITTED" /\ aRun.bid = "COMMITTED"

(* The recorded contract answered the association, so it runs the compiled *)
(* code; the allocation was a call on it.                                  *)
EscrowTrue ==
  /\ eFile.contract \in {0} \cup Positions
  /\ Step("association", 0) \in Recorded(eFile.log) =>
       eFile.contract # 0 /\ Sound(eFile.contract)
  /\ Step("allocation", 0) \in Recorded(eFile.log) =>
       eFile.contract # 0 /\ "allocation" \in CallsOn(eFile.contract, Len(ledger))
  /\ eHand # 0 =>
       /\ ledger[eHand].op = "association" => eFile.contract # 0 /\ Sound(eFile.contract)
       /\ ledger[eHand].op = "allocation" =>
            eFile.contract # 0 /\ ledger[eHand].at = eFile.contract
  /\ eFile.status = "SUCCESS" => Pending(eFile) = {}
  /\ epc = "evidence" => eFile.status = "SUCCESS"
  /\ eSummary # 0 =>
       /\ aSummary = 1
       /\ eSummary \in Positions
       /\ Sound(eSummary)
       /\ "allocation" \in CallsOn(eSummary, Len(ledger))

(* The review action follows the acceptance; a run that has left evidence  *)
(* is over and has a topic.                                                *)
PodTrue ==
  /\ pFile.accepted => IsAccepted
  /\ ppc \in {"accepted", "POD_REVIEW_ACTION"} \/ "POD_REVIEW_ACTION" \in Ops => IsAccepted
  /\ pFile.at["topic_create"] # 0 \/ pFile.status = "SUCCESS" => pFile.topic # 0
  /\ ppc = "evidence" => pFile.status = "SUCCESS"
  /\ ppc # "idle" \/ pSummary.run # 0 => eSummary # 0
  /\ pSummary.run # 0 => ppc = "idle" /\ pSummary = pFile /\ pFile.status = "SUCCESS"

(* The release follows the evidence of Phase D2; each message follows the  *)
(* move of the record it reports; nothing is on the topic after the        *)
(* recorded TENDER_COMPLETED; and a finished run has seen the whole topic. *)
PaidPoints == {"ESCROW_RELEASED", "complete", "TENDER_COMPLETED", "finish", "evidence"}
DonePoints == {"TENDER_COMPLETED", "finish", "evidence"}
CompletedAt == rFile.at["TENDER_COMPLETED"]
LastOnTopic(n) == \A i \in Positions : ledger[i].at = Topic => i <= n

ReleaseTrue ==
  /\ rSummary \in {0, 1}
  /\ pSummary.run = 0 =>
       rpc = "idle" /\ rFile = NoRelease /\ rSummary = 0 /\ lifecycle.state \notin Released
  /\ rpc \in PaidPoints \/ "ESCROW_RELEASED" \in Ops => lifecycle.state \in Released
  /\ rpc \in DonePoints \/ "TENDER_COMPLETED" \in Ops => lifecycle.state = "TENDER_COMPLETED"
  /\ rpc \in PaidPoints \ {"ESCROW_RELEASED"} => rFile.at["ESCROW_RELEASED"] # 0
  /\ rpc \in {"finish", "evidence"} \/ "TENDER_COMPLETED" \in rFile.seen =>
       CompletedAt # 0 /\ CompletedAt <= shown
  /\ CompletedAt # 0 =>
       LastOnTopic(CompletedAt) /\ \A s \in ReleaseWrites : rFile.at[s] # 0
  /\ rpc = "TENDER_COMPLETED" /\ rHand # 0 => LastOnTopic(rHand)
  /\ \A i, j \in Positions : IsRelease(i) /\ IsRelease(j) => i = j
  /\ rFile.status = "SUCCESS" =>
       /\ rpc \in {"idle", "evidence"}
       /\ CompletedAt # 0
       /\ lifecycle.state = "TENDER_COMPLETED"
       /\ Messages(Topic, Len(ledger)) = ExpectedOrder
  /\ rpc = "evidence" \/ rSummary = 1 => rFile.status = "SUCCESS"
  /\ rSummary = 1 => rpc = "idle"

Truthful ==
  /\ AccessTrue
  /\ EscrowTrue
  /\ PodTrue
  /\ ReleaseTrue

-----------------------------------------------------------------------------
(* A script that has left its evidence takes no step: the access script. *)
LEMMA AccessOver ==
  ASSUME AccessTrue, AccessNext
  PROVE  aSummary = 0
<1> SUFFICES ASSUME aSummary # 0 PROVE FALSE
  OBVIOUS
<1>1. apc = "idle"
  BY DEF AccessTrue
<1> QED BY <1>1 DEF AccessNext, AccessProgress, AccessStart, ResumeActivation,
     ActivationClaimed, ActivationSettled, PaymentSettled, ActivationRecorded,
     ActivationCommitted, ActivationVerified, BidUnpaid, BidStored, BidClaimed,
     BidSettled, BidRecorded, BidCommitted, AccessEvidence, SettlementRefused, AccessStops

(* The escrow script. *)
LEMMA EscrowOver ==
  ASSUME EscrowInv, EscrowNext
  PROVE  eSummary = 0
<1> SUFFICES ASSUME eSummary # 0 PROVE FALSE
  OBVIOUS
<1>1. epc = "idle"
  BY DEF EscrowInv
<1> QED BY <1>1 DEF EscrowNext, EscrowProgress, EscrowStart, EscrowEvidenceOnly,
     submitWithClient, EscrowRefused, markStep, EscrowSuccess, EscrowEvidence, EscrowStops

(* The POD script. *)
LEMMA PodOver ==
  ASSUME PodTrue, PodNext
  PROVE  pSummary.run = 0
<1> SUFFICES ASSUME pSummary.run # 0 PROVE FALSE
  OBVIOUS
<1>1. ppc = "idle" /\ pSummary = pFile
  BY DEF PodTrue
<1>2. \A s \in PodWrites : s # "idle"
  BY DEF PodWrites
<1> QED BY <1>1, <1>2 DEF PodNext, PodProgress, PodStart, PodEvidenceOnly, PodHere,
     assertEscrowUntouched, ensureLifecycleRecord, PodStorePut, PodSubmitApply,
     PodSubmit, PodRecord, PodVerify, PodReview, PodAccept, PodAcceptedSave,
     PodSuccess, PodEvidence, PodDryEnd, PodStops

-----------------------------------------------------------------------------
(* Fewer kinds of writes are some of more kinds. *)
LEMMA GrowsMore ==
  ASSUME NEW O, NEW P, O \subseteq P, Grows(O)
  PROVE  Grows(P)
BY DEF Grows

(* What was written stays written, and what is new is of the kinds in O. *)
LEMMA OpsGrow ==
  ASSUME Network, NEW O, Grows(O), NEW c
  PROVE  /\ c \in Ops => c \in Ops'
         /\ c \in Ops' /\ c \notin O => c \in Ops
<1>1. ASSUME c \in Ops PROVE c \in Ops'
  <2>1. PICK i \in Positions : ledger[i].op = c
    BY <1>1 DEF Ops
  <2>2. i \in Positions' /\ ledger'[i] = ledger[i]
    BY DEF Grows, Positions, Network
  <2> QED BY <2>1, <2>2 DEF Ops
<1>2. ASSUME c \in Ops', c \notin O PROVE c \in Ops
  <2>1. PICK i \in Positions' : ledger'[i].op = c
    BY <1>2 DEF Ops
  <2>2. i \in Positions /\ ledger'[i] = ledger[i]
    BY <1>2, <2>1 DEF Grows
  <2> QED BY <2>1, <2>2 DEF Ops
<1> QED BY <1>1, <1>2

(* A call stays a call. *)
LEMMA CallsGrow ==
  ASSUME Network, NEW O, Grows(O), NEW x, NEW c, c \in CallsOn(x, Len(ledger))
  PROVE  c \in CallsOn(x, Len(ledger))'
<1>1. PICK i \in Positions : ledger[i].at = x /\ ledger[i].op = c
  BY DEF CallsOn, WritesOn, Positions
<1>2. i \in Positions' /\ ledger'[i] = ledger[i]
  BY DEF Grows, Positions, Network
<1> QED BY <1>1, <1>2 DEF CallsOn, WritesOn, Positions

(* What a contract was made of stays what it was made of. *)
LEMMA SoundStays ==
  ASSUME Network, NEW O, Grows(O), NEW c \in Positions, Sound(c)
  PROVE  Sound(c)'
<1>1. PICK f : f = ledger[c].at
  OBVIOUS
<1>2. /\ ledger'[c].at = f
      /\ \A i \in 1..(c - 1) : i \in Positions /\ ledger'[i] = ledger[i]
      /\ \A i \in 1..(c - 1) : \A j \in 1..i : j \in 1..(c - 1)
  BY <1>1 DEF Grows, Positions, Network
<1>3. \A n \in 1..(c - 1) : Chunks(f, n)' = Chunks(f, n)
  BY <1>2 DEF Chunks, WritesOn
<1>4. Chunks(f, c - 1)' = Chunks(f, c - 1) /\ Chunks(f, c - 1) \subseteq 1..(c - 1)
  BY <1>2 DEF Chunks, WritesOn
<1>5. Intact(f, c - 1)
  BY <1>1 DEF Sound
<1>6. Intact(f, c - 1)'
  BY <1>2, <1>3, <1>4, <1>5 DEF Intact
<1> QED BY <1>2, <1>6 DEF Sound

-----------------------------------------------------------------------------
(* The steps of the other scripts leave what Phase B2b reports alone. *)
LEMMA AccessTrueFrame ==
  ASSUME Network, AccessTrue, NEW O, Grows(O), UNCHANGED accessVars
  PROVE  AccessTrue'
<1>1. aRun' = aRun /\ apc' = apc /\ aSummary' = aSummary
  BY DEF accessVars
<1>2. /\ "access_activation" \in Ops => "access_activation" \in Ops'
      /\ "access_bid" \in Ops => "access_bid" \in Ops'
  BY OpsGrow
<1> QED BY <1>1, <1>2 DEF AccessTrue

(* The same for Phase C2. *)
LEMMA EscrowTrueFrame ==
  ASSUME Network, EscrowInv, EscrowTrue, NEW O, Grows(O), aSummary = 1 => aSummary' = 1,
         UNCHANGED escrowVars
  PROVE  EscrowTrue'
<1>1. /\ epc' = epc /\ eFile' = eFile /\ eHand' = eHand /\ eSummary' = eSummary
      /\ Positions \subseteq Positions'
      /\ \A i \in Positions : ledger'[i] = ledger[i]
  BY DEF escrowVars, Grows, Network, Positions
<1>2. PICK c, e : c = eFile.contract /\ e = eSummary
  OBVIOUS
<1>3. /\ c \in Positions /\ Sound(c) => Sound(c)'
      /\ e \in Positions /\ Sound(e) => Sound(e)'
  BY SoundStays
<1>4. /\ "allocation" \in CallsOn(c, Len(ledger)) => "allocation" \in CallsOn(c, Len(ledger))'
      /\ "allocation" \in CallsOn(e, Len(ledger)) => "allocation" \in CallsOn(e, Len(ledger))'
  BY CallsGrow
<1>5. Pending(eFile)' = Pending(eFile)
  BY <1>1 DEF Pending, EscrowSteps
<1>6. c \in {0} \cup Positions /\ c' = c /\ e' = e /\ eHand \in {0} \cup Positions
  BY <1>2 DEF EscrowTrue, EscrowInv
<1>7. /\ (Step("association", 0) \in Recorded(eFile.log) => c # 0 /\ Sound(c))
      /\ (Step("allocation", 0) \in Recorded(eFile.log) =>
            c # 0 /\ "allocation" \in CallsOn(c, Len(ledger)))
      /\ (eHand # 0 =>
            /\ (ledger[eHand].op = "association" => c # 0 /\ Sound(c))
            /\ (ledger[eHand].op = "allocation" => c # 0 /\ ledger[eHand].at = c))
      /\ (e # 0 => /\ aSummary = 1 /\ e \in Positions /\ Sound(e)
                   /\ "allocation" \in CallsOn(e, Len(ledger)))
  BY <1>2 DEF EscrowTrue
<1>8. /\ (Step("association", 0) \in Recorded(eFile'.log) => c # 0 /\ Sound(c)')
      /\ (Step("allocation", 0) \in Recorded(eFile'.log) =>
            c # 0 /\ "allocation" \in CallsOn(c, Len(ledger))')
      /\ (eHand' # 0 =>
            /\ (ledger'[eHand'].op = "association" => c # 0 /\ Sound(c)')
            /\ (ledger'[eHand'].op = "allocation" => c # 0 /\ ledger'[eHand'].at = c))
      /\ (e # 0 => /\ aSummary' = 1 /\ e \in Positions' /\ Sound(e)'
                   /\ "allocation" \in CallsOn(e, Len(ledger))')
  BY <1>1, <1>3, <1>4, <1>6, <1>7
<1> QED BY <1>1, <1>2, <1>5, <1>6, <1>8 DEF EscrowTrue

(* The same for Phase D2, if an acceptance is not taken back. *)
LEMMA PodTrueFrame ==
  ASSUME Network, PodTrue, NEW O, Grows(O), "POD_REVIEW_ACTION" \notin O,
         IsAccepted => IsAccepted', SameEscrow, UNCHANGED podLocal
  PROVE  PodTrue'
<1>1. ppc' = ppc /\ pFile' = pFile /\ pSummary' = pSummary
  BY DEF podLocal
<1>2. "POD_REVIEW_ACTION" \in Ops' => "POD_REVIEW_ACTION" \in Ops
  BY OpsGrow
<1> QED BY <1>1, <1>2 DEF PodTrue, SameEscrow

(* The same for Phase E1: before the evidence of Phase D2 it has not       *)
(* begun, and after it only this script and the Mirror Node take steps.    *)
LEMMA ReleaseTrueFrame ==
  ASSUME Network, ReleaseInv, ReleaseTrue, NEW O, Grows(O), O \cap ReleaseWrites = {},
         pSummary.run # 0 => UNCHANGED <<ledger, lifecycle, pSummary>>,
         lifecycle.state \notin Released => lifecycle'.state \notin Released,
         UNCHANGED releaseVars
  PROVE  ReleaseTrue'
<1>1. /\ rpc' = rpc /\ rFile' = rFile /\ rHand' = rHand /\ rSummary' = rSummary
      /\ CompletedAt' = CompletedAt /\ shown <= shown' /\ shown \in Nat /\ shown' \in Nat
  BY DEF releaseVars, CompletedAt, Grows, Network
<1>2. /\ "ESCROW_RELEASED" \in Ops' => "ESCROW_RELEASED" \in Ops
      /\ "TENDER_COMPLETED" \in Ops' => "TENDER_COMPLETED" \in Ops
  BY OpsGrow DEF ReleaseWrites
<1>3. \A i \in Positions' : IsRelease(i)' => i \in Positions /\ IsRelease(i)
  BY DEF Grows, IsRelease, ReleaseWrites
<1>4. \A i, j \in Positions' : IsRelease(i)' /\ IsRelease(j)' => i = j
  BY <1>3 DEF ReleaseTrue
<1>5. CASE pSummary.run # 0
  <2>1. ledger' = ledger /\ lifecycle' = lifecycle /\ pSummary' = pSummary
        /\ Topic' = Topic /\ Positions' = Positions
    BY <1>5 DEF Topic, Positions
  <2>2. /\ \A n : LastOnTopic(n)' <=> LastOnTopic(n)
        /\ Messages(Topic, Len(ledger))' = Messages(Topic, Len(ledger))
        /\ ExpectedOrder' = ExpectedOrder
    BY <2>1 DEF LastOnTopic, Messages, SequenceNumber, WritesOn, ExpectedOrder
  <2>3. PICK m, h : m = CompletedAt /\ h = rHand
    OBVIOUS
  <2>4. m \in Nat
    BY <2>3, ReleaseFields DEF ReleaseInv, CompletedAt, ReleaseWrites
  <2>5. /\ (m # 0 => LastOnTopic(m) /\ \A s \in ReleaseWrites : rFile.at[s] # 0)
        /\ (rpc = "TENDER_COMPLETED" /\ h # 0 => LastOnTopic(h))
        /\ (rpc \in {"finish", "evidence"} \/ "TENDER_COMPLETED" \in rFile.seen =>
              m # 0 /\ m <= shown)
    BY <2>3 DEF ReleaseTrue
  <2>6. /\ (m # 0 => LastOnTopic(m)' /\ \A s \in ReleaseWrites : rFile'.at[s] # 0)
        /\ (rpc' = "TENDER_COMPLETED" /\ h # 0 => LastOnTopic(h)')
        /\ (rpc' \in {"finish", "evidence"} \/ "TENDER_COMPLETED" \in rFile'.seen =>
              m # 0 /\ m <= shown')
    BY <1>1, <2>2, <2>4, <2>5
  <2>7. m' = m /\ h' = h /\ CompletedAt' = m /\ rHand' = h
    BY <1>1, <2>3
  <2> QED BY <1>1, <1>2, <1>4, <2>1, <2>2, <2>3, <2>6, <2>7 DEF ReleaseTrue
<1>6. CASE pSummary.run = 0
  <2>1. rpc = "idle" /\ rFile = NoRelease /\ rSummary = 0 /\ lifecycle.state \notin Released
    BY <1>6 DEF ReleaseTrue
  <2>2. CompletedAt = 0 /\ rFile.seen = {} /\ rFile.status = "NONE"
    BY <2>1, ReleaseFields DEF CompletedAt, NoRelease, ReleaseWrites
  <2>3. lifecycle'.state \notin Released
    BY <2>1
  <2>4. "ESCROW_RELEASED" \notin Ops /\ "TENDER_COMPLETED" \notin Ops
    BY <2>1 DEF ReleaseTrue, Released
  <2> QED BY <1>1, <1>2, <1>4, <2>1, <2>2, <2>3, <2>4 DEF ReleaseTrue, PaidPoints, DonePoints
<1> QED BY <1>5, <1>6

-----------------------------------------------------------------------------
(* Phase B2b: a payment is settled. *)
LEMMA AccessSettlesTrue ==
  ASSUME IInv, AccessTrue, ActivationSettled \/ BidSettled
  PROVE  AccessTrue' /\ Grows(AccessWrites)
<1>1. PICK op \in AccessWrites :
        /\ Reach(Call(op, 0, 0))
        /\ apc' = IF op = "access_bid" THEN "bidSettled" ELSE "activationSettled"
        /\ aRun' = aRun /\ aSummary' = aSummary
        /\ apc # "idle"
  BY DEF ActivationSettled, BidSettled, PaymentSettled, AccessWrites
<1> DEFINE w == Call(op, 0, 0)
<1>2. w \in Write /\ w.op = op /\ Reach(w) /\ Network
  BY <1>1 DEF Call, Write, WriteOps, IInv
<1> HIDE DEF w
<1>3. Grows({op}) /\ ledger'[Len(ledger')] = w /\ Len(ledger') \in Positions'
  BY <1>2, Reached
<1>4. op \in Ops'
  BY <1>2, <1>3 DEF Ops
<1>5. /\ "access_activation" \in Ops => "access_activation" \in Ops'
      /\ "access_bid" \in Ops => "access_bid" \in Ops'
  BY <1>2, <1>3, OpsGrow
<1>6. AccessTrue'
  BY <1>1, <1>4, <1>5 DEF AccessTrue, AccessWrites
<1> QED BY <1>3, <1>6, GrowsMore

(* The other steps write nothing, and a claim is committed only after its  *)
(* payment.                                                                *)
LEMMA AccessRestTrue ==
  ASSUME IInv, AccessTrue, AccessNext, ~ActivationSettled, ~BidSettled
  PROVE  AccessTrue' /\ Grows(AccessWrites)
<1>1. Network /\ AccessInv /\ aRun \in AccessRun
  BY DEF IInv, AccessInv
<1>2. aSummary = 0 /\ aSummary \in {0, 1}
  BY AccessOver DEF AccessTrue
<1>3. Grows({}) /\ Ops' = Ops
  <2>1. CASE SettlementRefused \/ AccessStops
    <3>1. PICK hand \in {0} \cup Positions : Halt("access", hand, FALSE)
      BY <1>1, <2>1 DEF SettlementRefused, AccessStops, AccessInv
    <3>2. Grows({}) /\ ledger' = ledger
      BY <1>1, <3>1, Halted
    <3> QED BY <3>2 DEF Ops, Positions
  <2>2. CASE UNCHANGED networkVars
    <3>1. Grows({}) /\ ledger' = ledger
      BY <1>1, <2>2, Untouched DEF networkVars
    <3> QED BY <3>1 DEF Ops, Positions
  <2>3. UNCHANGED networkVars \/ SettlementRefused \/ AccessStops
    BY DEF AccessNext, AccessProgress, AccessStart, ResumeActivation, AccessGoTo,
       ActivationClaimed, ActivationRecorded, ActivationCommitted, ActivationVerified,
       BidUnpaid, BidStored, BidClaimed, BidRecorded, BidCommitted, AccessEvidence
  <2> QED BY <2>1, <2>2, <2>3
<1>4. CASE AccessStart
  <2>1. NewRun.activation = "NONE" /\ NewRun.bid = "NONE"
    BY DEF NewRun
  <2> QED BY <1>2, <1>3, <1>4, <2>1, GrowsMore DEF AccessStart, AccessTrue
<1>5. CASE ResumeActivation \/ ActivationVerified \/ BidUnpaid \/ AccessStops
  <2>1. /\ aRun' = aRun /\ aSummary' = aSummary
        /\ apc' \in {"idle", "bid", "putBody"}
    BY <1>5 DEF ResumeActivation, ActivationVerified, BidUnpaid, AccessStops, AccessGoTo
  <2> QED BY <1>2, <1>3, <2>1, GrowsMore DEF AccessTrue
<1>6. CASE ActivationClaimed
  <2>1. aRun'.activation = "SETTLING" /\ aRun'.bid = aRun.bid
    BY <1>1, <1>6 DEF ActivationClaimed, AccessRun
  <2> QED BY <1>2, <1>3, <1>6, <2>1, GrowsMore DEF ActivationClaimed, AccessTrue
<1>7. CASE ActivationRecorded
  <2>1. aRun'.activation = "SETTLED_PENDING_COMMIT" /\ aRun'.bid = aRun.bid
    BY <1>1, <1>7 DEF ActivationRecorded, AccessRun
  <2> QED BY <1>2, <1>3, <1>7, <2>1, GrowsMore DEF ActivationRecorded, AccessTrue
<1>8. CASE ActivationCommitted
  <2>1. aRun'.activation = "COMMITTED" /\ aRun'.bid = aRun.bid
    BY <1>1, <1>8 DEF ActivationCommitted, AccessRun
  <2> QED BY <1>2, <1>3, <1>8, <2>1, GrowsMore DEF ActivationCommitted, AccessTrue
<1>9. CASE BidStored
  <2>1. aRun'.activation = aRun.activation /\ aRun'.bid = aRun.bid
    BY <1>1, <1>9 DEF BidStored, AccessRun
  <2> QED BY <1>2, <1>3, <1>9, <2>1, GrowsMore DEF BidStored, AccessTrue
<1>10. CASE BidClaimed
  <2>1. aRun'.activation = aRun.activation /\ aRun'.bid = "SETTLING"
    BY <1>1, <1>10 DEF BidClaimed, AccessRun
  <2> QED BY <1>2, <1>3, <1>10, <2>1, GrowsMore DEF BidClaimed, AccessTrue
<1>11. CASE BidRecorded
  <2>1. aRun'.activation = aRun.activation /\ aRun'.bid = "SETTLED_PENDING_COMMIT"
    BY <1>1, <1>11 DEF BidRecorded, AccessRun
  <2> QED BY <1>2, <1>3, <1>11, <2>1, GrowsMore DEF BidRecorded, AccessTrue
<1>12. CASE BidCommitted
  <2>1. aRun'.activation = aRun.activation /\ aRun'.bid = "COMMITTED"
    BY <1>1, <1>12 DEF BidCommitted, AccessRun
  <2> QED BY <1>2, <1>3, <1>12, <2>1, GrowsMore DEF BidCommitted, AccessTrue
<1>13. CASE AccessEvidence
  <2>1. aRun.activation = "COMMITTED"
    BY <1>1, <1>13 DEF AccessEvidence, AccessInv, AtBid
  <2> QED BY <1>2, <1>3, <1>13, <2>1, GrowsMore DEF AccessEvidence, AccessTrue
<1>14. CASE SettlementRefused
  <2>1. /\ aRun'.activation = IF apc = "settleBid" THEN aRun.activation ELSE "FAILED"
        /\ aRun'.bid \in {aRun.bid, "FAILED"} /\ apc' = "idle" /\ aSummary' = aSummary
    BY <1>1, <1>14 DEF SettlementRefused, AccessRun
  <2> QED BY <1>2, <1>3, <2>1, GrowsMore DEF AccessTrue
<1> QED BY <1>4, <1>5, <1>6, <1>7, <1>8, <1>9, <1>10, <1>11, <1>12, <1>13, <1>14
        DEF AccessNext, AccessProgress

(* Every step of Phase B2b. *)
LEMMA AccessStaysTrue ==
  ASSUME IInv, Truthful, OfAccess(AccessNext)
  PROVE  Truthful'
<1>1. IInv' /\ Network /\ EscrowInv /\ ReleaseInv
  BY AccessPreserves DEF IInv
<1>2. AccessTrue' /\ Grows(AccessWrites) /\ aSummary = 0
  BY AccessSettlesTrue, AccessRestTrue, AccessOver DEF OfAccess, Truthful
<1>3. eSummary = 0 /\ pSummary.run = 0
  BY <1>2 DEF Truthful, EscrowTrue, PodTrue
<1>4. /\ UNCHANGED escrowVars /\ UNCHANGED podLocal /\ UNCHANGED releaseVars
      /\ lifecycle' = lifecycle /\ eSummary' = eSummary
  BY DEF OfAccess, laterVars, podVars, podLocal, escrowVars
<1>5. EscrowTrue'
  BY <1>1, <1>2, <1>4, EscrowTrueFrame DEF Truthful
<1>6. PodTrue'
  BY <1>1, <1>2, <1>4, PodTrueFrame DEF Truthful, AccessWrites, IsAccepted, SameEscrow
<1>7. AccessWrites \cap ReleaseWrites = {}
  BY KindsDisjoint
<1>8. ReleaseTrue'
  BY <1>1, <1>2, <1>3, <1>4, <1>7, ReleaseTrueFrame DEF Truthful
<1> QED BY <1>2, <1>5, <1>6, <1>8 DEF Truthful

-----------------------------------------------------------------------------
(* Phase C2: what a finished run has recorded. *)
LEMMA EscrowFinished ==
  ASSUME EscrowTrue, eFile.status = "SUCCESS"
  PROVE  /\ eFile.contract \in Positions
         /\ Sound(eFile.contract)
         /\ "allocation" \in CallsOn(eFile.contract, Len(ledger))
<1>1. Pending(eFile) = {}
  BY DEF EscrowTrue
<1>2. /\ Step("association", 0) \in Recorded(eFile.log)
      /\ Step("allocation", 0) \in Recorded(eFile.log)
  BY <1>1, AllSteps DEF Pending
<1> QED BY <1>2 DEF EscrowTrue

(* A step with nothing in hand after it, which records no step. *)
LEMMA EscrowTrueQuiet ==
  ASSUME EscrowTrue, aSummary = 1, UNCHANGED aSummary, UNCHANGED ledger, eHand' = 0,
         \/ eFile' = NoRun
         \/ eFile'.log = eFile.log /\ eFile'.contract = eFile.contract,
         eFile'.status = "SUCCESS" => Pending(eFile) = {} /\ eFile'.log = eFile.log,
         epc' = "evidence" => eFile'.status = "SUCCESS",
         \/ eSummary' = eSummary
         \/ eFile.status = "SUCCESS" /\ eSummary' = eFile.contract
  PROVE  EscrowTrue'
<1>1. Positions' = Positions /\ (\A c : Sound(c)' <=> Sound(c))
      /\ \A c : CallsOn(c, Len(ledger))' = CallsOn(c, Len(ledger))
  BY DEF Positions, Sound, Intact, Chunks, CallsOn, WritesOn
<1>2. PICK c, e : c = eFile'.contract /\ e = eSummary'
  OBVIOUS
<1>3. /\ c \in {0} \cup Positions
      /\ (Step("association", 0) \in Recorded(eFile'.log) => c # 0 /\ Sound(c))
      /\ (Step("allocation", 0) \in Recorded(eFile'.log) =>
            c # 0 /\ "allocation" \in CallsOn(c, Len(ledger)))
  BY <1>2, FreshRuns DEF EscrowTrue
<1>4. e # 0 => /\ e \in Positions /\ Sound(e)
               /\ "allocation" \in CallsOn(e, Len(ledger))
  BY <1>2, EscrowFinished DEF EscrowTrue
<1>5. eFile'.status = "SUCCESS" => Pending(eFile)' = {}
  BY DEF Pending, EscrowSteps
<1>6. c' = c /\ e' = e
  OBVIOUS
<1>7. /\ c \in {0} \cup Positions'
      /\ (Step("association", 0) \in Recorded(eFile'.log) => c # 0 /\ Sound(c)')
      /\ (Step("allocation", 0) \in Recorded(eFile'.log) =>
            c # 0 /\ "allocation" \in CallsOn(c, Len(ledger))')
      /\ (e # 0 => /\ e \in Positions' /\ Sound(e)'
                   /\ "allocation" \in CallsOn(e, Len(ledger))')
  BY <1>1, <1>3, <1>4
<1> QED BY <1>2, <1>5, <1>6, <1>7 DEF EscrowTrue

(* The steps of that form. *)
LEMMA EscrowRestTrue ==
  ASSUME IInv, EscrowTrue, aSummary = 1, UNCHANGED aSummary, EscrowNext,
         ~submitWithClient, ~markStep
  PROVE  EscrowTrue' /\ Grows(EscrowOps)
<1>1. Network /\ EscrowInv /\ eHand \in {0} \cup Positions /\ eFile \in EscrowRun
      /\ eMem \in EscrowRun
  BY DEF IInv, EscrowInv
<1>2. NoRun.status = "NONE" /\ NoRun.log = <<>> /\ NoRun.contract = 0
  BY DEF NoRun
<1>3. CASE EscrowStart
  <2>1. /\ epc = "idle" /\ eFile.status # "SUCCESS" /\ epc' # "evidence"
        /\ eFile' = IF eFile.status = "NONE" THEN NewEscrowRun ELSE eFile
        /\ eHand' = eHand /\ eSummary' = eSummary /\ UNCHANGED networkVars
    BY <1>3 DEF EscrowStart
  <2>2. eHand = 0 /\ (eFile.status = "NONE" => eFile = NoRun)
    BY <1>1, <2>1 DEF EscrowInv
  <2>3. Grows({}) /\ ledger' = ledger
    BY <1>1, <2>1, Untouched DEF networkVars
  <2>4. EscrowTrue'
    BY <1>2, <2>1, <2>2, <2>3, FreshRuns, EscrowTrueQuiet
  <2> QED BY <2>3, <2>4, GrowsMore
<1>4. CASE EscrowEvidenceOnly \/ EscrowRefused \/ EscrowEvidence
  <2>1. /\ eFile' = eFile /\ eHand' = eHand /\ epc' = "idle" /\ UNCHANGED networkVars
        /\ \/ eSummary' = eSummary
           \/ eFile.status = "SUCCESS" /\ eSummary' = eFile.contract
    BY <1>1, <1>4 DEF EscrowEvidenceOnly, EscrowRefused, EscrowEvidence, EscrowInv, EscrowTrue
  <2>2. eHand = 0
    BY <1>1, <1>4 DEF EscrowEvidenceOnly, EscrowRefused, EscrowEvidence, EscrowInv
  <2>3. Grows({}) /\ ledger' = ledger
    BY <1>1, <2>1, Untouched DEF networkVars
  <2>4. eFile.status = "SUCCESS" => Pending(eFile) = {}
    BY DEF EscrowTrue
  <2>5. EscrowTrue'
    BY <2>1, <2>2, <2>3, <2>4, EscrowTrueQuiet
  <2> QED BY <2>3, <2>5, GrowsMore
<1>5. CASE EscrowSuccess
  <2>1. /\ epc = "step" /\ eHand = 0 /\ Pending(eMem) = {} /\ eHand' = eHand
        /\ eSummary' = eSummary /\ eFile' = [eMem EXCEPT !.status = "SUCCESS"]
        /\ UNCHANGED networkVars
    BY <1>5 DEF EscrowSuccess
  <2>2. eMem = eFile
    BY <1>1, <2>1 DEF EscrowInv
  <2>3. eFile'.status = "SUCCESS" /\ eFile'.log = eFile.log /\ eFile'.contract = eFile.contract
    BY <1>1, <2>1, <2>2 DEF EscrowRun
  <2>4. Grows({}) /\ ledger' = ledger
    BY <1>1, <2>1, Untouched DEF networkVars
  <2>5. EscrowTrue'
    BY <2>1, <2>2, <2>3, <2>4, EscrowTrueQuiet
  <2> QED BY <2>4, <2>5, GrowsMore
<1>6. ASSUME NEW tears \in BOOLEAN, EscrowStops(tears)
      PROVE  EscrowTrue' /\ Grows(EscrowOps)
  <2>1. /\ Halt("escrow", eHand, tears) /\ eHand' = 0 /\ epc' = "idle"
        /\ eFile' = (IF tears THEN NoRun ELSE eFile) /\ eSummary' = eSummary
    BY <1>6 DEF EscrowStops
  <2>2. Grows({}) /\ ledger' = ledger
    BY <1>1, <2>1, Halted
  <2>3. eFile.status = "SUCCESS" => Pending(eFile) = {}
    BY DEF EscrowTrue
  <2>4. EscrowTrue'
    BY <1>2, <2>1, <2>2, <2>3, EscrowTrueQuiet
  <2> QED BY <2>2, <2>4, GrowsMore
<1> QED BY <1>3, <1>4, <1>5, <1>6 DEF EscrowNext, EscrowProgress

(* submitWithClient: only the compiled code answers the association, and   *)
(* the allocation is a call on the recorded contract.                      *)
LEMMA EscrowSubmitsTrue ==
  ASSUME IInv, EscrowTrue, UNCHANGED aSummary, submitWithClient
  PROVE  EscrowTrue' /\ Grows(EscrowOps)
<1> DEFINE s == NextStep(eMem)
           x == Target(eMem, s)
           w == Call(s.op, x, s.chunk)
<1>1. Network /\ EscrowInv
  BY DEF IInv
<1>2. /\ epc = "step" /\ eHand = 0 /\ Pending(eMem) # {}
      /\ Accepts(s.op, x) /\ Reach(w)
      /\ eHand' = Len(ledger')
      /\ epc' = epc /\ eFile' = eFile /\ eSummary' = eSummary
  BY DEF submitWithClient
<1>3. eMem = eFile /\ eFile \in EscrowRun
  BY <1>1, <1>2 DEF EscrowInv
<1>4. s \in EscrowStep /\ (s.op \in OnContract => eFile.contract # 0)
  BY <1>1, <1>2, <1>3, NextStepIsFirst DEF EscrowInv
<1>5. s.op \in EscrowOps /\ s.chunk \in Nat
  BY <1>4, StepShape
<1>6. x \in Nat /\ (s.op \in OnContract => x = eFile.contract)
  BY <1>3 DEF Target, EscrowRun, OnContract
<1> HIDE DEF s, x
<1>7. w \in Write /\ w.op = s.op /\ w.at = x
  BY <1>5, <1>6 DEF Call, Write, WriteOps
<1> HIDE DEF w
<1>8. /\ Grows({s.op}) /\ Len(ledger') # 0 /\ ledger'[Len(ledger')] = w
  BY <1>1, <1>2, <1>7, Reached
<1>9. s.op = "association" => Sound(x)
  BY <1>2 DEF Accepts
<1>10. PICK c, e : c = eFile.contract /\ e = eSummary
  OBVIOUS
<1>11. c' = c /\ e' = e /\ (e # 0 => aSummary = 1 /\ e \in Positions) /\ c \in {0} \cup Positions
       /\ Positions \subseteq Positions'
  BY <1>1, <1>8, <1>10 DEF EscrowTrue, Grows, Positions, Network
<1>12. /\ c \in Positions /\ Sound(c) => Sound(c)'
       /\ e \in Positions /\ Sound(e) => Sound(e)'
  BY <1>1, <1>8, SoundStays
<1>13. /\ "allocation" \in CallsOn(c, Len(ledger)) => "allocation" \in CallsOn(c, Len(ledger))'
       /\ "allocation" \in CallsOn(e, Len(ledger)) => "allocation" \in CallsOn(e, Len(ledger))'
  BY <1>1, <1>8, CallsGrow
<1>14. Pending(eFile)' = Pending(eFile)
  BY <1>2 DEF Pending, EscrowSteps
<1>15. /\ (Step("association", 0) \in Recorded(eFile.log) => c # 0 /\ Sound(c))
       /\ (Step("allocation", 0) \in Recorded(eFile.log) =>
             c # 0 /\ "allocation" \in CallsOn(c, Len(ledger)))
       /\ (e # 0 => Sound(e) /\ "allocation" \in CallsOn(e, Len(ledger)))
  BY <1>10 DEF EscrowTrue
<1>16. /\ (ledger'[eHand'].op = "association" => c # 0 /\ Sound(c))
       /\ (ledger'[eHand'].op = "allocation" => c # 0 /\ ledger'[eHand'].at = c)
  BY <1>2, <1>4, <1>6, <1>7, <1>8, <1>9, <1>10 DEF OnContract
<1>17. /\ (Step("association", 0) \in Recorded(eFile'.log) => c # 0 /\ Sound(c)')
       /\ (Step("allocation", 0) \in Recorded(eFile'.log) =>
             c # 0 /\ "allocation" \in CallsOn(c, Len(ledger))')
       /\ (ledger'[eHand'].op = "association" => c # 0 /\ Sound(c)')
       /\ (ledger'[eHand'].op = "allocation" => c # 0 /\ ledger'[eHand'].at = c)
       /\ (e # 0 => /\ aSummary' = 1 /\ e \in Positions' /\ Sound(e)'
                    /\ "allocation" \in CallsOn(e, Len(ledger))')
  BY <1>2, <1>11, <1>12, <1>13, <1>15, <1>16
<1>18. EscrowTrue'
  BY <1>2, <1>10, <1>11, <1>14, <1>17 DEF EscrowTrue
<1> QED BY <1>5, <1>8, <1>18, GrowsMore

(* markStep: what is recorded was in hand. *)
LEMMA EscrowMarksTrue ==
  ASSUME IInv, EscrowTrue, UNCHANGED aSummary, markStep
  PROVE  EscrowTrue' /\ Grows(EscrowOps)
<1> DEFINE s == NextStep(eFile)
           log == Append(eFile.log, s)
           file == IF s.op = "file_create" THEN eHand ELSE eFile.file
           contract == IF s.op = "contract_create" THEN eHand ELSE eFile.contract
<1>1. Network /\ EscrowInv
  BY DEF IInv
<1>2. /\ epc = "step" /\ eHand # 0 /\ eHand' = 0 /\ epc' = epc /\ eSummary' = eSummary
      /\ UNCHANGED networkVars
      /\ eMem = eFile /\ eSummary = 0 /\ eFile \in EscrowRun
      /\ eHand \in Positions /\ Pending(eFile) # {}
      /\ Step(ledger[eHand].op, ledger[eHand].chunk) = s
  BY <1>1 DEF markStep, EscrowInv
<1>3. eFile' = [eFile EXCEPT !.log = log, !.file = file, !.contract = contract]
  BY <1>2 DEF markStep
<1>4. s \in EscrowStep /\ s \notin Recorded(eFile.log) /\ s.op = ledger[eHand].op
  BY <1>2, NextStepIsFirst DEF Step
<1>5. s.op = "contract_create" => s = ContractCreate
  BY <1>4, StepShape
<1> HIDE DEF s
<1>6. log \in Seq(EscrowStep) /\ Recorded(log) = Recorded(eFile.log) \cup {s}
  BY <1>2, <1>4, RecordedAppend DEF EscrowRun
<1>7. eFile.contract # 0 => contract = eFile.contract
  BY <1>1, <1>4, <1>5 DEF EscrowInv
<1>8. contract \in {0} \cup Positions
  BY <1>2 DEF EscrowTrue
<1> HIDE DEF log, file, contract
<1>9. eFile'.log = log /\ eFile'.contract = contract /\ eFile'.status = eFile.status
  BY <1>2, <1>3 DEF EscrowRun
<1>10. eFile.status # "SUCCESS"
  BY <1>2 DEF EscrowTrue
<1>11. Grows({}) /\ ledger' = ledger /\ Positions' = Positions
  BY <1>1, <1>2, Untouched DEF networkVars, Positions
<1>12. (\A c : Sound(c)' <=> Sound(c))
       /\ \A c : CallsOn(c, Len(ledger))' = CallsOn(c, Len(ledger))
  BY <1>11 DEF Sound, Intact, Chunks, CallsOn, WritesOn
<1>13. Step("association", 0) \in Recorded(log) => contract # 0 /\ Sound(contract)
  <2>1. s = Step("association", 0) => ledger[eHand].op = "association"
    BY <1>4 DEF Step
  <2> QED BY <1>2, <1>6, <1>7, <2>1 DEF EscrowTrue
<1>14. Step("allocation", 0) \in Recorded(log) =>
         contract # 0 /\ "allocation" \in CallsOn(contract, Len(ledger))
  <2>1. s = Step("allocation", 0) => ledger[eHand].op = "allocation"
    BY <1>4 DEF Step
  <2>2. ledger[eHand].op = "allocation" =>
          eFile.contract # 0 /\ "allocation" \in CallsOn(eFile.contract, Len(ledger))
    BY <1>2 DEF EscrowTrue, CallsOn, WritesOn, Positions
  <2> QED BY <1>6, <1>7, <2>1, <2>2 DEF EscrowTrue
<1>15. PICK c : c = contract
  OBVIOUS
<1>16. c' = c /\ eFile'.contract = c /\ c \in {0} \cup Positions'
       /\ (Step("association", 0) \in Recorded(eFile'.log) => c # 0 /\ Sound(c)')
       /\ (Step("allocation", 0) \in Recorded(eFile'.log) =>
             c # 0 /\ "allocation" \in CallsOn(c, Len(ledger))')
  BY <1>8, <1>9, <1>11, <1>12, <1>13, <1>14, <1>15
<1>17. EscrowTrue'
  BY <1>2, <1>9, <1>10, <1>16 DEF EscrowTrue
<1> QED BY <1>11, <1>17, GrowsMore

(* Every step of Phase C2. *)
LEMMA EscrowStaysTrue ==
  ASSUME IInv, Truthful, OfEscrow(EscrowNext)
  PROVE  Truthful'
<1>1. Network /\ ReleaseInv /\ eSummary = 0
  BY EscrowOver DEF IInv, OfEscrow
<1>2. /\ aSummary = 1 /\ aSummary' = aSummary /\ UNCHANGED accessVars
      /\ UNCHANGED podLocal /\ UNCHANGED releaseVars /\ lifecycle' = lifecycle
  BY DEF OfEscrow, accessVars, podVars, podLocal
<1>3. EscrowTrue' /\ Grows(EscrowOps)
  BY <1>2, EscrowRestTrue, EscrowSubmitsTrue, EscrowMarksTrue DEF OfEscrow, Truthful
<1>4. pSummary.run = 0
  BY <1>1 DEF Truthful, PodTrue
<1>5. AccessTrue'
  BY <1>1, <1>2, <1>3, AccessTrueFrame DEF Truthful
<1>6. PodTrue'
  BY <1>1, <1>2, <1>3, PodTrueFrame DEF Truthful, EscrowOps, IsAccepted, SameEscrow
<1>7. EscrowOps \cap ReleaseWrites = {}
  BY KindsDisjoint
<1>8. ReleaseTrue'
  BY <1>1, <1>2, <1>3, <1>4, <1>7, ReleaseTrueFrame DEF Truthful
<1> QED BY <1>3, <1>5, <1>6, <1>8 DEF Truthful

-----------------------------------------------------------------------------
(* Phase D2: where a verified write leads. *)
LEMMA AfterWrites ==
  ASSUME NEW s \in PodWrites
  PROVE  After(s) \in {"POD_SUBMITTED", "review", "accept", "finish"}
<1> DEFINE k == CHOOSE i \in 1..Len(PodPoints) : PodPoints[i] = s
<1>1. /\ Len(PodPoints) = 12
      /\ PodPoints[1] = "escrow" /\ PodPoints[2] = "lifecycle" /\ PodPoints[3] = "store"
      /\ PodPoints[4] = "proof" /\ PodPoints[5] = "topic_create"
      /\ PodPoints[6] = "POD_SUBMITTED" /\ PodPoints[7] = "review"
      /\ PodPoints[8] = "POD_ADVISORY_ANCHORED" /\ PodPoints[9] = "accept"
      /\ PodPoints[10] = "accepted" /\ PodPoints[11] = "POD_REVIEW_ACTION"
      /\ PodPoints[12] = "finish"
  BY DEF PodPoints
<1>2. \E i \in 1..Len(PodPoints) : PodPoints[i] = s
  BY <1>1 DEF PodWrites
<1>3. k \in 1..12 /\ PodPoints[k] = s
  BY <1>1, <1>2
<1>4. After(s) = PodPoints[1 + k]
  BY DEF After
<1> HIDE DEF k
<1>5. k \in {1, 2, 3, 4, 5, 6, 7, 8, 9, 10, 11, 12}
  BY <1>3
<1>6. k \in {5, 6, 8, 11}
  BY <1>1, <1>3, <1>5 DEF PodWrites
<1> QED BY <1>1, <1>4, <1>6

(* The acceptance and the topic, as the local steps leave them. *)
LEMMA PodKeeps ==
  ASSUME NEW p, IsPodRun(p), NEW v
  PROVE  /\ [p EXCEPT !.pod = v].accepted = p.accepted /\ [p EXCEPT !.pod = v].topic = p.topic
         /\ [p EXCEPT !.advised = v].accepted = p.accepted
         /\ [p EXCEPT !.advised = v].topic = p.topic
         /\ [p EXCEPT !.seen = v].accepted = p.accepted /\ [p EXCEPT !.seen = v].topic = p.topic
         /\ [p EXCEPT !.status = v].accepted = p.accepted
         /\ [p EXCEPT !.status = v].topic = p.topic
         /\ [p EXCEPT !.accepted = v].topic = p.topic
BY DEF IsPodRun

(* What a step of the script does to the record. *)
LEMMA PodMoves ==
  ASSUME IInv, PodNext
  PROVE  LifecycleLocal
<1>1. CASE lifecycle' = lifecycle
  BY <1>1, LifecycleSame
<1>2. CASE ensureLifecycleRecord
  BY <1>2, BootMoves
<1>3. CASE PodSubmitApply
  <2>1. \/ lifecycle' = lifecycle
        \/ /\ lifecycle.state = "DELIVERY_REPORTED"
           /\ lifecycle' = [lifecycle EXCEPT !.state = "POD_SUBMITTED"]
    BY <1>3 DEF PodSubmitApply, PodDies
  <2> QED BY <1>1, <2>1, LifecycleForward DEF PodStates, IsAccepted, Released
<1>4. CASE PodReview
  <2>1. \/ lifecycle' = lifecycle
        \/ /\ lifecycle.state = "POD_SUBMITTED"
           /\ lifecycle' = [lifecycle EXCEPT !.state = "POD_UNDER_REVIEW"]
    BY <1>4 DEF PodReview
  <2> QED BY <1>1, <2>1, LifecycleForward DEF PodStates, IsAccepted, Released
<1>5. CASE PodAccept
  <2>1. \/ lifecycle' = lifecycle
        \/ /\ lifecycle.state = "POD_UNDER_REVIEW"
           /\ lifecycle' = [lifecycle EXCEPT !.state = "POD_ACCEPTED"]
    BY <1>5 DEF PodAccept, PodDies
  <2> QED BY <1>1, <2>1, LifecycleForward DEF PodStates, IsAccepted, Released
<1>6. \/ lifecycle' = lifecycle \/ ensureLifecycleRecord \/ PodSubmitApply
      \/ PodReview \/ PodAccept
  BY DEF PodNext, PodProgress, PodStart, PodEvidenceOnly, assertEscrowUntouched,
     PodStorePut, PodSubmit, PodRecord, PodVerify, PodAcceptedSave, PodSuccess,
     PodEvidence, PodDryEnd, PodStops, PodDies
<1> QED BY <1>1, <1>2, <1>3, <1>4, <1>5, <1>6

(* A step that writes nothing to the network. *)
PodTrueLocal ==
  /\ pFile'.accepted => IsAccepted'
  /\ ppc' \in {"accepted", "POD_REVIEW_ACTION"} => IsAccepted'
  /\ pFile'.at["topic_create"] # 0 \/ pFile'.status = "SUCCESS" => pFile'.topic # 0
  /\ ppc' = "evidence" => pFile'.status = "SUCCESS"
  /\ ppc' # "idle" => eSummary # 0
  /\ \/ pSummary' = pSummary
     \/ /\ pSummary' = pFile' /\ pFile'.status = "SUCCESS"
        /\ ppc' = "idle" /\ eSummary # 0

(* A step of that form keeps what Phase D2 reports true. *)
LEMMA PodTrueQuiet ==
  ASSUME IInv, PodTrue, PodNext, UNCHANGED networkVars, eSummary' = eSummary, PodTrueLocal
  PROVE  PodTrue' /\ Grows(PodWrites)
<1>1. pSummary.run = 0
  BY PodOver
<1>2. Ops' = Ops
  BY DEF networkVars, Ops, Positions
<1>3. IsAccepted => IsAccepted'
  BY PodMoves DEF LifecycleLocal
<1>4. Grows({})
  BY Untouched DEF IInv
<1>5. PodTrue'
  BY <1>1, <1>2, <1>3 DEF PodTrue, PodTrueLocal
<1> QED BY <1>4, <1>5, GrowsMore

(* The steps that leave the progress file alone. *)
LEMMA PodPassesTrue ==
  ASSUME IInv, PodTrue, PodNext, UNCHANGED networkVars, eSummary' = eSummary,
         pFile' = pFile,
         ppc' \in {"accepted", "POD_REVIEW_ACTION"} => IsAccepted',
         ppc' # "evidence",
         ppc' # "idle" => ppc # "idle",
         \/ pSummary' = pSummary
         \/ /\ pSummary' = pFile /\ pFile.status = "SUCCESS"
            /\ ppc' = "idle" /\ eSummary # 0
  PROVE  PodTrue' /\ Grows(PodWrites)
<1>1. IsAccepted => IsAccepted'
  BY PodMoves DEF LifecycleLocal
<1>2. PodTrueLocal
  BY <1>1 DEF PodTrue, PodTrueLocal
<1> QED BY <1>2, PodTrueQuiet

(* The steps that save a progress object with the same topic. *)
LEMMA PodSavesTrue ==
  ASSUME IInv, PodTrue, PodNext, UNCHANGED networkVars, eSummary' = eSummary,
         ppc # "idle", NEW p, PodSave(p), p.at = pMem.at, p.topic = pMem.topic,
         p.accepted = pMem.accepted \/ IsAccepted',
         \/ p.status = pMem.status /\ ppc' # "evidence"
         \/ p.status = "SUCCESS" /\ pMem.at["topic_create"] # 0,
         ppc' \in {"accepted", "POD_REVIEW_ACTION"} => IsAccepted',
         pSummary' = pSummary
  PROVE  PodTrue' /\ Grows(PodWrites)
<1>1. IsAccepted => IsAccepted'
  BY PodMoves DEF LifecycleLocal
<1>2. pMem = pFile /\ pFile' = p
  BY PodFacts DEF PodSave
<1>3. pFile'.accepted => IsAccepted'
  BY <1>1, <1>2 DEF PodTrue
<1>4. pFile'.at["topic_create"] # 0 \/ pFile'.status = "SUCCESS" => pFile'.topic # 0
  BY <1>2 DEF PodTrue
<1>5. PodTrueLocal
  BY <1>2, <1>3, <1>4 DEF PodTrue, PodTrueLocal
<1> QED BY <1>5, PodTrueQuiet

(* PodStart: a new run has accepted nothing and has no topic. *)
LEMMA PodStartsTrue ==
  ASSUME IInv, PodTrue, eSummary' = eSummary, NEW dry \in BOOLEAN, PodStart(dry)
  PROVE  PodTrue' /\ Grows(PodWrites)
<1>1. /\ ppc' = "escrow" /\ eSummary # 0 /\ pSummary' = pSummary /\ UNCHANGED networkVars
      /\ \/ pFile' = [NoPodRun EXCEPT !.status = "IN_PROGRESS", !.run = pRuns']
         \/ pFile' = pFile /\ lifecycle' = lifecycle
  BY DEF PodStart, PodSave, PodGo, readEscrowFacts
<1>2. PodNext
  BY DEF PodNext, PodProgress
<1>3. lifecycle' = lifecycle
  BY DEF PodStart
<1>4. CASE pFile' = [NoPodRun EXCEPT !.status = "IN_PROGRESS", !.run = pRuns']
  <2>1. /\ ~pFile'.accepted /\ pFile'.at["topic_create"] = 0 /\ pFile'.status = "IN_PROGRESS"
    BY <1>4 DEF NoPodRun, PodWrites
  <2>2. PodTrueLocal
    BY <1>1, <2>1 DEF PodTrueLocal
  <2> QED BY <1>1, <1>2, <2>2, PodTrueQuiet
<1>5. CASE pFile' = pFile
  <2>1. PodTrueLocal
    BY <1>1, <1>3, <1>5 DEF PodTrue, PodTrueLocal, IsAccepted
  <2> QED BY <1>1, <1>2, <2>1, PodTrueQuiet
<1> QED BY <1>1, <1>4, <1>5

(* The steps that leave the progress file alone. *)
LEMMA PodRestTrue ==
  ASSUME IInv, PodTrue, eSummary' = eSummary,
         \/ PodEvidenceOnly \/ assertEscrowUntouched \/ ensureLifecycleRecord
         \/ PodStorePut \/ PodEvidence \/ PodDryEnd
  PROVE  PodTrue' /\ Grows(PodWrites)
<1>1. PodNext /\ UNCHANGED networkVars /\ pFile' = pFile
  BY DEF PodNext, PodProgress, PodEvidenceOnly, assertEscrowUntouched,
     ensureLifecycleRecord, PodStorePut, PodEvidence, PodDryEnd, PodDies
<1>2. /\ ppc' \in {"idle", "lifecycle", "store", "topic_create", "proof"}
      /\ ppc' # "idle" => ppc # "idle"
  BY DEF PodEvidenceOnly, assertEscrowUntouched, ensureLifecycleRecord, PodStorePut,
     PodEvidence, PodDryEnd, PodDies, PodHere, PodGo
<1>3. \/ pSummary' = pSummary
      \/ pSummary' = pFile /\ pFile.status = "SUCCESS" /\ ppc' = "idle" /\ eSummary # 0
  <2>1. CASE PodEvidence
    <3>1. ppc = "evidence" /\ pSummary' = pMem /\ ppc' = "idle"
      BY <2>1 DEF PodEvidence, PodHere
    <3> QED BY <3>1, PodFacts DEF PodTrue
  <2>2. CASE ~PodEvidence
    BY <2>2 DEF PodEvidenceOnly, assertEscrowUntouched, ensureLifecycleRecord,
       PodStorePut, PodDryEnd, PodDies, PodHere, readEscrowFacts
  <2> QED BY <2>1, <2>2
<1> QED BY <1>1, <1>2, <1>3, PodPassesTrue

(* PodSubmitApply and PodReview. *)
LEMMA PodProvesTrue ==
  ASSUME IInv, PodTrue, eSummary' = eSummary, PodSubmitApply \/ PodReview
  PROVE  PodTrue' /\ Grows(PodWrites)
<1>1. /\ PodNext /\ UNCHANGED networkVars /\ pSummary' = pSummary
      /\ ppc \in {"proof", "review"} /\ ppc # "idle" /\ IsPodRun(pMem)
      /\ ppc' \in {ppc, "topic_create", "idle", "POD_ADVISORY_ANCHORED"}
      /\ ppc' \notin {"evidence", "accepted", "POD_REVIEW_ACTION"}
  BY PodFacts DEF PodNext, PodProgress, PodSubmitApply, PodReview, PodDies, PodHere, PodGo
<1>2. CASE pFile' = pFile
  BY <1>1, <1>2, PodPassesTrue
<1>3. CASE PodSave([pMem EXCEPT !.pod = TRUE])
  <2> DEFINE p == [pMem EXCEPT !.pod = TRUE]
  <2>1. /\ p.at = pMem.at /\ p.topic = pMem.topic /\ p.accepted = pMem.accepted
        /\ p.status = pMem.status
    BY <1>1, PodFields, PodKeeps
  <2>2. PodSave(p)
    BY <1>3
  <2> HIDE DEF p
  <2> QED BY <1>1, <2>1, <2>2, PodSavesTrue
<1>4. CASE PodSave([pMem EXCEPT !.advised = TRUE])
  <2> DEFINE p == [pMem EXCEPT !.advised = TRUE]
  <2>1. /\ p.at = pMem.at /\ p.topic = pMem.topic /\ p.accepted = pMem.accepted
        /\ p.status = pMem.status
    BY <1>1, PodFields, PodKeeps
  <2>2. PodSave(p)
    BY <1>4
  <2> HIDE DEF p
  <2> QED BY <1>1, <2>1, <2>2, PodSavesTrue
<1>5. \/ pFile' = pFile \/ PodSave([pMem EXCEPT !.pod = TRUE])
      \/ PodSave([pMem EXCEPT !.advised = TRUE])
  BY DEF PodSubmitApply, PodReview, PodDies
<1> QED BY <1>2, <1>3, <1>4, <1>5

(* PodAccept and PodAcceptedSave: the review action is reached only by way *)
(* of the acceptance.                                                      *)
LEMMA PodAcceptsTrue ==
  ASSUME IInv, PodTrue, eSummary' = eSummary, PodAccept \/ PodAcceptedSave
  PROVE  PodTrue' /\ Grows(PodWrites)
<1>1. /\ PodNext /\ UNCHANGED networkVars /\ pSummary' = pSummary
      /\ ppc # "idle" /\ IsPodRun(pMem) /\ pMem = pFile
      /\ ppc' \in {"accepted", "idle", "POD_REVIEW_ACTION"}
  BY PodFacts
     DEF PodNext, PodProgress, PodAccept, PodAcceptedSave, PodDies, PodHere, PodGo
<1>2. CASE PodAccept
  <2>1. pFile' = pFile
    BY <1>2 DEF PodAccept, PodDies
  <2>2. CASE pMem.accepted /\ lifecycle' = lifecycle
    <3>1. IsAccepted'
      BY <1>1, <2>2 DEF PodTrue, IsAccepted
    <3> QED BY <1>1, <2>1, <3>1, PodPassesTrue
  <2>3. CASE lifecycle' = [lifecycle EXCEPT !.state = "POD_ACCEPTED"]
    <3>1. lifecycle'.state = "POD_ACCEPTED"
      BY <2>3, PodFacts
    <3>2. IsAccepted'
      BY <3>1 DEF IsAccepted
    <3> QED BY <1>1, <2>1, <3>2, PodPassesTrue
  <2>4. CASE PodDies
    BY <1>1, <2>1, <2>4, PodPassesTrue DEF PodDies
  <2> QED BY <1>2, <2>2, <2>3, <2>4 DEF PodAccept
<1>3. CASE PodAcceptedSave
  <2> DEFINE p == [pMem EXCEPT !.accepted = TRUE]
  <2>1. p.at = pMem.at /\ p.topic = pMem.topic /\ p.status = pMem.status
    BY <1>1, PodFields, PodKeeps
  <2>2. PodSave(p) /\ ppc = "accepted" /\ lifecycle' = lifecycle
        /\ ppc' = "POD_REVIEW_ACTION"
    BY <1>3 DEF PodAcceptedSave, PodHere, PodGo
  <2> HIDE DEF p
  <2>3. IsAccepted'
    BY <2>2 DEF PodTrue, IsAccepted
  <2> QED BY <1>1, <2>1, <2>2, <2>3, PodSavesTrue
<1> QED BY <1>2, <1>3

(* PodVerify and PodSuccess: a run that is done has created its topic. *)
LEMMA PodEndsTrue ==
  ASSUME IInv, PodTrue, eSummary' = eSummary,
         (\E s \in PodWrites : PodVerify(s)) \/ PodSuccess
  PROVE  PodTrue' /\ Grows(PodWrites)
<1>1. PodNext /\ UNCHANGED networkVars /\ pSummary' = pSummary /\ IsPodRun(pMem)
  BY PodFacts DEF PodNext, PodProgress, PodVerify, PodSuccess
<1>2. CASE PodSuccess
  <2> DEFINE p == [pMem EXCEPT !.status = "SUCCESS"]
  <2>1. /\ p.at = pMem.at /\ p.topic = pMem.topic /\ p.accepted = pMem.accepted
        /\ p.status = "SUCCESS"
    BY <1>1, PodFields, PodKeeps
  <2>2. PodSave(p) /\ ppc = "finish" /\ ppc' = "evidence"
        /\ completedSteps(pMem) = PodWrites
    BY <1>2 DEF PodSuccess, PodHere, PodGo
  <2> HIDE DEF p
  <2>3. pMem.at["topic_create"] # 0
    BY <2>2 DEF completedSteps, PodWrites
  <2> QED BY <1>1, <2>1, <2>2, <2>3, PodSavesTrue
<1>3. ASSUME NEW s \in PodWrites, PodVerify(s)
      PROVE  PodTrue' /\ Grows(PodWrites)
  <2>1. ppc = s /\ ppc # "idle" /\ ppc' = After(s)
    BY <1>3 DEF PodVerify, PodHere, PodGo, PodWrites
  <2>2. ppc' \notin {"accepted", "POD_REVIEW_ACTION", "evidence"}
    BY <2>1, AfterWrites
  <2>3. CASE PodSave([pMem EXCEPT !.seen = @ \cup {s}])
    <3> DEFINE seen == pMem.seen \cup {s}
               p == [pMem EXCEPT !.seen = seen]
    <3>1. PodSave(p)
      BY <2>3
    <3> HIDE DEF seen
    <3>2. /\ p.at = pMem.at /\ p.topic = pMem.topic /\ p.accepted = pMem.accepted
          /\ p.status = pMem.status
      BY <1>1, PodFields, PodKeeps
    <3> HIDE DEF p
    <3> QED BY <1>1, <2>1, <2>2, <3>1, <3>2, PodSavesTrue
  <2>4. CASE PodSave(pMem)
    BY <1>1, <2>1, <2>2, <2>4, PodSavesTrue
  <2> QED BY <1>3, <2>3, <2>4 DEF PodVerify
<1> QED BY <1>2, <1>3

(* PodRecord: a topic that is recorded is there. *)
LEMMA PodRecordsTrue ==
  ASSUME IInv, PodTrue, eSummary' = eSummary, NEW s \in PodWrites, PodRecord(s)
  PROVE  PodTrue' /\ Grows(PodWrites)
<1> DEFINE at == [pFile.at EXCEPT ![s] = pHand]
           topic == IF s = "topic_create" THEN pHand ELSE pFile.topic
           number == [pFile.number EXCEPT
                        ![s] = IF s = "topic_create" THEN 0
                               ELSE SequenceNumber(pMem.topic, pHand)]
<1>1. /\ PodNext /\ UNCHANGED networkVars /\ pSummary' = pSummary /\ lifecycle' = lifecycle
      /\ ppc' = ppc /\ ppc = s /\ ppc # "idle" /\ ppc # "evidence" /\ pHand # 0
  BY DEF PodNext, PodProgress, PodRecord, PodHere, PodWrites
<1>2. pMem = pFile /\ IsPodRun(pFile)
  BY <1>1, PodFacts
<1>3. pFile' = [pFile EXCEPT !.at = at, !.topic = topic, !.number = number]
  BY <1>2 DEF PodRecord, PodSave
<1>4. at["topic_create"] # 0 \/ pFile.status = "SUCCESS" => topic # 0
  BY <1>1, <1>2 DEF PodTrue, IsPodRun, PodWrites
<1> HIDE DEF at, topic, number
<1>5. /\ pFile'.at = at /\ pFile'.topic = topic /\ pFile'.status = pFile.status
      /\ pFile'.accepted = pFile.accepted
  BY <1>2, <1>3 DEF IsPodRun
<1>6. IsAccepted' <=> IsAccepted
  BY <1>1 DEF IsAccepted
<1>7. pFile'.accepted => IsAccepted'
  BY <1>5, <1>6 DEF PodTrue
<1>8. PodTrueLocal
  BY <1>1, <1>4, <1>5, <1>6, <1>7 DEF PodTrue, PodTrueLocal
<1> QED BY <1>1, <1>8, PodTrueQuiet

(* PodSubmit: the review action is sent only at its point. *)
LEMMA PodSubmitsTrue ==
  ASSUME IInv, PodTrue, eSummary' = eSummary, NEW s \in PodWrites, PodSubmit(s)
  PROVE  PodTrue' /\ Grows(PodWrites)
<1> DEFINE w == Call(s, pMem.topic, 0)
<1>1. /\ ppc = s /\ Reach(w) /\ ppc' = ppc /\ pFile' = pFile /\ pSummary' = pSummary
      /\ lifecycle' = lifecycle /\ Network /\ IsPodRun(pMem)
  BY PodFacts DEF PodSubmit, PodHere, IInv
<1>2. w \in Write /\ w.op = s
  BY <1>1 DEF Call, Write, WriteOps, IsPodRun
<1> HIDE DEF w
<1>3. Grows({s})
  BY <1>1, <1>2, Reached
<1>4. "POD_REVIEW_ACTION" \in Ops' => "POD_REVIEW_ACTION" \in Ops \/ s = "POD_REVIEW_ACTION"
  BY <1>1, <1>3, OpsGrow
<1>5. IsAccepted' <=> IsAccepted
  BY <1>1 DEF IsAccepted
<1>6. PodTrue'
  BY <1>1, <1>4, <1>5 DEF PodTrue
<1> QED BY <1>3, <1>6, GrowsMore

(* A stop, which may tear the progress file. *)
LEMMA PodHaltsTrue ==
  ASSUME IInv, PodTrue, eSummary' = eSummary, NEW tears \in BOOLEAN, PodStops(tears)
  PROVE  PodTrue' /\ Grows(PodWrites)
<1>1. /\ Halt("pod", pHand, tears) /\ ppc' = "idle" /\ ppc # "idle"
      /\ pFile' = (IF tears THEN NoPodRun ELSE pFile)
      /\ pSummary' = pSummary /\ lifecycle' = lifecycle
  BY DEF PodStops
<1>2. Network /\ pHand \in {0} \cup Positions
  BY DEF IInv, PodInv
<1>3. Grows({}) /\ ledger' = ledger
  BY <1>1, <1>2, Halted
<1>4. Ops' = Ops /\ (IsAccepted' <=> IsAccepted)
  BY <1>1, <1>3 DEF Ops, Positions, IsAccepted
<1>5. /\ ~NoPodRun.accepted /\ NoPodRun.at["topic_create"] = 0 /\ NoPodRun.status = "NONE"
  BY DEF NoPodRun, PodWrites
<1>6. pSummary.run = 0
  BY <1>1 DEF PodTrue
<1>7. CASE tears
  BY <1>1, <1>3, <1>4, <1>5, <1>6, <1>7, GrowsMore DEF PodTrue
<1>8. CASE ~tears
  BY <1>1, <1>3, <1>4, <1>6, <1>8, GrowsMore DEF PodTrue
<1> QED BY <1>7, <1>8

(* Every step of Phase D2. *)
LEMMA PodStaysTrue ==
  ASSUME IInv, Truthful, OfPod(PodNext)
  PROVE  Truthful'
<1>1. Network /\ EscrowInv /\ ReleaseInv /\ PodNext
  BY DEF IInv, OfPod
<1>2. /\ UNCHANGED accessVars /\ UNCHANGED escrowVars /\ UNCHANGED releaseVars
      /\ eSummary' = eSummary /\ aSummary' = aSummary
  BY DEF OfPod, accessVars, escrowVars
<1>3. PodTrue' /\ Grows(PodWrites)
  BY <1>1, <1>2, PodStartsTrue, PodRestTrue, PodProvesTrue, PodAcceptsTrue, PodEndsTrue,
     PodRecordsTrue, PodSubmitsTrue, PodHaltsTrue DEF Truthful, PodNext, PodProgress
<1>4. pSummary.run = 0
  BY <1>1, PodOver DEF Truthful
<1>5. lifecycle.state \notin Released => lifecycle'.state \notin Released
  BY <1>1, PodMoves DEF LifecycleLocal
<1>6. AccessTrue'
  BY <1>1, <1>2, <1>3, AccessTrueFrame DEF Truthful
<1>7. EscrowTrue'
  BY <1>1, <1>2, <1>3, EscrowTrueFrame DEF Truthful
<1>8. PodWrites \cap ReleaseWrites = {}
  BY KindsDisjoint
<1>9. ReleaseTrue'
  BY <1>1, <1>2, <1>3, <1>4, <1>5, <1>8, ReleaseTrueFrame DEF Truthful
<1> QED BY <1>3, <1>6, <1>7, <1>9 DEF Truthful

-----------------------------------------------------------------------------
(* Phase E1.  A step that leaves the ledger alone: m is where the progress *)
(* file will have TENDER_COMPLETED.                                        *)
ReleaseTrueLocal(m) ==
  /\ rSummary' \in {0, 1} /\ rHand' = 0 /\ pSummary.run # 0
  /\ lifecycle.state \in Released => lifecycle'.state \in Released
  /\ lifecycle.state = "TENDER_COMPLETED" => lifecycle'.state = "TENDER_COMPLETED"
  /\ rpc' \in PaidPoints => lifecycle'.state \in Released
  /\ rpc' \in DonePoints => lifecycle'.state = "TENDER_COMPLETED"
  /\ rpc' \in PaidPoints \ {"ESCROW_RELEASED"} => rFile'.at["ESCROW_RELEASED"] # 0
  /\ rFile'.at["TENDER_COMPLETED"] = m
  /\ rpc' \in {"finish", "evidence"} \/ "TENDER_COMPLETED" \in rFile'.seen =>
       m # 0 /\ m <= shown
  /\ m # 0 => LastOnTopic(m) /\ \A s \in ReleaseWrites : rFile'.at[s] # 0
  /\ rFile'.status = "SUCCESS" =>
       /\ rpc' \in {"idle", "evidence"}
       /\ m # 0
       /\ lifecycle'.state = "TENDER_COMPLETED"
       /\ Messages(Topic, Len(ledger)) = ExpectedOrder
  /\ rpc' = "evidence" \/ rSummary' = 1 => rFile'.status = "SUCCESS"
  /\ rSummary' = 1 => rpc' = "idle"

(* A step of that form keeps what Phase E1 reports true. *)
LEMMA ReleaseTrueQuiet ==
  ASSUME ReleaseTrue, UNCHANGED ledger, UNCHANGED shown, pSummary' = pSummary,
         NEW m, ReleaseTrueLocal(m)
  PROVE  ReleaseTrue'
<1>1. Positions' = Positions /\ Ops' = Ops /\ Topic' = Topic /\ CompletedAt' = m
  BY DEF Positions, Ops, Topic, CompletedAt, ReleaseTrueLocal
<1>2. /\ LastOnTopic(m)' <=> LastOnTopic(m)
      /\ Messages(Topic, Len(ledger))' = Messages(Topic, Len(ledger))
      /\ ExpectedOrder' = ExpectedOrder
  BY <1>1 DEF LastOnTopic, Messages, SequenceNumber, WritesOn, ExpectedOrder
<1>3. \A i : IsRelease(i)' <=> IsRelease(i)
  BY DEF IsRelease
<1>4. \A i, j \in Positions' : IsRelease(i)' /\ IsRelease(j)' => i = j
  BY <1>1, <1>3 DEF ReleaseTrue
<1>5. /\ rpc' \in PaidPoints \/ "ESCROW_RELEASED" \in Ops' => lifecycle'.state \in Released
      /\ rpc' \in DonePoints \/ "TENDER_COMPLETED" \in Ops' =>
           lifecycle'.state = "TENDER_COMPLETED"
  BY <1>1 DEF ReleaseTrue, ReleaseTrueLocal
<1>6. m' = m
  OBVIOUS
<1> QED BY <1>1, <1>2, <1>4, <1>5, <1>6 DEF ReleaseTrue, ReleaseTrueLocal

(* What the two invariants say of a run. *)
LEMMA ReleaseTrueFacts ==
  ASSUME IInv, ReleaseTrue
  PROVE  /\ rFile \in ReleaseRun /\ rFile.at \in [ReleaseWrites -> Nat]
         /\ rpc # "idle" => /\ rMem = rFile /\ pSummary.run # 0 /\ rSummary = 0
                            /\ lifecycle.state \in {"POD_ACCEPTED"} \cup Released
         /\ rpc \notin {"idle", "evidence"} => rFile.status # "SUCCESS"
         /\ rpc \notin ReleaseWrites => rHand = 0
         /\ rSummary \in {0, 1}
         /\ CompletedAt \in Nat
<1>1. rFile \in ReleaseRun /\ rFile.at \in [ReleaseWrites -> Nat] /\ CompletedAt \in Nat
  BY ReleaseFacts, ReleaseFields DEF CompletedAt, ReleaseWrites
<1> QED BY <1>1, ReleaseFacts DEF ReleaseTrue, IsAccepted

(* The steps that leave the progress file and the record alone, or forget  *)
(* the file.                                                               *)
LEMMA ReleaseEndsTrue ==
  ASSUME IInv, ReleaseTrue, UNCHANGED ledger, UNCHANGED shown, pSummary' = pSummary,
         lifecycle' = lifecycle, rHand' = 0, rpc' = "idle", pSummary.run # 0,
         \/ rFile' = rFile
         \/ rFile' = NoRelease /\ rpc # "idle",
         \/ rSummary' = rSummary
         \/ rSummary' = 1 /\ rFile' = rFile /\ rFile.status = "SUCCESS"
  PROVE  ReleaseTrue'
<1>1. rSummary \in {0, 1} /\ (rpc # "idle" => rSummary = 0)
  BY ReleaseTrueFacts
<1>2. CASE rFile' = rFile
  <2>1. ReleaseTrueLocal(CompletedAt)
    BY <1>1, <1>2 DEF ReleaseTrue, ReleaseTrueLocal, CompletedAt, PaidPoints, DonePoints
  <2>2. PICK m : m = CompletedAt
    OBVIOUS
  <2>3. ReleaseTrueLocal(m)
    BY <2>1, <2>2
  <2> QED BY <2>3, ReleaseTrueQuiet
<1>3. CASE rFile' = NoRelease /\ rpc # "idle" /\ rSummary' = rSummary
  <2>1. /\ rFile'.at["TENDER_COMPLETED"] = 0 /\ rFile'.seen = {} /\ rFile'.status = "NONE"
    BY <1>3 DEF NoRelease, ReleaseWrites
  <2>2. ReleaseTrueLocal(0)
    BY <1>1, <1>3, <2>1 DEF ReleaseTrueLocal, PaidPoints, DonePoints
  <2> QED BY <2>2, ReleaseTrueQuiet
<1>4. CASE rFile' = NoRelease /\ rFile' = rFile
  BY <1>2, <1>4
<1> QED BY <1>2, <1>3, <1>4

(* ReleaseStart: no run is resumed that is done. *)
LEMMA ReleaseStartsTrue ==
  ASSUME IInv, ReleaseTrue, pSummary' = pSummary, ReleaseStart
  PROVE  ReleaseTrue' /\ Grows(ReleaseWrites)
<1>1. /\ rpc = "idle" /\ rSummary = 0 /\ rpc' = "release_full" /\ rHand' = rHand
      /\ rSummary' = rSummary /\ lifecycle' = lifecycle /\ UNCHANGED networkVars
      /\ rFile' = [rFile EXCEPT !.status = "IN_PROGRESS"] /\ pSummary.run # 0
  BY DEF ReleaseStart, CanStartRelease, ReleaseSave, readBindings
<1>2. rHand = 0 /\ rFile \in ReleaseRun
  BY <1>1, ReleaseTrueFacts DEF ReleaseWrites
<1>3. rFile'.at = rFile.at /\ rFile'.seen = rFile.seen /\ rFile'.status = "IN_PROGRESS"
  BY <1>1, <1>2 DEF ReleaseRun
<1>4. PICK m : m = CompletedAt
  OBVIOUS
<1>5. ReleaseTrueLocal(m)
  BY <1>1, <1>2, <1>3, <1>4 DEF ReleaseTrue, ReleaseTrueLocal, CompletedAt, PaidPoints, DonePoints
<1>6. Grows({}) /\ ledger' = ledger /\ shown' = shown
  BY <1>1, Untouched DEF IInv, networkVars
<1> QED BY <1>5, <1>6, ReleaseTrueQuiet, GrowsMore

(* The whole topic is shown when its last message is. *)
LEMMA TopicIsShown ==
  ASSUME Network, NEW m \in Nat, m <= shown, LastOnTopic(m)
  PROVE  Messages(Topic, Len(ledger)) = Messages(Topic, shown)
<1>1. WritesOn(Topic, Len(ledger)) = WritesOn(Topic, shown)
  <2>1. \A i \in WritesOn(Topic, Len(ledger)) : i \in WritesOn(Topic, shown)
    BY DEF WritesOn, LastOnTopic, Positions, Network
  <2>2. \A i \in WritesOn(Topic, shown) : i \in WritesOn(Topic, Len(ledger))
    BY DEF WritesOn, Network
  <2> QED BY <2>1, <2>2
<1> QED BY <1>1 DEF Messages, SequenceNumber

(* ReleaseSuccess: what the Mirror Node lists is the whole topic. *)
LEMMA ReleaseSucceedsTrue ==
  ASSUME IInv, ReleaseTrue, pSummary' = pSummary, ReleaseSuccess
  PROVE  ReleaseTrue' /\ Grows(ReleaseWrites)
<1>1. /\ rpc = "finish" /\ rSummary' = rSummary /\ lifecycle' = lifecycle
      /\ UNCHANGED networkVars
  BY DEF ReleaseSuccess
<1>2. Grows({}) /\ ledger' = ledger /\ shown' = shown
  BY <1>1, Untouched DEF IInv, networkVars
<1>3. rHand = 0 /\ rMem = rFile /\ rFile \in ReleaseRun /\ pSummary.run # 0 /\ rSummary = 0
      /\ CompletedAt \in Nat
  BY <1>1, ReleaseTrueFacts DEF ReleaseWrites
<1>4. CASE ReleaseDies /\ UNCHANGED rFile
  BY <1>1, <1>2, <1>3, <1>4, ReleaseEndsTrue, GrowsMore DEF ReleaseDies
<1>5. CASE /\ listTopicMessages = ExpectedOrder
           /\ ReleaseSave([rMem EXCEPT !.status = "SUCCESS"])
           /\ rpc' = "evidence" /\ UNCHANGED rHand
  <2>1. rFile' = [rFile EXCEPT !.status = "SUCCESS"] /\ rpc' = "evidence" /\ rHand' = 0
    BY <1>3, <1>5 DEF ReleaseSave
  <2>2. rFile'.at = rFile.at /\ rFile'.seen = rFile.seen /\ rFile'.status = "SUCCESS"
    BY <1>3, <2>1 DEF ReleaseRun
  <2>3. PICK m : m = CompletedAt
    OBVIOUS
  <2>4. m # 0 /\ m <= shown /\ LastOnTopic(m) /\ m \in Nat
    BY <1>1, <1>3, <2>3 DEF ReleaseTrue
  <2>5. Messages(Topic, Len(ledger)) = Messages(Topic, shown)
    BY <2>4, TopicIsShown DEF IInv
  <2>6. Messages(Topic, Len(ledger)) = ExpectedOrder
    BY <1>5, <2>5 DEF listTopicMessages
  <2>7. /\ lifecycle.state = "TENDER_COMPLETED" /\ lifecycle.state \in Released
        /\ rFile.at["ESCROW_RELEASED"] # 0 /\ \A s \in ReleaseWrites : rFile.at[s] # 0
    BY <1>1, <2>3, <2>4 DEF ReleaseTrue, PaidPoints, DonePoints
  <2>8. rFile'.at["TENDER_COMPLETED"] = m
    BY <2>2, <2>3 DEF CompletedAt
  <2>9. ReleaseTrueLocal(m)
    BY <1>1, <1>3, <2>1, <2>2, <2>4, <2>6, <2>7, <2>8 DEF ReleaseTrueLocal
  <2> QED BY <1>2, <2>9, ReleaseTrueQuiet, GrowsMore
<1> QED BY <1>4, <1>5 DEF ReleaseSuccess

(* The ends of a run. *)
LEMMA ReleaseConcludesTrue ==
  ASSUME IInv, ReleaseTrue, pSummary' = pSummary,
         \/ ReleaseEvidenceOnly \/ ReleaseEvidence
         \/ \E tears \in BOOLEAN : ReleaseStops(tears)
  PROVE  ReleaseTrue' /\ Grows(ReleaseWrites)
<1>1. Network /\ rHand \in {0} \cup Positions
  BY DEF IInv, ReleaseInv
<1>2. CASE ReleaseEvidenceOnly
  <2>1. /\ rpc = "idle" /\ rpc' = rpc /\ rHand' = rHand /\ rFile' = rFile
        /\ rFile.status = "SUCCESS" /\ rSummary' = 1 /\ lifecycle' = lifecycle
        /\ pSummary.run # 0 /\ UNCHANGED networkVars
    BY <1>2 DEF ReleaseEvidenceOnly, readBindings
  <2>2. rHand = 0
    BY <2>1, ReleaseTrueFacts DEF ReleaseWrites
  <2>3. Grows({}) /\ ledger' = ledger /\ shown' = shown
    BY <1>1, <2>1, Untouched DEF networkVars
  <2> QED BY <2>1, <2>2, <2>3, ReleaseEndsTrue, GrowsMore
<1>3. CASE ReleaseEvidence
  <2>1. /\ rpc = "evidence" /\ rpc' = "idle" /\ rHand' = 0 /\ rFile' = rFile
        /\ rSummary' = 1 /\ lifecycle' = lifecycle /\ UNCHANGED networkVars
    BY <1>3 DEF ReleaseEvidence, ReleaseDies
  <2>2. rFile.status = "SUCCESS" /\ pSummary.run # 0
    BY <2>1, ReleaseTrueFacts DEF ReleaseTrue
  <2>3. Grows({}) /\ ledger' = ledger /\ shown' = shown
    BY <1>1, <2>1, Untouched DEF networkVars
  <2> QED BY <2>1, <2>2, <2>3, ReleaseEndsTrue, GrowsMore
<1>4. ASSUME NEW tears \in BOOLEAN, ReleaseStops(tears)
      PROVE  ReleaseTrue' /\ Grows(ReleaseWrites)
  <2>1. /\ rpc # "idle" /\ Halt("release", rHand, tears)
        /\ rpc' = "idle" /\ rHand' = 0 /\ rSummary' = rSummary
        /\ lifecycle' = lifecycle /\ rFile' = IF tears THEN NoRelease ELSE rFile
    BY <1>4 DEF ReleaseStops, ReleaseDies
  <2>2. Grows({}) /\ ledger' = ledger /\ shown' = shown
    BY <1>1, <2>1, Halted
  <2>3. pSummary.run # 0
    BY <2>1, ReleaseTrueFacts
  <2>4. rFile' = NoRelease \/ rFile' = rFile
    BY <2>1
  <2> QED BY <2>1, <2>2, <2>3, <2>4, ReleaseEndsTrue, GrowsMore
<1> QED BY <1>2, <1>3, <1>4

(* ReleasePaid and ReleaseComplete: the record moves before the message. *)
LEMMA ReleasePaysTrue ==
  ASSUME IInv, ReleaseTrue, pSummary' = pSummary, ReleasePaid \/ ReleaseComplete
  PROVE  /\ ReleaseTrue' /\ Grows(ReleaseWrites)
         /\ IsAccepted => IsAccepted'
<1>1. /\ rpc \in {"paid", "complete"} /\ rFile' = rFile /\ rHand' = rHand
      /\ rSummary' = rSummary /\ UNCHANGED networkVars
      /\ rpc' = IF rpc = "paid" THEN "ESCROW_RELEASED" ELSE "TENDER_COMPLETED"
  BY DEF ReleasePaid, ReleaseComplete
<1>2. Grows({}) /\ ledger' = ledger /\ shown' = shown
  BY <1>1, Untouched DEF IInv, networkVars
<1>3. /\ rHand = 0 /\ pSummary.run # 0 /\ rSummary = 0 /\ rFile.status # "SUCCESS"
      /\ lifecycle.state \in {"POD_ACCEPTED"} \cup Released
  BY <1>1, ReleaseTrueFacts DEF ReleaseWrites
<1>4. /\ rpc = "paid" =>
           lifecycle'.state = IF lifecycle.state = "POD_ACCEPTED" THEN "PAYMENT_RELEASED"
                              ELSE lifecycle.state
      /\ rpc = "complete" =>
           lifecycle'.state = IF lifecycle.state = "PAYMENT_RELEASED" THEN "TENDER_COMPLETED"
                              ELSE lifecycle.state
  <2>1. lifecycle \in [state : LifecycleStates, run : Nat]
    BY PodFacts
  <2> QED BY <2>1 DEF ReleasePaid, ReleaseComplete
<1>5. rpc = "complete" => lifecycle.state \in Released /\ rFile.at["ESCROW_RELEASED"] # 0
  BY DEF ReleaseTrue, PaidPoints
<1>6. /\ lifecycle'.state \in Released
      /\ rpc = "complete" => lifecycle'.state = "TENDER_COMPLETED"
      /\ lifecycle.state = "TENDER_COMPLETED" => lifecycle'.state = "TENDER_COMPLETED"
  BY <1>1, <1>3, <1>4, <1>5 DEF Released
<1>7. PICK m : m = CompletedAt
  OBVIOUS
<1>8. ReleaseTrueLocal(m)
  BY <1>1, <1>3, <1>5, <1>6, <1>7
     DEF ReleaseTrue, ReleaseTrueLocal, CompletedAt, PaidPoints, DonePoints
<1>9. IsAccepted'
  BY <1>6 DEF IsAccepted
<1> QED BY <1>2, <1>8, <1>9, ReleaseTrueQuiet, GrowsMore

(* ReleaseVerify: what is remembered as seen is shown. *)
LEMMA ReleaseVerifiesTrue ==
  ASSUME IInv, ReleaseTrue, pSummary' = pSummary, NEW s \in ReleaseWrites, ReleaseVerify(s)
  PROVE  ReleaseTrue' /\ Grows(ReleaseWrites)
<1> DEFINE seen == rMem.seen \cup {s}
<1>1. /\ rpc = s /\ s \in Executed(rMem) /\ rHand' = rHand /\ rSummary' = rSummary
      /\ lifecycle' = lifecycle /\ UNCHANGED networkVars /\ rpc' = NextPoint(s)
      /\ rFile' = [rMem EXCEPT !.seen = seen]
      /\ s = "TENDER_COMPLETED" => verifyMessageOnMirror(rMem, s)
  BY DEF ReleaseVerify, ReleaseSave
<1>2. Grows({}) /\ ledger' = ledger /\ shown' = shown
  BY <1>1, Untouched DEF IInv, networkVars
<1>3. /\ rMem = rFile /\ rFile \in ReleaseRun /\ pSummary.run # 0 /\ rSummary = 0
      /\ rFile.status # "SUCCESS"
  BY <1>1, ReleaseTrueFacts DEF ReleaseWrites
<1>4. rFile.at[s] # 0 /\ rHand = 0
  BY <1>1, <1>3, ReleaseFacts DEF Executed
<1>5. "TENDER_COMPLETED" \in seen => "TENDER_COMPLETED" \in rFile.seen \/ s = "TENDER_COMPLETED"
  BY <1>3
<1> HIDE DEF seen
<1>6. rFile'.at = rFile.at /\ rFile'.seen = seen /\ rFile'.status = rFile.status
  BY <1>1, <1>3 DEF ReleaseRun
<1>7. PICK m : m = CompletedAt
  OBVIOUS
<1>8. s = "TENDER_COMPLETED" \/ "TENDER_COMPLETED" \in seen => m # 0 /\ m <= shown
  BY <1>1, <1>3, <1>4, <1>5, <1>7
     DEF ReleaseTrue, verifyMessageOnMirror, mirrorVerifyTransaction, CompletedAt
<1>9. /\ s = "release_full" => rpc' = "paid"
      /\ s = "ESCROW_RELEASED" => rpc' = "complete"
      /\ s = "TENDER_COMPLETED" => rpc' = "finish"
  BY <1>1 DEF NextPoint
<1>10. /\ s \in PaidPoints => lifecycle.state \in Released
       /\ s \in DonePoints => lifecycle.state = "TENDER_COMPLETED"
       /\ s \in PaidPoints => rFile.at["ESCROW_RELEASED"] # 0
       /\ m # 0 => LastOnTopic(m) /\ \A r \in ReleaseWrites : rFile.at[r] # 0
       /\ rFile.at["TENDER_COMPLETED"] = m
  BY <1>1, <1>4, <1>7 DEF ReleaseTrue, CompletedAt
<1>11. ReleaseTrueLocal(m)
  BY <1>1, <1>3, <1>4, <1>6, <1>8, <1>9, <1>10
     DEF ReleaseTrueLocal, ReleaseWrites, PaidPoints, DonePoints
<1> QED BY <1>2, <1>11, ReleaseTrueQuiet, GrowsMore

(* ReleaseRecord: TENDER_COMPLETED is recorded as the last on the topic. *)
LEMMA ReleaseRecordsTrue ==
  ASSUME IInv, ReleaseTrue, pSummary' = pSummary, NEW s \in ReleaseWrites, ReleaseRecord(s)
  PROVE  ReleaseTrue' /\ Grows(ReleaseWrites)
<1> DEFINE at == [rMem.at EXCEPT ![s] = rHand]
<1>1. /\ rpc = s /\ rHand # 0 /\ rHand' = 0 /\ rSummary' = rSummary /\ lifecycle' = lifecycle
      /\ UNCHANGED networkVars /\ rFile' = [rMem EXCEPT !.at = at]
      /\ rpc' \in {rpc, "idle"}
  BY DEF ReleaseRecord, ReleaseDies
<1>2. Grows({}) /\ ledger' = ledger /\ shown' = shown
  BY <1>1, Untouched DEF IInv, networkVars
<1>3. /\ rMem = rFile /\ rFile \in ReleaseRun /\ rFile.at \in [ReleaseWrites -> Nat]
      /\ pSummary.run # 0 /\ rSummary = 0
      /\ rFile.status # "SUCCESS" /\ rFile.at[s] = 0
  BY <1>1, ReleaseTrueFacts, ReleaseFacts DEF ReleaseWrites
<1>4. at[s] = rHand /\ \A r \in ReleaseWrites \ {s} : at[r] = rFile.at[r]
  BY <1>3
<1> HIDE DEF at
<1>5. rFile'.at = at /\ rFile'.seen = rFile.seen /\ rFile'.status = rFile.status
  BY <1>1, <1>3 DEF ReleaseRun
<1>6. CompletedAt = 0 /\ "TENDER_COMPLETED" \notin rFile.seen
  BY <1>3 DEF ReleaseTrue
<1>7. CASE s = "TENDER_COMPLETED"
  <2>1. PICK m : m = rHand
    OBVIOUS
  <2>2. LastOnTopic(m) /\ m # 0
    BY <1>1, <1>7, <2>1 DEF ReleaseTrue
  <2>3. rFile.at["ESCROW_RELEASED"] # 0 /\ rFile.at["release_full"] # 0
    BY <1>1, <1>7, ReleaseFacts DEF ReleaseTrue, PaidPoints, ReleasedAt
  <2>4. \A r \in ReleaseWrites : at[r] # 0
    BY <1>1, <1>4, <1>7, <2>3 DEF ReleaseWrites
  <2>5. lifecycle.state = "TENDER_COMPLETED" /\ lifecycle.state \in Released
    BY <1>1, <1>7 DEF ReleaseTrue, DonePoints, PaidPoints
  <2>6. at["TENDER_COMPLETED"] = m /\ at["ESCROW_RELEASED"] # 0
    BY <1>4, <1>7, <2>1, <2>4 DEF ReleaseWrites
  <2>7. ReleaseTrueLocal(m)
    BY <1>1, <1>3, <1>5, <1>6, <1>7, <2>2, <2>4, <2>5, <2>6
       DEF ReleaseTrueLocal, PaidPoints, DonePoints
  <2> QED BY <1>2, <2>7, ReleaseTrueQuiet, GrowsMore
<1>8. CASE s # "TENDER_COMPLETED"
  <2>1. at["TENDER_COMPLETED"] = 0 /\ s \in {"release_full", "ESCROW_RELEASED"}
    BY <1>4, <1>6, <1>8 DEF CompletedAt, ReleaseWrites
  <2>2. rpc \in PaidPoints => lifecycle.state \in Released
    BY DEF ReleaseTrue
  <2>3. ReleaseTrueLocal(0)
    BY <1>1, <1>3, <1>5, <1>6, <2>1, <2>2 DEF ReleaseTrueLocal, PaidPoints, DonePoints
  <2> QED BY <1>2, <2>3, ReleaseTrueQuiet, GrowsMore
<1> QED BY <1>7, <1>8

(* ReleaseSubmit: each message follows the move of the record, and the     *)
(* contract takes one release.                                             *)
LEMMA ReleaseTakenTrue ==
  ASSUME IInv, ReleaseTrue, pSummary' = pSummary, NEW s \in ReleaseWrites,
         rpc = s, s \notin Executed(rMem),
         NEW x \in Nat, s = "release_full" => x = eSummary,
         Accepts(s, x), Reach(Call(s, x, 0)), rHand' = Len(ledger'),
         UNCHANGED <<rpc, rFile, rSummary, lifecycle>>
  PROVE  ReleaseTrue' /\ Grows(ReleaseWrites)
<1> DEFINE w == Call(s, x, 0)
<1>1. w \in Write /\ w.op = s /\ Reach(w) /\ Network /\ ReleaseInv
  BY DEF Call, Write, WriteOps, IInv
<1> HIDE DEF w
<1>0. PICK n : n = Len(ledger')
  OBVIOUS
<1>2. /\ Grows({s}) /\ rHand' = n /\ ledger'[n] = w /\ shown' = shown
      /\ \A i \in Positions : ledger'[i] = ledger[i]
      /\ \A i \in Positions' : i <= n /\ (i \in Positions \/ i = n)
  BY <1>0, <1>1, Reached DEF Reach, Network, Positions
<1>3. /\ rMem = rFile /\ rFile \in ReleaseRun /\ rFile.at \in [ReleaseWrites -> Nat]
      /\ pSummary.run # 0 /\ rSummary = 0 /\ rFile.status # "SUCCESS"
  BY ReleaseTrueFacts DEF ReleaseWrites
<1>4. rFile.at[s] = 0
  BY <1>3 DEF Executed
<1>5. CompletedAt = 0 /\ "TENDER_COMPLETED" \notin rFile.seen /\ CompletedAt' = CompletedAt
  BY <1>4 DEF ReleaseTrue, CompletedAt
<1>6. /\ "ESCROW_RELEASED" \in Ops' => "ESCROW_RELEASED" \in Ops \/ s = "ESCROW_RELEASED"
      /\ "TENDER_COMPLETED" \in Ops' => "TENDER_COMPLETED" \in Ops \/ s = "TENDER_COMPLETED"
  BY <1>1, <1>2, OpsGrow
<1>7. \A i, j \in Positions' : IsRelease(i)' /\ IsRelease(j)' => i = j
  <2>1. \A i \in Positions : IsRelease(i)' <=> IsRelease(i)
    BY <1>2 DEF IsRelease
  <2>2. IsRelease(n)' => s = "release_full"
    BY <1>1, <1>2 DEF IsRelease
  <2>3. s = "release_full" => \A i \in Positions : ~IsRelease(i)
    BY <1>1, FirstRelease
  <2>4. \A i, j \in Positions : IsRelease(i) /\ IsRelease(j) => i = j
    BY DEF ReleaseTrue
  <2> QED BY <1>2, <2>1, <2>2, <2>3, <2>4
<1>8. LastOnTopic(n)' /\ n' = n
  BY <1>2 DEF LastOnTopic
<1>9. /\ rpc' \in PaidPoints \/ "ESCROW_RELEASED" \in Ops' => lifecycle'.state \in Released
      /\ rpc' \in DonePoints \/ "TENDER_COMPLETED" \in Ops' =>
           lifecycle'.state = "TENDER_COMPLETED"
      /\ rpc' \in PaidPoints \ {"ESCROW_RELEASED"} => rFile'.at["ESCROW_RELEASED"] # 0
  BY <1>6 DEF ReleaseTrue, PaidPoints, DonePoints
<1>10. ReleaseTrue'
  BY <1>2, <1>3, <1>5, <1>7, <1>8, <1>9 DEF ReleaseTrue, ReleaseWrites
<1> QED BY <1>2, <1>10, GrowsMore

(* The same, refused or not. *)
LEMMA ReleaseSubmitsTrue ==
  ASSUME IInv, ReleaseTrue, pSummary' = pSummary, NEW s \in ReleaseWrites, ReleaseSubmit(s)
  PROVE  ReleaseTrue' /\ Grows(ReleaseWrites)
<1> DEFINE x == IF s = "release_full" THEN eSummary ELSE Topic
<1>1. x \in Nat /\ (s = "release_full" => x = eSummary)
  BY DEF IInv, EscrowInv, PodInv, IsPodRun, Topic
<1>2. /\ rpc = s /\ s \notin Executed(rMem)
      /\ UNCHANGED <<rFile, rSummary, lifecycle>>
      /\ \/ /\ Accepts(s, x) /\ Reach(Call(s, x, 0)) /\ rHand' = Len(ledger')
            /\ UNCHANGED <<rpc, rMem>>
         \/ ~Accepts(s, x) /\ ReleaseDies /\ UNCHANGED networkVars
         \/ ReleaseFails
  BY DEF ReleaseSubmit
<1> HIDE DEF x
<1>3. CASE ~Accepts(s, x) /\ ReleaseDies /\ UNCHANGED networkVars
  <2>1. Grows({}) /\ ledger' = ledger /\ shown' = shown
    BY <1>3, Untouched DEF IInv, networkVars
  <2>2. pSummary.run # 0
    BY <1>2, ReleaseTrueFacts DEF ReleaseWrites
  <2> QED BY <1>2, <1>3, <2>1, <2>2, ReleaseEndsTrue, GrowsMore DEF ReleaseDies
<1>4. CASE /\ Accepts(s, x) /\ Reach(Call(s, x, 0)) /\ rHand' = Len(ledger')
           /\ UNCHANGED <<rpc, rMem>>
  BY <1>1, <1>2, <1>4, ReleaseTakenTrue
<1>5. CASE ReleaseFails
  <2>1. ReleaseDies /\ Halt("release", 0, FALSE)
    BY <1>5 DEF ReleaseFails
  <2>2. Grows({}) /\ ledger' = ledger /\ shown' = shown
    BY <2>1, Halted DEF IInv
  <2>3. pSummary.run # 0
    BY <1>2, ReleaseTrueFacts DEF ReleaseWrites
  <2> QED BY <1>2, <2>1, <2>2, <2>3, ReleaseEndsTrue, GrowsMore DEF ReleaseDies
<1> QED BY <1>2, <1>3, <1>4, <1>5

(* Every step of Phase E1. *)
LEMMA ReleaseStaysTrue ==
  ASSUME IInv, Truthful, OfRelease(ReleaseNext)
  PROVE  Truthful'
<1>1. Network /\ EscrowInv /\ ReleaseNext /\ ReleaseTrue
  BY DEF IInv, OfRelease, Truthful
<1>2. /\ UNCHANGED accessVars /\ UNCHANGED escrowVars /\ UNCHANGED podLocal
      /\ eSummary' = eSummary /\ aSummary' = aSummary /\ pSummary' = pSummary
  BY DEF OfRelease, accessVars, escrowVars, podLocal
<1>3. ReleaseTrue' /\ Grows(ReleaseWrites)
  BY <1>1, <1>2, ReleaseStartsTrue, ReleaseSucceedsTrue, ReleaseConcludesTrue,
     ReleasePaysTrue, ReleaseVerifiesTrue, ReleaseRecordsTrue, ReleaseSubmitsTrue
     DEF ReleaseNext, ReleaseProgress
<1>4. IsAccepted => IsAccepted'
  <2>1. CASE ReleasePaid \/ ReleaseComplete
    BY <1>1, <1>2, <2>1, ReleasePaysTrue
  <2>2. CASE lifecycle' = lifecycle
    BY <2>2 DEF IsAccepted
  <2>3. lifecycle' = lifecycle \/ ReleasePaid \/ ReleaseComplete
    BY <1>1 DEF ReleaseNext, ReleaseProgress, ReleaseStart, ReleaseEvidenceOnly,
       ReleaseSubmit, ReleaseRecord, ReleaseVerify, ReleaseSuccess, ReleaseEvidence,
       ReleaseStops
  <2> QED BY <2>1, <2>2, <2>3
<1>5. AccessTrue'
  BY <1>1, <1>2, <1>3, AccessTrueFrame DEF Truthful
<1>6. EscrowTrue'
  BY <1>1, <1>2, <1>3, EscrowTrueFrame DEF Truthful
<1>7. PodTrue'
  BY <1>1, <1>2, <1>3, <1>4, PodTrueFrame DEF Truthful, ReleaseWrites, SameEscrow
<1> QED BY <1>3, <1>5, <1>6, <1>7 DEF Truthful

-----------------------------------------------------------------------------
(* A step that leaves every script and the ledger alone. *)
LEMMA RestStaysTrue ==
  ASSUME IInv, Truthful, Grows({}), UNCHANGED ledger, UNCHANGED <<accessVars, laterVars>>
  PROVE  Truthful'
<1>1. Network /\ EscrowInv /\ ReleaseInv
  BY DEF IInv
<1>2. /\ UNCHANGED accessVars /\ UNCHANGED escrowVars /\ UNCHANGED podLocal
      /\ UNCHANGED releaseVars /\ lifecycle' = lifecycle /\ pSummary' = pSummary
      /\ eSummary' = eSummary /\ aSummary' = aSummary
  BY DEF laterVars, accessVars, escrowVars, podVars, podLocal
<1>3. AccessTrue'
  BY <1>1, <1>2, AccessTrueFrame DEF Truthful
<1>4. EscrowTrue'
  BY <1>1, <1>2, EscrowTrueFrame DEF Truthful
<1>5. PodTrue'
  BY <1>1, <1>2, PodTrueFrame DEF Truthful, IsAccepted, SameEscrow
<1>6. ReleaseTrue'
  BY <1>1, <1>2, ReleaseTrueFrame DEF Truthful
<1> QED BY <1>3, <1>4, <1>5, <1>6 DEF Truthful

(* Nothing is reported before a script has run. *)
LEMMA InitTrue == Init => Truthful
<1> SUFFICES ASSUME Init PROVE Truthful
  OBVIOUS
<1>1. ledger = <<>> /\ Len(ledger) = 0 /\ Positions = {} /\ Ops = {}
  BY DEF Init, NetworkInit, Positions, Ops
<1>2. AccessTrue
  <2>1. NewRun.activation = "NONE" /\ NewRun.bid = "NONE"
    BY DEF NewRun
  <2> QED BY <2>1 DEF Init, AccessInit, AccessTrue
<1>3. EscrowTrue
  <2>1. NoRun.status = "NONE"
    BY DEF NoRun
  <2> QED BY <2>1, FreshRuns DEF Init, EscrowInit, EscrowTrue
<1>4. PodTrue
  <2>1. /\ ~NoPodRun.accepted /\ NoPodRun.at["topic_create"] = 0
        /\ NoPodRun.status = "NONE" /\ NoPodRun.run = 0
    BY DEF NoPodRun, PodWrites
  <2> QED BY <1>1, <2>1 DEF Init, PodInit, PodTrue
<1>5. ReleaseTrue
  <2>1. NoRelease.at["TENDER_COMPLETED"] = 0 /\ NoRelease.seen = {}
        /\ NoRelease.status = "NONE"
    BY DEF NoRelease, ReleaseWrites
  <2>2. lifecycle.state = "NONE" /\ "NONE" \notin Released
    BY DEF Init, PodInit, Released
  <2> QED BY <1>1, <2>1, <2>2
          DEF Init, ReleaseInit, ReleaseTrue, CompletedAt, PaidPoints, DonePoints
<1> QED BY <1>2, <1>3, <1>4, <1>5 DEF Truthful

(* Every step keeps it. *)
LEMMA NextStaysTrue == IInv /\ Truthful /\ [Next]_vars => Truthful'
<1> SUFFICES ASSUME IInv, Truthful, [Next]_vars PROVE Truthful'
  OBVIOUS
<1>1. CASE OfAccess(AccessNext)
  BY <1>1, AccessStaysTrue
<1>2. CASE OfEscrow(EscrowNext)
  BY <1>2, EscrowStaysTrue
<1>3. CASE OfPod(PodNext)
  BY <1>3, PodStaysTrue
<1>4. CASE OfRelease(ReleaseNext)
  BY <1>4, ReleaseStaysTrue
<1>5. CASE MirrorStep
  BY <1>5, Mirrored, RestStaysTrue DEF MirrorStep, MirrorShows, IInv
<1>6. CASE UNCHANGED vars
  BY <1>6, Untouched, RestStaysTrue DEF vars, networkVars, IInv
<1> QED BY <1>1, <1>2, <1>3, <1>4, <1>5, <1>6 DEF Next

(* The second invariant holds of every behaviour of the four scripts. *)
THEOREM TruthfulAlways == Spec => []Truthful
<1>1. Init => IInv /\ Truthful
  BY InitHolds, InitTrue
<1>2. (IInv /\ Truthful) /\ [Next]_vars => (IInv /\ Truthful)'
  BY NextPreserves, NextStaysTrue
<1> QED BY <1>1, <1>2, PTL DEF Spec

(* A finished Phase E1 has released the freight once. *)
LEMMA OneRelease ==
  ASSUME IInv, Truthful, lifecycle.state \in Released
  PROVE  /\ "release_full" \in Ops
         /\ Cardinality({i \in Positions : ledger[i].op = "release_full"}) = 1
<1>1. "release_full" \in CallsOn(eSummary, shown)
  BY DEF IInv, LifecycleInv, Released_, ContractState
<1>2. PICK i \in Positions : IsRelease(i)
  BY <1>1 DEF CallsOn, WritesOn, Positions, IsRelease, IInv, Network
<1>3. {j \in Positions : ledger[j].op = "release_full"} = {i}
  BY <1>2 DEF Truthful, ReleaseTrue, IsRelease
<1>4. Cardinality({i}) = 1
  BY FS_Singleton
<1> QED BY <1>2, <1>3, <1>4 DEF Ops, IsRelease

(* What the four scripts report is so: the messages on the topic, in the   *)
(* evidence the settled fees, the contract that runs the compiled code and *)
(* holds the allocation, and the one release with the five messages.       *)
THEOREM ReportsAlwaysTrue == Spec => []ReportedIsTrue
<1>1. IInv /\ Truthful => ReportedIsTrue
  <2> SUFFICES ASSUME IInv, Truthful PROVE ReportedIsTrue
    OBVIOUS
  <2>1. "POD_REVIEW_ACTION" \in Ops => lifecycle.state \in {"POD_ACCEPTED"} \cup Released
    BY DEF Truthful, PodTrue, IsAccepted
  <2>2. "ESCROW_RELEASED" \in Ops => "release_full" \in Ops /\ lifecycle.state \in Released
    BY OneRelease DEF Truthful, ReleaseTrue
  <2>3. "TENDER_COMPLETED" \in Ops => lifecycle.state = "TENDER_COMPLETED"
    BY DEF Truthful, ReleaseTrue
  <2>4. aSummary = 1 => /\ AccessWrites \subseteq Ops
                        /\ aRun.activation = "COMMITTED" /\ aRun.bid = "COMMITTED"
    BY DEF Truthful, AccessTrue, AccessWrites
  <2>5. eSummary # 0 =>
          /\ Sound(eSummary)
          /\ ContractState(eSummary, Len(ledger)) \in {"ALLOCATED", "RELEASED"}
    BY DEF Truthful, EscrowTrue, ContractState
  <2>6. rSummary = 1 =>
          /\ Messages(Topic, Len(ledger)) = ExpectedOrder
          /\ lifecycle.state = "TENDER_COMPLETED"
    BY DEF Truthful, ReleaseTrue
  <2>7. lifecycle.state = "TENDER_COMPLETED" =>
          Cardinality({i \in Positions : ledger[i].op = "release_full"}) = 1
    BY OneRelease DEF Released
  <2> QED BY <2>1, <2>2, <2>3, <2>4, <2>5, <2>6, <2>7 DEF ReportedIsTrue
<1> QED BY <1>1, InvariantAlways, TruthfulAlways, PTL
==============================================================================
