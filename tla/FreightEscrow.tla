---------------------------- MODULE FreightEscrow ----------------------------
(***************************************************************************)
(* The freight escrow contract (contracts/RouteGuardFreightEscrowBase.sol  *)
(* with the HTS token boundary of RouteGuardFreightEscrow.sol): tenders    *)
(* are registered by the operator, funded by their shipper with exactly    *)
(* the maximum budget, allocated to a winner (the excess goes back at      *)
(* once) and settled once, in full, in part or as a refund.                *)
(*                                                                         *)
(* One call of the contract is one step.  Every state-changing function is *)
(* nonReentrant and a failed HTS transfer reverts the whole transaction,   *)
(* so a call that fails is a call that changes nothing.                    *)
(***************************************************************************)
EXTENDS Integers

CONSTANTS
  NTenders,      \* number of distinct (tenderIdHash, tenderVersion) pairs
  Accounts,      \* every address but the contract itself and address(0)
  ZeroAddress,   \* address(0)
  Escrow,        \* the contract's own token account
  Hashes,        \* non-zero authorization hashes
  Manifests,     \* non-zero decision manifest hashes
  ZeroHash,      \* bytes32(0)
  MaxHts,        \* MAX_HTS_AMOUNT, the largest amount HTS can move
  Supply         \* tokens each account holds at first

ASSUME EscrowConstants ==
  /\ NTenders \in Nat
  /\ MaxHts \in Nat
  /\ Supply \in Nat
  /\ ZeroAddress \notin Accounts
  /\ Escrow \notin Accounts \cup {ZeroAddress}
  /\ ZeroHash \notin Hashes
  /\ ZeroHash \notin Manifests

VARIABLES
  tenders,                \* _tenders: tender key -> TenderEscrow
  authorizationHashUsed,  \* the hashes consumed so far, over all tenders
  totalEscrowedAmount,
  owner, pendingOwner,    \* Ownable2Step
  associated,             \* HTS: the contract can hold the escrow token
  token,                  \* HTS: balance of every account
  paid                    \* history, from the events: what a tender put in and
                          \* paid out, and the hash it was allocated under

vars == <<tenders, authorizationHashUsed, totalEscrowedAmount, owner,
          pendingOwner, associated, token, paid>>

Tenders == 1..NTenders
Amounts == 0..MaxHts
Addresses == Accounts \cup {ZeroAddress}

(***************************************************************************)
(* Arguments of a call: the amounts are uint256, so a call may carry one   *)
(* more than HTS can move.  A tender key that is not the hash of its       *)
(* preimage, a zero tenderIdHash and a zero tenderVersion are preimage 0.  *)
(***************************************************************************)
AmountArgs == 0..(MaxHts + 1)
HashArgs == Hashes \cup {ZeroHash}
Preimages == 0..NTenders

EscrowState == {"UNREGISTERED", "REGISTERED", "FUNDED", "ALLOCATED",
                "DISPUTED", "RELEASED", "REFUNDED", "PARTIALLY_RELEASED"}
Settled == {"RELEASED", "REFUNDED", "PARTIALLY_RELEASED"}

TenderEscrow ==
  [state: EscrowState, shipper: Addresses, winner: Addresses,
   maxBudget: Amounts, fundedAmount: Amounts, lockedAmount: Amounts,
   excessRefunded: Amounts, creationAuthHash: HashArgs,
   decisionManifestHash: Manifests \cup {ZeroHash},
   disputeAuthHash: HashArgs, settlementAuthHash: HashArgs]

NoTender ==
  [state |-> "UNREGISTERED", shipper |-> ZeroAddress, winner |-> ZeroAddress,
   maxBudget |-> 0, fundedAmount |-> 0, lockedAmount |-> 0,
   excessRefunded |-> 0, creationAuthHash |-> ZeroHash,
   decisionManifestHash |-> ZeroHash, disputeAuthHash |-> ZeroHash,
   settlementAuthHash |-> ZeroHash]

Payments == [in: Nat, shipper: Nat, winner: Nat, allocation: HashArgs]

(* Amount the contract still holds for one tender. *)
tenderBalance(k) ==
  CASE tenders[k].state = "FUNDED" -> tenders[k].fundedAmount
    [] tenders[k].state \in {"ALLOCATED", "DISPUTED"} -> tenders[k].lockedAmount
    [] OTHER -> 0

constructor ==
  /\ owner \in Accounts
  /\ pendingOwner = ZeroAddress
  /\ tenders = [k \in Tenders |-> NoTender]
  /\ authorizationHashUsed = {}
  /\ totalEscrowedAmount = 0

Init ==
  /\ constructor
  /\ associated = FALSE
  /\ token = [a \in Accounts \cup {Escrow} |-> IF a = Escrow THEN 0 ELSE Supply]
  /\ paid = [k \in Tenders |-> [in |-> 0, shipper |-> 0, winner |-> 0, allocation |-> ZeroHash]]

-----------------------------------------------------------------------------
(* Internals *)

onlyOwner(sender) == sender = owner

(* Mutant: any registered tender passes the state check. *)
AnyStateAccepted(k, expected) == tenders[k].state # "UNREGISTERED" \/ expected = "UNREGISTERED"

_requireState(k, expected) == tenders[k].state = expected

(* Mutant: the used-hash check is forgotten. *)
UsedHashAccepted(h) ==
  /\ h # ZeroHash
  /\ authorizationHashUsed' = authorizationHashUsed \cup {h}

(* Every caller rejects the zero hash first. *)
_consumeAuthorizationHash(h) ==
  /\ h # ZeroHash
  /\ h \notin authorizationHashUsed
  /\ authorizationHashUsed' = authorizationHashUsed \cup {h}

(* HTS moves amount if the sender has it; any other response code reverts. *)
_transferIn(from, amount) ==
  /\ associated
  /\ token[from] >= amount
  /\ token' = [token EXCEPT ![from] = @ - amount, ![Escrow] = @ + amount]

(***************************************************************************)
(* _transferOut to the shipper and to the winner; a leg of zero is         *)
(* skipped by the callers.                                                 *)
(***************************************************************************)
_transferOut(shipper, toShipper, winner, toWinner) ==
  /\ token[Escrow] >= toShipper + toWinner
  /\ token' = [a \in DOMAIN token |->
                 token[a]
                 + (IF a = shipper THEN toShipper ELSE 0)
                 + (IF a = winner THEN toWinner ELSE 0)
                 - (IF a = Escrow THEN toShipper + toWinner ELSE 0)]

(* Mutant: the running total is not reduced. *)
TotalKept(amount) == UNCHANGED totalEscrowedAmount

(* totalEscrowedAmount -= amount, in Solidity's checked arithmetic. *)
ReduceTotal(amount) ==
  /\ totalEscrowedAmount >= amount
  /\ totalEscrowedAmount' = totalEscrowedAmount - amount

-----------------------------------------------------------------------------
(* The contract's functions *)

registerTender(sender, k, preimage, shipper, maxBudget, h) ==
  /\ onlyOwner(sender)
  /\ _requireState(k, "UNREGISTERED")
  /\ shipper # ZeroAddress
  /\ maxBudget > 0 /\ maxBudget <= MaxHts
  /\ k = preimage
  /\ _consumeAuthorizationHash(h)
  /\ tenders' = [tenders EXCEPT ![k].state = "REGISTERED",
                                ![k].shipper = shipper,
                                ![k].maxBudget = maxBudget,
                                ![k].creationAuthHash = h]
  /\ UNCHANGED <<totalEscrowedAmount, owner, pendingOwner, associated, token,
                 paid>>

(* Exact funding: underfunding and overfunding are both rejected. *)
fundTender(sender, k, amount) ==
  /\ _requireState(k, "REGISTERED")
  /\ sender = tenders[k].shipper
  /\ amount = tenders[k].maxBudget
  /\ tenders' = [tenders EXCEPT ![k].state = "FUNDED",
                                ![k].fundedAmount = amount]
  /\ totalEscrowedAmount' = totalEscrowedAmount + amount
  /\ _transferIn(sender, amount)
  /\ paid' = [paid EXCEPT ![k].in = paid[k].in + amount]
  /\ UNCHANGED <<authorizationHashUsed, owner, pendingOwner, associated>>

allocateWinner(sender, k, winner, winningAmount, manifest, h) ==
  LET t == tenders[k]
      excess == t.fundedAmount - winningAmount IN
  /\ onlyOwner(sender)
  /\ _requireState(k, "FUNDED")
  /\ winner # ZeroAddress
  /\ winningAmount > 0 /\ winningAmount <= MaxHts
  /\ winningAmount <= t.fundedAmount
  /\ manifest # ZeroHash
  /\ _consumeAuthorizationHash(h)
  /\ tenders' = [tenders EXCEPT ![k].state = "ALLOCATED",
                                ![k].winner = winner,
                                ![k].lockedAmount = winningAmount,
                                ![k].excessRefunded = excess,
                                ![k].decisionManifestHash = manifest]
  /\ ReduceTotal(excess)
  /\ _transferOut(t.shipper, excess, winner, 0)
  /\ paid' = [paid EXCEPT ![k].shipper = paid[k].shipper + excess,
                          ![k].allocation = h]
  /\ UNCHANGED <<owner, pendingOwner, associated>>

(***************************************************************************)
(* The five functions that settle a tender share everything but the state  *)
(* they start from, the one they end in and who receives what.             *)
(***************************************************************************)
SettleTender(sender, k, before, after, toShipper, toWinner, h) ==
  LET t == tenders[k] IN
  /\ onlyOwner(sender)
  /\ _requireState(k, before)
  /\ _consumeAuthorizationHash(h)
  /\ tenders' = [tenders EXCEPT ![k].state = after,
                                ![k].settlementAuthHash = h]
  /\ ReduceTotal(toShipper + toWinner)
  /\ _transferOut(t.shipper, toShipper, t.winner, toWinner)
  /\ paid' = [paid EXCEPT ![k] = [in |-> paid[k].in,
                                  shipper |-> paid[k].shipper + toShipper,
                                  winner |-> paid[k].winner + toWinner,
                                  allocation |-> paid[k].allocation]]
  /\ UNCHANGED <<owner, pendingOwner, associated>>

refundNoQualifiedBid(sender, k, h) ==
  SettleTender(sender, k, "FUNDED", "REFUNDED", tenders[k].fundedAmount, 0, h)

(* ALLOCATED only: once a dispute is open the ordinary path is closed. *)
releaseFull(sender, k, h) ==
  SettleTender(sender, k, "ALLOCATED", "RELEASED", 0, tenders[k].lockedAmount, h)

openDispute(sender, k, h) ==
  /\ onlyOwner(sender)
  /\ _requireState(k, "ALLOCATED")
  /\ _consumeAuthorizationHash(h)
  /\ tenders' = [tenders EXCEPT ![k].state = "DISPUTED",
                                ![k].disputeAuthHash = h]
  /\ UNCHANGED <<totalEscrowedAmount, owner, pendingOwner, associated, token,
                 paid>>

resolveDisputeRelease(sender, k, h) ==
  SettleTender(sender, k, "DISPUTED", "RELEASED", 0, tenders[k].lockedAmount, h)

(* Mutant: the excess, already refunded at allocation, is refunded again. *)
refundFullOfBudget(sender, k, h) ==
  SettleTender(sender, k, "DISPUTED", "REFUNDED", tenders[k].fundedAmount, 0, h)

refundFull(sender, k, h) ==
  SettleTender(sender, k, "DISPUTED", "REFUNDED", tenders[k].lockedAmount, 0, h)

(* Mutant: the two legs need not add up to the locked amount. *)
partialReleaseUnderLocked(sender, k, winnerAmount, shipperAmount, h) ==
  /\ winnerAmount + shipperAmount > 0
  /\ winnerAmount + shipperAmount <= tenders[k].lockedAmount
  /\ SettleTender(sender, k, "DISPUTED", "PARTIALLY_RELEASED",
                  shipperAmount, winnerAmount, h)

(* Amounts must conserve the locked amount; one leg may be zero, not both. *)
partialRelease(sender, k, winnerAmount, shipperAmount, h) ==
  /\ winnerAmount <= MaxHts /\ shipperAmount <= MaxHts
  /\ ~(winnerAmount = 0 /\ shipperAmount = 0)
  /\ winnerAmount + shipperAmount = tenders[k].lockedAmount
  /\ SettleTender(sender, k, "DISPUTED", "PARTIALLY_RELEASED",
                  shipperAmount, winnerAmount, h)

associateEscrowToken(sender) ==
  /\ onlyOwner(sender)
  /\ associated' = TRUE
  /\ UNCHANGED <<tenders, authorizationHashUsed, totalEscrowedAmount, owner,
                 pendingOwner, token, paid>>

-----------------------------------------------------------------------------
(* OpenZeppelin's Ownable2Step, which the contract inherits *)

transferOwnership(sender, newOwner) ==
  /\ onlyOwner(sender)
  /\ pendingOwner' = newOwner
  /\ UNCHANGED <<tenders, authorizationHashUsed, totalEscrowedAmount, owner,
                 associated, token, paid>>

acceptOwnership(sender) ==
  /\ sender = pendingOwner
  /\ owner' = sender
  /\ pendingOwner' = ZeroAddress
  /\ UNCHANGED <<tenders, authorizationHashUsed, totalEscrowedAmount,
                 associated, token, paid>>

renounceOwnership(sender) ==
  /\ onlyOwner(sender)
  /\ owner' = ZeroAddress
  /\ pendingOwner' = ZeroAddress
  /\ UNCHANGED <<tenders, authorizationHashUsed, totalEscrowedAmount,
                 associated, token, paid>>

-----------------------------------------------------------------------------

TenderCall(sender, k) ==
  \/ \E p \in Preimages, s \in Addresses, b \in AmountArgs, h \in HashArgs :
       registerTender(sender, k, p, s, b, h)
  \/ \E a \in AmountArgs : fundTender(sender, k, a)
  \/ \E w \in Addresses, a \in AmountArgs, m \in Manifests \cup {ZeroHash},
        h \in HashArgs : allocateWinner(sender, k, w, a, m, h)
  \/ \E h \in HashArgs : refundNoQualifiedBid(sender, k, h)
  \/ \E h \in HashArgs : releaseFull(sender, k, h)
  \/ \E h \in HashArgs : openDispute(sender, k, h)
  \/ \E h \in HashArgs : resolveDisputeRelease(sender, k, h)
  \/ \E h \in HashArgs : refundFull(sender, k, h)
  \/ \E w, s \in AmountArgs, h \in HashArgs : partialRelease(sender, k, w, s, h)

AdminCall(sender) ==
  \/ associateEscrowToken(sender)
  \/ \E a \in Addresses : transferOwnership(sender, a)
  \/ acceptOwnership(sender)
  \/ renounceOwnership(sender)

Next ==
  \E sender \in Accounts :
    \/ \E k \in Tenders : TenderCall(sender, k)
    \/ AdminCall(sender)

Spec == Init /\ [][Next]_vars

-----------------------------------------------------------------------------
(* Properties *)

(* Every variable of the contract and of the token ledger keeps its type;  *)
(* the amounts stay in the range HTS can move (uint64 never wraps int64).  *)
TypeOK ==
  /\ tenders \in [Tenders -> TenderEscrow]
  /\ authorizationHashUsed \subseteq Hashes
  /\ totalEscrowedAmount \in Nat
  /\ owner \in Addresses
  /\ pendingOwner \in Addresses
  /\ associated \in BOOLEAN
  /\ token \in [Accounts \cup {Escrow} -> Nat]
  /\ paid \in [Tenders -> Payments]

(***************************************************************************)
(* total is the sum of the balances: some function of partial sums starts  *)
(* at 0, grows by each tender's balance in turn and ends in total.         *)
(***************************************************************************)
PartialSums(ps) ==
  /\ ps[0] = 0
  /\ \A k \in Tenders : ps[k] = ps[k - 1] + tenderBalance(k)

(* "Sum of all unsettled tender balances held by this contract": the       *)
(* running counter that fundTender, allocateWinner and the settlements     *)
(* update is the sum of tenderBalance over all tenders.                    *)
TotalIsSumOfBalances ==
  \E ps \in [0..NTenders -> 0..totalEscrowedAmount] :
    /\ PartialSums(ps)
    /\ ps[NTenders] = totalEscrowedAmount

(* The tokens the contract holds at HTS are exactly what it says it holds, *)
(* after any order of calls on any of its tenders.                         *)
TokensBackTotal == token[Escrow] = totalEscrowedAmount

(* What a shipper put into a tender is what the contract still holds for   *)
(* it plus what was paid to the shipper and to the winner; the split at    *)
(* allocation adds up to the funded amount.                                *)
TenderConserved ==
  \A k \in Tenders :
    /\ paid[k].in = tenderBalance(k) + paid[k].shipper + paid[k].winner
    /\ tenders[k].winner # ZeroAddress =>
         tenders[k].lockedAmount + tenders[k].excessRefunded
           = tenders[k].fundedAmount

(* Every settlement of an unsettled tender is covered: neither the checked *)
(* subtraction from totalEscrowedAmount nor the HTS transfer of the whole  *)
(* balance can revert, so the operator can always pay a tender out.        *)
SettlementCovered ==
  \A k \in Tenders :
    /\ tenderBalance(k) <= totalEscrowedAmount
    /\ tenderBalance(k) <= token[Escrow]

(* What a tender is authorized for: three hashes are kept in its record,   *)
(* that of the allocation only in the event WinnerAllocated.               *)
AuthSlots == {"creation", "allocation", "dispute", "settlement"}

AuthHash(k, slot) ==
  CASE slot = "creation" -> tenders[k].creationAuthHash
    [] slot = "allocation" -> paid[k].allocation
    [] slot = "dispute" -> tenders[k].disputeAuthHash
    [] slot = "settlement" -> tenders[k].settlementAuthHash

(* An authorization hash consumed anywhere is never accepted again, for    *)
(* another operation or for another tender.                                *)
AuthorizationSingleUse ==
  \A k1, k2 \in Tenders, s1, s2 \in AuthSlots :
    /\ AuthHash(k1, s1) # ZeroHash
    /\ AuthHash(k1, s1) = AuthHash(k2, s2)
    => k1 = k2 /\ s1 = s2

(* A settled tender is final: no later call changes its record or moves    *)
(* tokens on its account again.                                            *)
SettledIsFinal ==
  [][\A k \in Tenders : tenders[k].state \in Settled =>
       tenders'[k] = tenders[k] /\ paid'[k] = paid[k]]_vars
=============================================================================
