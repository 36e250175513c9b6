------------------------- MODULE FreightEscrowProofs -------------------------
(***************************************************************************)
(* Proofs that the escrow contract keeps its books for any number of       *)
(* tenders, accounts and hashes and any amounts.                           *)
(***************************************************************************)
EXTENDS EscrowMoney, TLAPS

-----------------------------------------------------------------------------
(***************************************************************************)
(* Sums.  Partial sums that are also monotone are preserved when one term  *)
(* changes, which needs no induction over the tenders.                     *)
(***************************************************************************)
IsSum(b, ps) ==
  /\ ps \in [0..NTenders -> Nat]
  /\ ps[0] = 0
  /\ \A i \in Tenders : ps[i] = ps[i - 1] + b[i]
  /\ \A i, j \in 0..NTenders : i <= j => ps[i] <= ps[j]

(* Changing the k-th of the summed balances by some amount changes the     *)
(* sum by that amount: the fact behind totalEscrowedAmount += and -=.      *)
LEMMA SumUpdate ==
  ASSUME NEW b \in [Tenders -> Nat], NEW c \in [Tenders -> Nat],
         NEW k \in Tenders, \A j \in Tenders \ {k} : c[j] = b[j],
         NEW ps, IsSum(b, ps)
  PROVE  \E qs : IsSum(c, qs) /\ qs[NTenders] = ps[NTenders] + c[k] - b[k]
<1> DEFINE qs == [i \in 0..NTenders |->
                    IF i < k THEN ps[i] ELSE ps[i] + c[k] - b[k]]
<1>0. NTenders \in Nat /\ k \in 1..NTenders
  BY EscrowConstants DEF Tenders
<1>1. \A i \in 0..NTenders : i >= k => ps[i] >= ps[k - 1] + b[k]
  <2> SUFFICES ASSUME NEW i \in 0..NTenders, i >= k
               PROVE  ps[i] >= ps[k - 1] + b[k]
    OBVIOUS
  <2>1. ps[k] = ps[k - 1] + b[k]
    BY DEF IsSum
  <2>2. ps[k] <= ps[i]
    BY <1>0 DEF IsSum
  <2>3. ps[i] \in Nat /\ ps[k] \in Nat
    BY <1>0 DEF IsSum
  <2> QED BY <2>1, <2>2, <2>3
<1>2. qs \in [0..NTenders -> Nat]
  <2> SUFFICES ASSUME NEW i \in 0..NTenders PROVE qs[i] \in Nat
    BY DEF qs
  <2>1. ps[i] \in Nat /\ ps[k - 1] \in Nat /\ b[k] \in Nat /\ c[k] \in Nat
    BY <1>0 DEF IsSum
  <2> QED BY <1>0, <1>1, <2>1
<1>3. qs[0] = 0
  BY <1>0 DEF IsSum
<1>4. ASSUME NEW i \in Tenders PROVE qs[i] = qs[i - 1] + c[i]
  <2>0. i \in 0..NTenders /\ i - 1 \in 0..NTenders /\ i \in Int
    BY <1>0 DEF Tenders
  <2>1. ps[i] = ps[i - 1] + b[i] /\ ps[i] \in Nat /\ ps[i - 1] \in Nat
    BY <2>0 DEF IsSum
  <2>2. b[i] \in Nat /\ c[i] \in Nat /\ b[k] \in Nat /\ c[k] \in Nat
    OBVIOUS
  <2>3. CASE i = k
    BY <1>0, <2>0, <2>1, <2>2, <2>3
  <2>4. CASE i # k
    BY <1>0, <2>0, <2>1, <2>2, <2>4
  <2> QED BY <2>3, <2>4
<1>5. ASSUME NEW i \in 0..NTenders, NEW j \in 0..NTenders, i <= j
      PROVE  qs[i] <= qs[j]
  <2>1. /\ ps[i] <= ps[j] /\ ps[i] \in Nat /\ ps[j] \in Nat
        /\ ps[k - 1] \in Nat /\ b[k] \in Nat /\ c[k] \in Nat
    BY <1>0, <1>5 DEF IsSum
  <2>2. CASE i < k /\ j >= k
    <3>1. ps[i] <= ps[k - 1]
      BY <1>0, <2>2 DEF IsSum
    <3>2. ps[j] >= ps[k - 1] + b[k]
      BY <1>1, <2>2
    <3> QED BY <1>0, <2>1, <2>2, <3>1, <3>2
  <2>3. CASE i >= k /\ j >= k
    BY <1>0, <2>1, <2>3
  <2>4. CASE j < k
    BY <1>0, <1>5, <2>1, <2>4
  <2> QED BY <1>0, <2>2, <2>3, <2>4
<1>6. qs[NTenders] = ps[NTenders] + c[k] - b[k]
  BY <1>0
<1>7. IsSum(c, qs)
  BY <1>2, <1>3, <1>4, <1>5 DEF IsSum
<1> QED BY <1>6, <1>7

(* A sum of balances is at least each of them, which is why no settlement  *)
(* can underflow the running total.                                        *)
LEMMA TermBelowSum ==
  ASSUME NEW b \in [Tenders -> Nat], NEW k \in Tenders, NEW ps, IsSum(b, ps)
  PROVE  b[k] <= ps[NTenders]
<1>0. NTenders \in Nat /\ k \in 1..NTenders
  BY EscrowConstants DEF Tenders
<1>1. ps[k] = ps[k - 1] + b[k] /\ ps[k - 1] \in Nat /\ ps[k] \in Nat
  BY <1>0 DEF IsSum
<1>2. ps[k] <= ps[NTenders] /\ ps[NTenders] \in Nat
  BY <1>0 DEF IsSum
<1> QED BY <1>1, <1>2

-----------------------------------------------------------------------------
(***************************************************************************)
(* The inductive invariant                                                 *)
(***************************************************************************)
Balances == [k \in Tenders |-> tenderBalance(k)]

(* The running total is a monotone sum of the balances. *)
SumInv == \E ps : IsSum(Balances, ps) /\ ps[NTenders] = totalEscrowedAmount

(* What the state of a tender says about its other fields. *)
RecordShape ==
  \A k \in Tenders :
    /\ tenders[k].state \in {"UNREGISTERED", "REGISTERED", "FUNDED"} =>
         tenders[k].winner = ZeroAddress
    /\ tenders[k].state \notin Settled => paid[k].winner = 0
    /\ tenders[k].state = "DISPUTED" => tenders[k].disputeAuthHash # ZeroHash
    /\ paid[k].winner <= tenders[k].lockedAmount

(* Every stored authorization hash has been consumed. *)
HashesConsumed ==
  \A k \in Tenders, s \in AuthSlots :
    AuthHash(k, s) # ZeroHash => AuthHash(k, s) \in authorizationHashUsed

BooksInv ==
  /\ TypeOK
  /\ SumInv
  /\ TokensBackTotal
  /\ TenderConserved
  /\ RecordShape

(* A tender's balance is a natural number, within what was funded. *)
LEMMA BalanceType ==
  ASSUME TypeOK
  PROVE  Balances \in [Tenders -> Nat]
BY EscrowConstants
   DEF TypeOK, Balances, tenderBalance, TenderEscrow, Amounts

(* The constructor leaves nothing in any tender and no token in escrow. *)
LEMMA InitBooks == Init => BooksInv
<1> SUFFICES ASSUME Init PROVE BooksInv
  OBVIOUS
<1> USE EscrowConstants
<1>1. TypeOK
  <2>1. NoTender \in TenderEscrow
    BY DEF TenderEscrow, NoTender, Addresses, Amounts, HashArgs, EscrowState
  <2>2. tenders \in [Tenders -> TenderEscrow]
    BY <2>1 DEF Init, constructor
  <2>3. paid \in [Tenders -> Payments]
    BY DEF Init, Payments, HashArgs
  <2>4. token \in [Accounts \cup {Escrow} -> Nat]
    BY DEF Init
  <2> QED BY <2>2, <2>3, <2>4 DEF Init, constructor, TypeOK, Addresses
<1>2. \A k \in Tenders : tenderBalance(k) = 0
  BY DEF Init, constructor, NoTender, tenderBalance
<1>3. SumInv
  <2> DEFINE ps == [i \in 0..NTenders |-> 0]
  <2>1. IsSum(Balances, ps)
    BY <1>2 DEF IsSum, Balances, Tenders
  <2>2. ps[NTenders] = totalEscrowedAmount
    BY DEF Init, constructor
  <2> QED BY <2>1, <2>2 DEF SumInv
<1>4. TokensBackTotal
  BY DEF Init, constructor, TokensBackTotal
<1>5. TenderConserved
  BY <1>2 DEF Init, constructor, NoTender, TenderConserved
<1>6. RecordShape
  BY DEF Init, constructor, NoTender, RecordShape, Settled
<1> QED BY <1>1, <1>3, <1>4, <1>5, <1>6 DEF BooksInv

(* A call that changes one tender and moves the running total by the       *)
(* change of that tender's balance keeps the total equal to the sum.       *)
LEMMA SumStep ==
  ASSUME TypeOK, TypeOK', SumInv, NEW k \in Tenders,
         \A j \in Tenders \ {k} : tenders'[j] = tenders[j],
         totalEscrowedAmount'
           = totalEscrowedAmount + tenderBalance(k)' - tenderBalance(k)
  PROVE  SumInv'
<1>1. Balances \in [Tenders -> Nat] /\ Balances' \in [Tenders -> Nat]
  <2>1. Balances \in [Tenders -> Nat]
    BY BalanceType
  <2>2. Balances' \in [Tenders -> Nat]
    BY EscrowConstants
       DEF TypeOK, Balances, tenderBalance, TenderEscrow, Amounts
  <2> QED BY <2>1, <2>2
<1>2. \A j \in Tenders \ {k} : Balances'[j] = Balances[j]
  BY DEF Balances, tenderBalance
<1>3. Balances[k] = tenderBalance(k) /\ Balances'[k] = tenderBalance(k)'
  BY DEF Balances
<1>4. PICK ps : IsSum(Balances, ps) /\ ps[NTenders] = totalEscrowedAmount
  BY DEF SumInv
<1>5. \E qs : IsSum(Balances', qs)
             /\ qs[NTenders] = ps[NTenders] + Balances'[k] - Balances[k]
  BY <1>1, <1>2, <1>4, SumUpdate
<1>6. PICK qs : IsSum(Balances', qs)
             /\ qs[NTenders] = ps[NTenders] + Balances'[k] - Balances[k]
  BY <1>5
<1>7. qs[NTenders] = totalEscrowedAmount'
  BY <1>3, <1>4, <1>6
<1>8. IsSum(Balances, qs)'
  BY <1>6 DEF IsSum
<1> QED BY <1>7, <1>8 DEF SumInv

(* A settlement that pays out exactly the tender's balance keeps the books. *)
LEMMA SettleBooks ==
  ASSUME BooksInv, NEW sender \in Accounts, NEW k \in Tenders,
         NEW before \in {"FUNDED", "ALLOCATED", "DISPUTED"},
         NEW after \in Settled,
         NEW toShipper \in Nat, NEW toWinner \in Nat, NEW h \in HashArgs,
         toShipper + toWinner = tenderBalance(k),
         toWinner <= tenders[k].lockedAmount,
         SettleTender(sender, k, before, after, toShipper, toWinner, h)
  PROVE  BooksInv'
<1> USE EscrowConstants
<1>0. /\ tenders[k].state = before
      /\ tenders[k] \in TenderEscrow
      /\ after \in EscrowState /\ h \in Hashes
      /\ totalEscrowedAmount >= toShipper + toWinner
      /\ totalEscrowedAmount' = totalEscrowedAmount - (toShipper + toWinner)
      /\ token[Escrow] >= toShipper + toWinner
      /\ totalEscrowedAmount \in Nat
  BY DEF SettleTender, BooksInv, TypeOK, _requireState, ReduceTotal, Settled,
         EscrowState, _transferOut, _consumeAuthorizationHash, HashArgs
<1>1. TypeOK'
  <2>1. tenders' \in [Tenders -> TenderEscrow]
    BY <1>0 DEF SettleTender, BooksInv, TypeOK, TenderEscrow, HashArgs
  <2>2. token' \in [Accounts \cup {Escrow} -> Nat]
    BY <1>0 DEF SettleTender, _transferOut, BooksInv, TypeOK, TenderEscrow, Addresses
  <2>3. paid' \in [Tenders -> Payments]
    BY DEF SettleTender, BooksInv, TypeOK, Payments
  <2>4. totalEscrowedAmount' \in Nat
    BY <1>0
  <2>5. authorizationHashUsed' \subseteq Hashes
    BY <1>0 DEF SettleTender, _consumeAuthorizationHash, BooksInv, TypeOK
  <2> QED BY <2>1, <2>2, <2>3, <2>4, <2>5
          DEF SettleTender, BooksInv, TypeOK
<1>2. /\ \A j \in Tenders \ {k} : tenders'[j] = tenders[j] /\ paid'[j] = paid[j]
      /\ tenders'[k] = [tenders[k] EXCEPT !.state = after, !.settlementAuthHash = h]
      /\ paid'[k] = [in |-> paid[k].in, shipper |-> paid[k].shipper + toShipper,
                     winner |-> paid[k].winner + toWinner,
                     allocation |-> paid[k].allocation]
  BY DEF SettleTender, BooksInv, TypeOK
<1>2a. /\ tenders'[k].state = after
       /\ tenders'[k].winner = tenders[k].winner
       /\ tenders'[k].lockedAmount = tenders[k].lockedAmount
       /\ tenders'[k].excessRefunded = tenders[k].excessRefunded
       /\ tenders'[k].fundedAmount = tenders[k].fundedAmount
       /\ tenders'[k].disputeAuthHash = tenders[k].disputeAuthHash
  BY <1>0, <1>2 DEF TenderEscrow
<1>2b. /\ paid[k] \in Payments
       /\ paid'[k].in = paid[k].in
       /\ paid'[k].shipper = paid[k].shipper + toShipper
       /\ paid'[k].winner = paid[k].winner + toWinner
  BY <1>2 DEF BooksInv, TypeOK
<1>3. tenderBalance(k)' = 0
  BY <1>0, <1>2 DEF tenderBalance, Settled, TenderEscrow
<1>4. \A j \in Tenders \ {k} : tenderBalance(j)' = tenderBalance(j)
  BY <1>2 DEF tenderBalance
<1>5. SumInv'
  BY <1>0, <1>1, <1>2, <1>3, SumStep DEF BooksInv
<1>6. TokensBackTotal'
  <2>1. tenders[k].shipper # Escrow /\ tenders[k].winner # Escrow
    BY <1>0 DEF TenderEscrow, Addresses
  <2> QED BY <1>0, <2>1 DEF SettleTender, _transferOut, BooksInv, TypeOK,
                           TokensBackTotal
<1>7. TenderConserved'
  <2> SUFFICES ASSUME NEW j \in Tenders
               PROVE  /\ paid'[j].in = tenderBalance(j)' + paid'[j].shipper
                                        + paid'[j].winner
                      /\ tenders'[j].winner # ZeroAddress =>
                           tenders'[j].lockedAmount + tenders'[j].excessRefunded
                             = tenders'[j].fundedAmount
    BY DEF TenderConserved
  <2>1. CASE j # k
    BY <1>2, <1>4, <2>1 DEF BooksInv, TenderConserved
  <2>2. CASE j = k
    <3>2. paid[k].in = tenderBalance(k) + paid[k].shipper + paid[k].winner
      BY DEF BooksInv, TenderConserved
    <3>3. tenders[k].winner # ZeroAddress =>
            tenders[k].lockedAmount + tenders[k].excessRefunded
              = tenders[k].fundedAmount
      BY DEF BooksInv, TenderConserved
    <3> QED BY <1>2a, <1>2b, <1>3, <2>2, <3>2, <3>3 DEF Payments
  <2> QED BY <2>1, <2>2
<1>8. RecordShape'
  <2>1. paid[k].winner = 0
    BY <1>0 DEF BooksInv, RecordShape, Settled
  <2>2. after \notin {"UNREGISTERED", "REGISTERED", "FUNDED", "DISPUTED"}
    BY DEF Settled
  <2> SUFFICES ASSUME NEW j \in Tenders PROVE RecordShape!(j)'
    BY DEF RecordShape
  <2>3. CASE j = k
    BY <1>2a, <1>2b, <2>1, <2>2, <2>3
  <2>4. CASE j # k
    BY <1>2, <2>4 DEF BooksInv, RecordShape
  <2> QED BY <2>3, <2>4
<1> QED BY <1>1, <1>5, <1>6, <1>7, <1>8 DEF BooksInv

(* Registration moves no money. *)
LEMMA RegisterBooks ==
  ASSUME BooksInv, NEW sender \in Accounts, NEW k \in Tenders,
         NEW p \in Preimages, NEW s \in Addresses, NEW b \in AmountArgs,
         NEW h \in HashArgs, registerTender(sender, k, p, s, b, h)
  PROVE  BooksInv'
<1> USE EscrowConstants
<1>0. /\ tenders[k].state = "UNREGISTERED" /\ b \in Amounts /\ h \in Hashes
      /\ tenders[k] \in TenderEscrow
      /\ tenders'[k] = [tenders[k] EXCEPT !.state = "REGISTERED", !.shipper = s,
                                          !.maxBudget = b, !.creationAuthHash = h]
      /\ \A j \in Tenders \ {k} : tenders'[j] = tenders[j]
      /\ UNCHANGED <<totalEscrowedAmount, token, paid>>
  BY DEF registerTender, _requireState, _consumeAuthorizationHash, AmountArgs,
         Amounts, HashArgs, BooksInv, TypeOK
<1>1. TypeOK'
  <2>1. tenders' \in [Tenders -> TenderEscrow]
    BY ZenonT(60), <1>0 DEF registerTender, BooksInv, TypeOK, TenderEscrow, HashArgs, EscrowState
  <2>2. authorizationHashUsed' \subseteq Hashes
    BY <1>0 DEF registerTender, _consumeAuthorizationHash, BooksInv, TypeOK
  <2> QED BY <2>1, <2>2 DEF registerTender, BooksInv, TypeOK
<1>1a. /\ tenders'[k].state = "REGISTERED"
       /\ tenders'[k].winner = tenders[k].winner
       /\ tenders'[k].lockedAmount = tenders[k].lockedAmount
       /\ tenders'[k].excessRefunded = tenders[k].excessRefunded
       /\ tenders'[k].fundedAmount = tenders[k].fundedAmount
       /\ tenders'[k].disputeAuthHash = tenders[k].disputeAuthHash
  BY <1>0 DEF TenderEscrow
<1>2. \A j \in Tenders : tenderBalance(j)' = tenderBalance(j)
  BY <1>0, <1>1a DEF tenderBalance
<1>3. SumInv'
  <2>1. Balances' = Balances
    BY <1>2 DEF Balances
  <2> QED BY <1>0, <2>1 DEF SumInv, BooksInv, IsSum
<1>4. TenderConserved'
  <2>1. \A j \in Tenders : paid'[j].in = tenderBalance(j)' + paid'[j].shipper
                                          + paid'[j].winner
    BY <1>0, <1>2 DEF BooksInv, TenderConserved
  <2>2. \A j \in Tenders : tenders'[j].winner # ZeroAddress =>
          tenders'[j].lockedAmount + tenders'[j].excessRefunded
            = tenders'[j].fundedAmount
    <3> SUFFICES ASSUME NEW j \in Tenders, tenders'[j].winner # ZeroAddress
                 PROVE  tenders'[j].lockedAmount + tenders'[j].excessRefunded
                          = tenders'[j].fundedAmount
      OBVIOUS
    <3>1. tenders[j].winner # ZeroAddress =>
            tenders[j].lockedAmount + tenders[j].excessRefunded
              = tenders[j].fundedAmount
      BY DEF BooksInv, TenderConserved
    <3>2. CASE j = k
      BY <1>1a, <3>1, <3>2
    <3>3. CASE j # k
      BY <1>0, <3>1, <3>3
    <3> QED BY <3>2, <3>3
  <2> QED BY <2>1, <2>2 DEF TenderConserved
<1>5. RecordShape'
  BY ZenonT(60), <1>0, <1>1a DEF BooksInv, RecordShape, Settled
<1>6. TokensBackTotal'
  BY <1>0 DEF BooksInv, TokensBackTotal
<1> QED BY <1>1, <1>3, <1>4, <1>5, <1>6 DEF BooksInv

(* Funding brings in exactly the budget it records. *)
LEMMA FundBooks ==
  ASSUME BooksInv, NEW sender \in Accounts, NEW k \in Tenders,
         NEW amount \in AmountArgs, fundTender(sender, k, amount)
  PROVE  BooksInv'
<1> USE EscrowConstants
<1>0. /\ tenders[k].state = "REGISTERED" /\ tenders[k] \in TenderEscrow
      /\ amount = tenders[k].maxBudget /\ amount \in Amounts /\ amount \in Nat
      /\ paid[k] \in Payments
      /\ totalEscrowedAmount' = totalEscrowedAmount + amount
      /\ totalEscrowedAmount \in Nat
      /\ token \in [Accounts \cup {Escrow} -> Nat]
      /\ token' = [token EXCEPT ![sender] = @ - amount, ![Escrow] = @ + amount]
      /\ token[sender] >= amount /\ sender # Escrow
  BY DEF fundTender, _requireState, _transferIn, Amounts, BooksInv, TypeOK,
         TenderEscrow
<1>1. /\ \A j \in Tenders \ {k} : tenders'[j] = tenders[j] /\ paid'[j] = paid[j]
      /\ tenders'[k] = [tenders[k] EXCEPT !.state = "FUNDED", !.fundedAmount = amount]
      /\ paid'[k] = [paid[k] EXCEPT !.in = paid[k].in + amount]
  BY DEF fundTender, BooksInv, TypeOK
<1>2. /\ tenders'[k].state = "FUNDED"
      /\ tenders'[k].winner = tenders[k].winner
      /\ tenders'[k].lockedAmount = tenders[k].lockedAmount
      /\ tenders'[k].fundedAmount = amount
      /\ paid'[k].in = paid[k].in + amount
      /\ paid'[k].shipper = paid[k].shipper
      /\ paid'[k].winner = paid[k].winner
  BY <1>0, <1>1 DEF TenderEscrow
<1>3. TypeOK'
  <2>1. tenders' \in [Tenders -> TenderEscrow]
    BY <1>0 DEF fundTender, BooksInv, TypeOK, TenderEscrow, EscrowState
  <2>2. paid' \in [Tenders -> Payments]
    BY <1>0 DEF fundTender, BooksInv, TypeOK, Payments
  <2>3. token' \in [Accounts \cup {Escrow} -> Nat]
    BY <1>0
  <2> QED BY <1>0, <2>1, <2>2, <2>3 DEF fundTender, BooksInv, TypeOK
<1>4. tenderBalance(k) = 0 /\ tenderBalance(k)' = amount
  BY <1>0, <1>2 DEF tenderBalance
<1>5. \A j \in Tenders \ {k} : tenderBalance(j)' = tenderBalance(j)
  BY <1>1 DEF tenderBalance
<1>6. SumInv'
  BY <1>0, <1>1, <1>3, <1>4, SumStep DEF BooksInv
<1>7. TokensBackTotal'
  BY <1>0 DEF BooksInv, TokensBackTotal
<1>8. tenders[k].winner = ZeroAddress
  BY <1>0 DEF BooksInv, RecordShape
<1>9. TenderConserved'
  <2> SUFFICES ASSUME NEW j \in Tenders PROVE TenderConserved!(j)'
    BY DEF TenderConserved
  <2>1. CASE j = k
    BY <1>0, <1>2, <1>4, <1>8, <2>1 DEF BooksInv, TenderConserved, Payments
  <2>2. CASE j # k
    BY <1>1, <1>5, <2>2 DEF BooksInv, TenderConserved
  <2> QED BY <2>1, <2>2
<1>10. RecordShape'
  <2> SUFFICES ASSUME NEW j \in Tenders PROVE RecordShape!(j)'
    BY DEF RecordShape
  <2>1. CASE j = k
    BY <1>0, <1>2, <1>8, <2>1 DEF BooksInv, RecordShape, Settled
  <2>2. CASE j # k
    BY <1>1, <2>2 DEF BooksInv, RecordShape
  <2> QED BY <2>1, <2>2
<1> QED BY <1>3, <1>6, <1>7, <1>9, <1>10 DEF BooksInv

(* Allocation returns the excess and keeps the winning amount. *)
LEMMA AllocateBooks ==
  ASSUME BooksInv, NEW sender \in Accounts, NEW k \in Tenders,
         NEW w \in Addresses, NEW a \in AmountArgs,
         NEW m \in Manifests \cup {ZeroHash}, NEW h \in HashArgs,
         allocateWinner(sender, k, w, a, m, h)
  PROVE  BooksInv'
<1> USE EscrowConstants
<1> DEFINE excess == tenders[k].fundedAmount - a
<1>0. /\ tenders[k].state = "FUNDED" /\ tenders[k] \in TenderEscrow
      /\ a \in Amounts /\ a > 0 /\ excess \in Amounts
      /\ a \in Nat /\ excess \in Nat /\ h \in Hashes
      /\ a + excess = tenders[k].fundedAmount
      /\ paid[k] \in Payments
      /\ totalEscrowedAmount' = totalEscrowedAmount - excess
      /\ totalEscrowedAmount >= excess
      /\ totalEscrowedAmount \in Nat
      /\ token[Escrow] >= excess
  <2>1. /\ tenders[k].state = "FUNDED" /\ tenders[k] \in TenderEscrow
        /\ paid[k] \in Payments
        /\ totalEscrowedAmount \in Nat /\ token[Escrow] \in Nat
    BY DEF allocateWinner, _requireState, BooksInv, TypeOK
  <2>2. a > 0 /\ a <= tenders[k].fundedAmount /\ a <= MaxHts /\ a \in Nat
    BY DEF allocateWinner, AmountArgs
  <2>3. tenders[k].fundedAmount \in Nat /\ tenders[k].fundedAmount <= MaxHts
    BY <2>1 DEF TenderEscrow, Amounts
  <2>4. a \in Amounts /\ excess \in Amounts /\ excess \in Nat
        /\ a + excess = tenders[k].fundedAmount
    BY <2>2, <2>3 DEF Amounts
  <2>5. totalEscrowedAmount >= excess
        /\ totalEscrowedAmount' = totalEscrowedAmount - excess
    BY DEF allocateWinner, ReduceTotal
  <2>6. token[Escrow] >= excess + 0
    BY DEF allocateWinner, _transferOut
  <2>7. h \in Hashes
    BY DEF allocateWinner, _consumeAuthorizationHash, HashArgs
  <2> QED BY <2>1, <2>2, <2>4, <2>5, <2>6, <2>7
<1>1. /\ \A j \in Tenders \ {k} : tenders'[j] = tenders[j] /\ paid'[j] = paid[j]
      /\ tenders'[k] = [tenders[k] EXCEPT !.state = "ALLOCATED", !.winner = w,
                          !.lockedAmount = a, !.excessRefunded = excess,
                          !.decisionManifestHash = m]
      /\ paid'[k] = [paid[k] EXCEPT !.shipper = paid[k].shipper + excess, !.allocation = h]
  BY DEF allocateWinner, BooksInv, TypeOK
<1>2. /\ tenders'[k].state = "ALLOCATED"
      /\ tenders'[k].lockedAmount = a
      /\ tenders'[k].excessRefunded = excess
      /\ tenders'[k].fundedAmount = tenders[k].fundedAmount
      /\ paid'[k].in = paid[k].in
      /\ paid'[k].shipper = paid[k].shipper + excess
      /\ paid'[k].winner = paid[k].winner
  BY <1>0, <1>1 DEF TenderEscrow
<1>3. TypeOK'
  <2>1. tenders' \in [Tenders -> TenderEscrow]
    BY <1>0 DEF allocateWinner, BooksInv, TypeOK, TenderEscrow, EscrowState
  <2>2. paid' \in [Tenders -> Payments]
    <3>1. paid \in [Tenders -> Payments]
      BY DEF BooksInv, TypeOK
    <3>2. paid' = [paid EXCEPT ![k] = paid'[k]]
      BY <3>1 DEF allocateWinner
    <3>3. paid'[k] \in Payments
      <4> HIDE DEF excess
      <4>1. paid[k].shipper + excess \in Nat /\ h \in HashArgs
        BY <1>0 DEF Payments, HashArgs
      <4> QED BY <1>0, <1>1, <4>1 DEF Payments
    <3> QED BY <3>1, <3>2, <3>3
  <2>3. token' \in [Accounts \cup {Escrow} -> Nat]
    BY <1>0 DEF allocateWinner, _transferOut, BooksInv, TypeOK, TenderEscrow, Addresses
  <2>4. authorizationHashUsed' \subseteq Hashes
    BY <1>0 DEF allocateWinner, _consumeAuthorizationHash, BooksInv, TypeOK
  <2> QED BY <1>0, <2>1, <2>2, <2>3, <2>4 DEF allocateWinner, BooksInv, TypeOK
<1>4. tenderBalance(k) = tenders[k].fundedAmount /\ tenderBalance(k)' = a
  BY <1>0, <1>2 DEF tenderBalance
<1>5. \A j \in Tenders \ {k} : tenderBalance(j)' = tenderBalance(j)
  BY <1>1 DEF tenderBalance
<1>6. SumInv'
  <2>1. totalEscrowedAmount'
          = totalEscrowedAmount + tenderBalance(k)' - tenderBalance(k)
    BY <1>0, <1>4 DEF TenderEscrow, Amounts
  <2> QED BY <1>1, <1>3, <2>1, SumStep DEF BooksInv
<1>7. TokensBackTotal'
  <2>1. tenders[k].shipper # Escrow /\ w # Escrow
    BY <1>0 DEF TenderEscrow, Addresses
  <2> QED BY <1>0, <2>1 DEF allocateWinner, _transferOut, BooksInv, TypeOK,
                           TokensBackTotal
<1>8. paid[k].winner = 0
  BY <1>0 DEF BooksInv, RecordShape, Settled
<1>9. TenderConserved'
  <2> SUFFICES ASSUME NEW j \in Tenders PROVE TenderConserved!(j)'
    BY DEF TenderConserved
  <2>1. CASE j = k
    <3>1. paid[k].in = tenderBalance(k) + paid[k].shipper + paid[k].winner
      BY DEF BooksInv, TenderConserved
    <3> QED BY <1>0, <1>2, <1>4, <2>1, <3>1 DEF Payments
  <2>2. CASE j # k
    BY <1>1, <1>5, <2>2 DEF BooksInv, TenderConserved
  <2> QED BY <2>1, <2>2
<1>10. RecordShape'
  <2> SUFFICES ASSUME NEW j \in Tenders PROVE RecordShape!(j)'
    BY DEF RecordShape
  <2>1. CASE j = k
    BY <1>0, <1>2, <1>8, <2>1
  <2>2. CASE j # k
    BY <1>1, <2>2 DEF BooksInv, RecordShape
  <2> QED BY <2>1, <2>2
<1> QED BY <1>3, <1>6, <1>7, <1>9, <1>10 DEF BooksInv

(* Opening a dispute freezes the locked amount where it is. *)
LEMMA DisputeBooks ==
  ASSUME BooksInv, NEW sender \in Accounts, NEW k \in Tenders,
         NEW h \in HashArgs, openDispute(sender, k, h)
  PROVE  BooksInv'
<1> USE EscrowConstants
<1>0. /\ tenders[k].state = "ALLOCATED" /\ tenders[k] \in TenderEscrow
      /\ h \in Hashes
      /\ \A j \in Tenders \ {k} : tenders'[j] = tenders[j]
      /\ tenders'[k] = [tenders[k] EXCEPT !.state = "DISPUTED", !.disputeAuthHash = h]
      /\ UNCHANGED <<totalEscrowedAmount, token, paid>>
  BY DEF openDispute, _requireState, _consumeAuthorizationHash, HashArgs,
         BooksInv, TypeOK
<1>1. /\ tenders'[k].state = "DISPUTED"
      /\ tenders'[k].disputeAuthHash = h
      /\ tenders'[k].winner = tenders[k].winner
      /\ tenders'[k].lockedAmount = tenders[k].lockedAmount
      /\ tenders'[k].excessRefunded = tenders[k].excessRefunded
      /\ tenders'[k].fundedAmount = tenders[k].fundedAmount
  BY <1>0 DEF TenderEscrow
<1>2. TypeOK'
  <2>1. tenders' \in [Tenders -> TenderEscrow]
    BY <1>0 DEF openDispute, BooksInv, TypeOK, TenderEscrow, HashArgs, EscrowState
  <2>2. authorizationHashUsed' \subseteq Hashes
    BY <1>0 DEF openDispute, _consumeAuthorizationHash, BooksInv, TypeOK
  <2> QED BY <2>1, <2>2 DEF openDispute, BooksInv, TypeOK
<1>3. \A j \in Tenders : tenderBalance(j)' = tenderBalance(j)
  BY <1>0, <1>1 DEF tenderBalance
<1>4. SumInv'
  <2>1. Balances' = Balances
    BY <1>3 DEF Balances
  <2> QED BY <1>0, <2>1 DEF SumInv, BooksInv, IsSum
<1>5. TenderConserved'
  <2> SUFFICES ASSUME NEW j \in Tenders PROVE TenderConserved!(j)'
    BY DEF TenderConserved
  <2>1. TenderConserved!(j)
    BY DEF BooksInv, TenderConserved
  <2>2. CASE j = k
    BY <1>0, <1>1, <1>3, <2>1, <2>2
  <2>3. CASE j # k
    BY <1>0, <1>3, <2>1, <2>3
  <2> QED BY <2>2, <2>3
<1>6. RecordShape'
  <2> SUFFICES ASSUME NEW j \in Tenders PROVE RecordShape!(j)'
    BY DEF RecordShape
  <2>1. CASE j = k
    BY <1>0, <1>1, <2>1 DEF BooksInv, RecordShape, Settled
  <2>2. CASE j # k
    BY <1>0, <2>2 DEF BooksInv, RecordShape
  <2> QED BY <2>1, <2>2
<1>7. TokensBackTotal'
  BY <1>0 DEF BooksInv, TokensBackTotal
<1> QED BY <1>2, <1>4, <1>5, <1>6, <1>7 DEF BooksInv

(* The administrative calls touch neither the tenders nor the money. *)
LEMMA AdminBooks ==
  ASSUME BooksInv, NEW sender \in Accounts, AdminCall(sender)
  PROVE  BooksInv'
<1>1. UNCHANGED <<tenders, totalEscrowedAmount, token, paid, authorizationHashUsed>>
  BY DEF AdminCall, associateEscrowToken, transferOwnership, acceptOwnership,
         renounceOwnership
<1>2. TypeOK'
  <2>1. owner' \in Addresses /\ pendingOwner' \in Addresses
    BY DEF AdminCall, associateEscrowToken, transferOwnership, acceptOwnership,
           renounceOwnership, BooksInv, TypeOK, Addresses
  <2>2. associated' \in BOOLEAN
    BY DEF AdminCall, associateEscrowToken, transferOwnership, acceptOwnership,
           renounceOwnership, BooksInv, TypeOK
  <2> QED BY <1>1, <2>1, <2>2 DEF BooksInv, TypeOK
<1>3. SumInv' /\ TokensBackTotal' /\ TenderConserved' /\ RecordShape'
  <2>1. Balances' = Balances /\ \A j \in Tenders : tenderBalance(j)' = tenderBalance(j)
    BY <1>1 DEF Balances, tenderBalance
  <2>2. SumInv'
    BY <1>1, <2>1 DEF SumInv, IsSum, BooksInv
  <2>3. TenderConserved'
    BY <1>1, <2>1 DEF TenderConserved, BooksInv
  <2> QED BY <1>1, <2>2, <2>3 DEF TokensBackTotal, RecordShape, BooksInv
<1> QED BY <1>2, <1>3 DEF BooksInv

(* Every call on a tender keeps the books. *)
LEMMA TenderCallBooks ==
  ASSUME BooksInv, NEW sender \in Accounts, NEW k \in Tenders,
         TenderCall(sender, k)
  PROVE  BooksInv'
<1> USE EscrowConstants
<1>0. /\ tenders[k] \in TenderEscrow
      /\ tenders[k].lockedAmount \in Nat /\ tenders[k].fundedAmount \in Nat
  BY DEF BooksInv, TypeOK, TenderEscrow, Amounts
<1>1. CASE \E p \in Preimages, s \in Addresses, b \in AmountArgs, h \in HashArgs :
             registerTender(sender, k, p, s, b, h)
  BY <1>1, RegisterBooks
<1>2. CASE \E a \in AmountArgs : fundTender(sender, k, a)
  BY <1>2, FundBooks
<1>3. CASE \E w \in Addresses, a \in AmountArgs, m \in Manifests \cup {ZeroHash},
              h \in HashArgs : allocateWinner(sender, k, w, a, m, h)
  BY <1>3, AllocateBooks
<1>4. ASSUME NEW h \in HashArgs, refundNoQualifiedBid(sender, k, h)
      PROVE  BooksInv'
  <2>1. tenders[k].state = "FUNDED"
    BY <1>4 DEF refundNoQualifiedBid, SettleTender, _requireState
  <2>2. tenderBalance(k) = tenders[k].fundedAmount + 0
    BY <1>0, <2>1 DEF tenderBalance
  <2>3. 0 <= tenders[k].lockedAmount /\ 0 \in Nat /\ "REFUNDED" \in Settled
    BY <1>0 DEF Settled
  <2> QED BY <1>0, <1>4, <2>2, <2>3, SettleBooks DEF refundNoQualifiedBid
<1>5. ASSUME NEW h \in HashArgs, NEW before \in {"ALLOCATED", "DISPUTED"},
             SettleTender(sender, k, before, "RELEASED", 0,
                          tenders[k].lockedAmount, h)
      PROVE  BooksInv'
  <2>1. tenders[k].state = before
    BY <1>5 DEF SettleTender, _requireState
  <2>2. tenderBalance(k) = 0 + tenders[k].lockedAmount
    BY <1>0, <2>1 DEF tenderBalance
  <2>3. tenders[k].lockedAmount <= tenders[k].lockedAmount
        /\ 0 \in Nat /\ "RELEASED" \in Settled
    BY <1>0 DEF Settled
  <2> QED BY <1>0, <1>5, <2>2, <2>3, SettleBooks
<1>6. CASE \E h \in HashArgs : openDispute(sender, k, h)
  BY <1>6, DisputeBooks
<1>7. ASSUME NEW h \in HashArgs, refundFull(sender, k, h)
      PROVE  BooksInv'
  <2>1. tenders[k].state = "DISPUTED"
    BY <1>7 DEF refundFull, SettleTender, _requireState
  <2>2. tenderBalance(k) = tenders[k].lockedAmount + 0
    BY <1>0, <2>1 DEF tenderBalance
  <2>3. 0 <= tenders[k].lockedAmount /\ 0 \in Nat /\ "REFUNDED" \in Settled
    BY <1>0 DEF Settled
  <2> QED BY <1>0, <1>7, <2>2, <2>3, SettleBooks DEF refundFull
<1>8. ASSUME NEW w \in AmountArgs, NEW s \in AmountArgs, NEW h \in HashArgs,
             partialRelease(sender, k, w, s, h)
      PROVE  BooksInv'
  <2>1. tenders[k].state = "DISPUTED" /\ w + s = tenders[k].lockedAmount
    BY <1>8 DEF partialRelease, SettleTender, _requireState
  <2>2. w \in Nat /\ s \in Nat
    BY DEF AmountArgs
  <2>3. s + w = tenderBalance(k) /\ w <= tenders[k].lockedAmount
    BY <1>0, <2>1, <2>2 DEF tenderBalance
  <2>4. "PARTIALLY_RELEASED" \in Settled
    BY DEF Settled
  <2> QED BY <1>8, <2>2, <2>3, <2>4, SettleBooks DEF partialRelease
<1>9. ASSUME NEW h \in HashArgs,
             releaseFull(sender, k, h) \/ resolveDisputeRelease(sender, k, h)
      PROVE  BooksInv'
  BY <1>5, <1>9 DEF releaseFull, resolveDisputeRelease
<1> QED BY <1>1, <1>2, <1>3, <1>4, <1>6, <1>7, <1>8, <1>9 DEF TenderCall

(* Every operation of the contract preserves the books. *)
LEMMA BooksStep == BooksInv /\ [Next]_vars => BooksInv'
<1> SUFFICES ASSUME BooksInv, [Next]_vars PROVE BooksInv'
  OBVIOUS
<1>1. CASE Next
  BY <1>1, TenderCallBooks, AdminBooks DEF Next
<1>2. CASE UNCHANGED vars
  <2>1. Balances' = Balances /\ \A j \in Tenders : tenderBalance(j)' = tenderBalance(j)
    BY <1>2 DEF Balances, tenderBalance, vars
  <2>2. TypeOK' /\ TokensBackTotal' /\ RecordShape'
    BY <1>2 DEF vars, BooksInv, TypeOK, TokensBackTotal, RecordShape
  <2>3. SumInv'
    BY <1>2, <2>1 DEF vars, SumInv, IsSum, BooksInv
  <2>4. TenderConserved'
    BY <1>2, <2>1 DEF vars, TenderConserved, BooksInv
  <2> QED BY <2>2, <2>3, <2>4 DEF BooksInv
<1> QED BY <1>1, <1>2

(* The inductive invariant holds in every reachable state. *)
THEOREM BooksAlways == Spec => []BooksInv
BY InitBooks, BooksStep, PTL DEF Spec

(* Type correctness: no call leaves an amount HTS cannot move. *)
THEOREM TypeCorrect == Spec => []TypeOK
<1>1. BooksInv => TypeOK
  BY DEF BooksInv
<1> QED BY <1>1, BooksAlways, PTL

(* totalEscrowedAmount is the sum of tenderBalance over all tenders. *)
THEOREM TotalCorrect == Spec => []TotalIsSumOfBalances
<1>1. BooksInv => TotalIsSumOfBalances
  <2> SUFFICES ASSUME BooksInv PROVE TotalIsSumOfBalances
    OBVIOUS
  <2>1. PICK ps : IsSum(Balances, ps) /\ ps[NTenders] = totalEscrowedAmount
    BY DEF BooksInv, SumInv
  <2>2. ps \in [0..NTenders -> 0..totalEscrowedAmount]
    <3>1. \A i \in 0..NTenders : ps[i] \in Nat /\ ps[i] <= ps[NTenders]
      BY <2>1, EscrowConstants DEF IsSum
    <3>2. totalEscrowedAmount \in Nat
      BY DEF BooksInv, TypeOK
    <3> QED BY <2>1, <3>1, <3>2 DEF IsSum
  <2>3. PartialSums(ps)
    BY <2>1 DEF PartialSums, IsSum, Balances
  <2> QED BY <2>1, <2>2, <2>3 DEF TotalIsSumOfBalances
<1> QED BY <1>1, BooksAlways, PTL

(* The contract's HTS balance is what its books say. *)
THEOREM TokensCorrect == Spec => []TokensBackTotal
<1>1. BooksInv => TokensBackTotal
  BY DEF BooksInv
<1> QED BY <1>1, BooksAlways, PTL

(* Each tender's money in is its balance plus its money out. *)
THEOREM ConservationCorrect == Spec => []TenderConserved
<1>1. BooksInv => TenderConserved
  BY DEF BooksInv
<1> QED BY <1>1, BooksAlways, PTL

(* The operator can always pay a tender out in full. *)
THEOREM SettlementCorrect == Spec => []SettlementCovered
<1>1. BooksInv => SettlementCovered
  <2> SUFFICES ASSUME BooksInv, NEW k \in Tenders
               PROVE  tenderBalance(k) <= totalEscrowedAmount
    BY DEF SettlementCovered, BooksInv, TokensBackTotal
  <2>1. PICK ps : IsSum(Balances, ps) /\ ps[NTenders] = totalEscrowedAmount
    BY DEF BooksInv, SumInv
  <2>2. Balances \in [Tenders -> Nat] /\ Balances[k] = tenderBalance(k)
    BY BalanceType DEF BooksInv, Balances
  <2> QED BY <2>1, <2>2, TermBelowSum
<1> QED BY <1>1, BooksAlways, PTL

-----------------------------------------------------------------------------
(* Authorization hashes *)

(* Writing a fresh hash into one slot, or into none, keeps them distinct. *)
LEMMA FreshHash ==
  ASSUME HashesConsumed, AuthorizationSingleUse,
         NEW k \in Tenders, NEW slot \in AuthSlots, NEW h \in Hashes,
         h \notin authorizationHashUsed,
         authorizationHashUsed' = authorizationHashUsed \cup {h},
         \A j \in Tenders, s \in AuthSlots :
           \/ AuthHash(j, s)' = AuthHash(j, s)
           \/ j = k /\ s = slot /\ AuthHash(j, s)' = h
  PROVE  HashesConsumed' /\ AuthorizationSingleUse'
<1>1. HashesConsumed'
  <2> SUFFICES ASSUME NEW j \in Tenders, NEW s \in AuthSlots,
                      AuthHash(j, s)' # ZeroHash
               PROVE  AuthHash(j, s)' \in authorizationHashUsed'
    BY DEF HashesConsumed
  <2>1. CASE AuthHash(j, s)' = AuthHash(j, s)
    BY <2>1 DEF HashesConsumed
  <2>2. CASE AuthHash(j, s)' = h
    BY <2>2
  <2> QED BY <2>1, <2>2
<1>2. AuthorizationSingleUse'
  <2> SUFFICES ASSUME NEW k1 \in Tenders, NEW k2 \in Tenders,
                      NEW s1 \in AuthSlots, NEW s2 \in AuthSlots,
                      AuthHash(k1, s1)' # ZeroHash,
                      AuthHash(k1, s1)' = AuthHash(k2, s2)'
               PROVE  k1 = k2 /\ s1 = s2
    BY DEF AuthorizationSingleUse
  <2>1. CASE /\ AuthHash(k1, s1)' = AuthHash(k1, s1)
             /\ AuthHash(k2, s2)' = AuthHash(k2, s2)
    <3>1. AuthHash(k1, s1) # ZeroHash /\ AuthHash(k1, s1) = AuthHash(k2, s2)
      BY <2>1
    <3> QED BY <3>1 DEF AuthorizationSingleUse
  <2>2. CASE /\ AuthHash(k1, s1)' = AuthHash(k1, s1)
             /\ k2 = k /\ s2 = slot /\ AuthHash(k2, s2)' = h
    BY <2>2 DEF HashesConsumed
  <2>3. CASE /\ AuthHash(k2, s2)' = AuthHash(k2, s2)
             /\ k1 = k /\ s1 = slot /\ AuthHash(k1, s1)' = h
    BY <2>3 DEF HashesConsumed
  <2>4. CASE k1 = k /\ s1 = slot /\ k2 = k /\ s2 = slot
    BY <2>4
  <2> QED BY <2>1, <2>2, <2>3, <2>4
<1> QED BY <1>1, <1>2

(* Every operation consumes its hash at most once. *)
LEMMA HashStep == TypeOK /\ HashesConsumed /\ AuthorizationSingleUse
                  /\ [Next]_vars => HashesConsumed' /\ AuthorizationSingleUse'
<1> SUFFICES ASSUME TypeOK, HashesConsumed, AuthorizationSingleUse, [Next]_vars
             PROVE  HashesConsumed' /\ AuthorizationSingleUse'
  OBVIOUS
<1> USE EscrowConstants
<1>0. ASSUME UNCHANGED <<tenders, authorizationHashUsed, paid>>
      PROVE  HashesConsumed' /\ AuthorizationSingleUse'
  <2>1. \A j \in Tenders, s \in AuthSlots : AuthHash(j, s)' = AuthHash(j, s)
    BY <1>0 DEF AuthHash
  <2> QED BY <1>0, <2>1 DEF HashesConsumed, AuthorizationSingleUse
<1>1. ASSUME NEW sender \in Accounts, AdminCall(sender)
      PROVE  HashesConsumed' /\ AuthorizationSingleUse'
  BY <1>0, <1>1 DEF AdminCall, associateEscrowToken, transferOwnership,
                    acceptOwnership, renounceOwnership
<1>2. ASSUME NEW sender \in Accounts, NEW k \in Tenders, TenderCall(sender, k)
      PROVE  HashesConsumed' /\ AuthorizationSingleUse'
  <2>0. /\ tenders \in [Tenders -> TenderEscrow] /\ tenders[k] \in TenderEscrow
        /\ paid \in [Tenders -> Payments] /\ paid[k] \in Payments
    BY DEF TypeOK
  <2>1. ASSUME NEW p \in Preimages, NEW s \in Addresses, NEW b \in AmountArgs,
               NEW h \in HashArgs, registerTender(sender, k, p, s, b, h)
        PROVE  HashesConsumed' /\ AuthorizationSingleUse'
    <3>1. /\ h \in Hashes /\ h \notin authorizationHashUsed
          /\ authorizationHashUsed' = authorizationHashUsed \cup {h}
      BY <2>1 DEF registerTender, _consumeAuthorizationHash, HashArgs
    <3>2. \A j \in Tenders, t \in AuthSlots :
            \/ AuthHash(j, t)' = AuthHash(j, t)
            \/ j = k /\ t = "creation" /\ AuthHash(j, t)' = h
      BY <2>0, <2>1 DEF registerTender, AuthHash, AuthSlots, TenderEscrow, Payments
    <3> QED BY <3>1, <3>2, FreshHash DEF AuthSlots
  <2>2. ASSUME NEW a \in AmountArgs, fundTender(sender, k, a)
        PROVE  HashesConsumed' /\ AuthorizationSingleUse'
    <3>1. \A j \in Tenders, t \in AuthSlots : AuthHash(j, t)' = AuthHash(j, t)
      BY <2>0, <2>2 DEF fundTender, AuthHash, AuthSlots, TenderEscrow, Payments
    <3> QED BY <2>2, <3>1
            DEF fundTender, HashesConsumed, AuthorizationSingleUse
  <2>3. ASSUME NEW w \in Addresses, NEW a \in AmountArgs,
               NEW m \in Manifests \cup {ZeroHash}, NEW h \in HashArgs,
               allocateWinner(sender, k, w, a, m, h)
        PROVE  HashesConsumed' /\ AuthorizationSingleUse'
    <3>1. /\ h \in Hashes /\ h \notin authorizationHashUsed
          /\ authorizationHashUsed' = authorizationHashUsed \cup {h}
      BY <2>3 DEF allocateWinner, _consumeAuthorizationHash, HashArgs
    <3>2. \A j \in Tenders, t \in AuthSlots :
            \/ AuthHash(j, t)' = AuthHash(j, t)
            \/ j = k /\ t = "allocation" /\ AuthHash(j, t)' = h
      BY <2>0, <2>3 DEF allocateWinner, AuthHash, AuthSlots, TenderEscrow, Payments
    <3> QED BY <3>1, <3>2, FreshHash DEF AuthSlots
  <2>4. ASSUME NEW h \in HashArgs, openDispute(sender, k, h)
        PROVE  HashesConsumed' /\ AuthorizationSingleUse'
    <3>1. /\ h \in Hashes /\ h \notin authorizationHashUsed
          /\ authorizationHashUsed' = authorizationHashUsed \cup {h}
      BY <2>4 DEF openDispute, _consumeAuthorizationHash, HashArgs
    <3>2. \A j \in Tenders, t \in AuthSlots :
            \/ AuthHash(j, t)' = AuthHash(j, t)
            \/ j = k /\ t = "dispute" /\ AuthHash(j, t)' = h
      BY <2>0, <2>4 DEF openDispute, AuthHash, AuthSlots, TenderEscrow, Payments
    <3> QED BY <3>1, <3>2, FreshHash DEF AuthSlots
  <2>5. ASSUME NEW h \in HashArgs, NEW b, NEW a, NEW x, NEW y,
               SettleTender(sender, k, b, a, x, y, h)
        PROVE  HashesConsumed' /\ AuthorizationSingleUse'
    <3>1. /\ h \in Hashes /\ h \notin authorizationHashUsed
          /\ authorizationHashUsed' = authorizationHashUsed \cup {h}
      BY <2>5 DEF SettleTender, _consumeAuthorizationHash, HashArgs
    <3>2. \A j \in Tenders, t \in AuthSlots :
            \/ AuthHash(j, t)' = AuthHash(j, t)
            \/ j = k /\ t = "settlement" /\ AuthHash(j, t)' = h
      BY <2>0, <2>5 DEF SettleTender, AuthHash, AuthSlots, TenderEscrow, Payments
    <3> QED BY <3>1, <3>2, FreshHash DEF AuthSlots
  <2> QED BY <1>2, <2>1, <2>2, <2>3, <2>4, <2>5
          DEF TenderCall, refundNoQualifiedBid, releaseFull,
              resolveDisputeRelease, refundFull, partialRelease
<1>3. CASE UNCHANGED vars
  BY <1>0, <1>3 DEF vars
<1> QED BY <1>1, <1>2, <1>3 DEF Next

(* An authorization hash is accepted at most once, over all tenders. *)
THEOREM SingleUseCorrect == Spec => []AuthorizationSingleUse
<1>1. Init => HashesConsumed /\ AuthorizationSingleUse
  <2> SUFFICES ASSUME Init PROVE HashesConsumed /\ AuthorizationSingleUse
    OBVIOUS
  <2>1. \A k \in Tenders, s \in AuthSlots : AuthHash(k, s) = ZeroHash
    BY DEF Init, constructor, NoTender, AuthHash, AuthSlots
  <2> QED BY <2>1 DEF HashesConsumed, AuthorizationSingleUse
<1> QED BY <1>1, HashStep, TypeCorrect, PTL DEF Spec

-----------------------------------------------------------------------------
(* Steps *)

(* No call touches a settled tender. *)
THEOREM FinalityCorrect == Spec => SettledIsFinal
<1>1. TypeOK /\ [Next]_vars =>
        [\A k \in Tenders : tenders[k].state \in Settled =>
           tenders'[k] = tenders[k] /\ paid'[k] = paid[k]]_vars
  <2> SUFFICES ASSUME TypeOK, Next, NEW k \in Tenders, tenders[k].state \in Settled
               PROVE  tenders'[k] = tenders[k] /\ paid'[k] = paid[k]
    BY DEF vars
  <2>1. ASSUME NEW sender \in Accounts, AdminCall(sender)
        PROVE  tenders'[k] = tenders[k] /\ paid'[k] = paid[k]
    BY <2>1 DEF AdminCall, associateEscrowToken, transferOwnership,
                acceptOwnership, renounceOwnership
  <2>2. ASSUME NEW sender \in Accounts, NEW j \in Tenders, TenderCall(sender, j)
        PROVE  tenders'[k] = tenders[k] /\ paid'[k] = paid[k]
    <3> DEFINE OnlyJ == /\ tenders[j].state \notin Settled
                        /\ \A i \in Tenders \ {j} : /\ tenders'[i] = tenders[i]
                                                    /\ paid'[i] = paid[i]
    <3>1. ASSUME NEW p, NEW s, NEW b, NEW h, registerTender(sender, j, p, s, b, h)
          PROVE  OnlyJ
      BY <3>1 DEF registerTender, _requireState, Settled, TypeOK
    <3>2. ASSUME NEW a, fundTender(sender, j, a) PROVE OnlyJ
      BY <3>2 DEF fundTender, _requireState, Settled, TypeOK
    <3>3. ASSUME NEW w, NEW a, NEW m, NEW h, allocateWinner(sender, j, w, a, m, h)
          PROVE  OnlyJ
      BY <3>3 DEF allocateWinner, _requireState, Settled, TypeOK
    <3>4. ASSUME NEW h, openDispute(sender, j, h) PROVE OnlyJ
      BY <3>4 DEF openDispute, _requireState, Settled, TypeOK
    <3>5. ASSUME NEW b \in {"FUNDED", "ALLOCATED", "DISPUTED"}, NEW a, NEW x, NEW y,
                 NEW h, SettleTender(sender, j, b, a, x, y, h)
          PROVE  OnlyJ
      BY <3>5 DEF SettleTender, _requireState, Settled, TypeOK
    <3>6. OnlyJ
      <4> HIDE DEF OnlyJ
      <4> QED BY <2>2, <3>1, <3>2, <3>3, <3>4, <3>5
              DEF TenderCall, refundNoQualifiedBid, releaseFull,
                  resolveDisputeRelease, refundFull, partialRelease
    <3> QED BY <3>6
  <2> QED BY <2>1, <2>2 DEF Next
<1> QED BY <1>1, TypeCorrect, PTL DEF Spec, SettledIsFinal
-----------------------------------------------------------------------------
(***************************************************************************)
(* The contract implements TenderMoney.  The mapping needs two facts that  *)
(* the books do not state: nothing has gone back to the shipper before     *)
(* the allocation, and a registered tender has a budget to fund.           *)
(***************************************************************************)
MoneyShape ==
  \A k \in Tenders :
    /\ tenders[k].state \in {"UNREGISTERED", "REGISTERED", "FUNDED"} => paid[k].shipper = 0
    /\ tenders[k].state = "REGISTERED" => tenders[k].maxBudget > 0
    /\ tenders[k].state = "FUNDED" => tenders[k].fundedAmount > 0

(* What a call does to the other tenders' money: nothing. *)
OnlyTender(k) ==
  \A j \in Tenders \ {k} : tenders'[j] = tenders[j] /\ paid'[j] = paid[j]

(* A call on one tender that keeps its part of the shape keeps it all. *)
LEMMA ShapeOf ==
  ASSUME MoneyShape, NEW k \in Tenders, OnlyTender(k), MoneyShape!(k)'
  PROVE  MoneyShape'
<1> SUFFICES ASSUME NEW j \in Tenders PROVE MoneyShape!(j)'
  BY DEF MoneyShape
<1>1. CASE j = k
  BY <1>1
<1>2. CASE j # k
  BY <1>2 DEF OnlyTender, MoneyShape
<1> QED BY <1>1, <1>2

(* The abstract records of the tenders. *)
MoneyRecord ==
  [phase: {"OPEN", "FUNDED", "LOCKED", "SETTLED"}, held: Nat, back: Nat, paid: Nat]

(* The mapping yields abstract books, and a call on one tender leaves the  *)
(* abstract records of the others alone.                                   *)
LEMMA MoneyUpdate ==
  ASSUME TypeOK, TypeOK', NEW k \in Tenders, OnlyTender(k)
  PROVE  /\ tenderMoney \in [Tenders -> MoneyRecord]
         /\ tenderMoney' \in [Tenders -> MoneyRecord]
         /\ tenderMoney' = [tenderMoney EXCEPT ![k] = tenderMoney'[k]]
         /\ tenderMoney[k].phase = MoneyPhase(tenders[k].state)
         /\ tenderMoney[k].held = tenderBalance(k)
         /\ tenderMoney[k].back = paid[k].shipper
         /\ tenderMoney[k].paid = paid[k].winner
         /\ tenderMoney'[k].phase = MoneyPhase(tenders'[k].state)
         /\ tenderMoney'[k].held = tenderBalance(k)'
         /\ tenderMoney'[k].back = paid'[k].shipper
         /\ tenderMoney'[k].paid = paid'[k].winner
<1> USE EscrowConstants
<1>1. \A s : MoneyPhase(s) \in {"OPEN", "FUNDED", "LOCKED", "SETTLED"}
  BY DEF MoneyPhase
<1>2. \A j \in Tenders : tenderBalance(j) \in Nat /\ tenderBalance(j)' \in Nat
  BY DEF TypeOK, tenderBalance, TenderEscrow, Amounts
<1>3. \A j \in Tenders : /\ paid[j].shipper \in Nat /\ paid[j].winner \in Nat
                         /\ paid'[j].shipper \in Nat /\ paid'[j].winner \in Nat
  BY DEF TypeOK, Payments
<1>4. \A j \in Tenders \ {k} : tenderBalance(j)' = tenderBalance(j)
  BY DEF OnlyTender, tenderBalance
<1>5. tenderMoney \in [Tenders -> MoneyRecord]
  BY <1>1, <1>2, <1>3 DEF tenderMoney, MoneyRecord
<1>6. tenderMoney' \in [Tenders -> MoneyRecord]
  BY <1>1, <1>2, <1>3 DEF tenderMoney, MoneyRecord
<1>7. tenderMoney' = [tenderMoney EXCEPT ![k] = tenderMoney'[k]]
  BY <1>4 DEF OnlyTender, tenderMoney
<1> QED BY <1>5, <1>6, <1>7 DEF tenderMoney

(* A settlement is the abstract GiveBack from FUNDED and the abstract      *)
(* Settle from ALLOCATED or DISPUTED.                                      *)
LEMMA SettleImplements ==
  ASSUME BooksInv, BooksInv', MoneyShape, NEW sender \in Accounts, NEW k \in Tenders,
         NEW before \in {"FUNDED", "ALLOCATED", "DISPUTED"},
         NEW after \in Settled,
         NEW toShipper \in Nat, NEW toWinner \in Nat, NEW h \in HashArgs,
         toShipper + toWinner = tenderBalance(k),
         before = "FUNDED" => toWinner = 0,
         SettleTender(sender, k, before, after, toShipper, toWinner, h)
  PROVE  Money!Next /\ MoneyShape'
<1> USE EscrowConstants
<1>1. /\ tenders[k].state = before /\ tenders[k] \in TenderEscrow
      /\ paid[k] \in Payments
      /\ OnlyTender(k)
      /\ tenders'[k] = [tenders[k] EXCEPT !.state = after, !.settlementAuthHash = h]
      /\ paid'[k] = [in |-> paid[k].in, shipper |-> paid[k].shipper + toShipper,
                     winner |-> paid[k].winner + toWinner,
                     allocation |-> paid[k].allocation]
  BY DEF SettleTender, _requireState, BooksInv, TypeOK, OnlyTender
<1>2. /\ tenders'[k].state = after
      /\ paid[k].winner = 0
      /\ paid'[k].shipper = paid[k].shipper + toShipper
      /\ paid'[k].winner = toWinner
      /\ tenderBalance(k)' = 0
      /\ MoneyPhase(after) = "SETTLED"
  BY <1>1 DEF BooksInv, RecordShape, Settled, TenderEscrow, tenderBalance, MoneyPhase
<1>3. /\ tenderMoney[k] \in MoneyRecord /\ tenderMoney'[k] \in MoneyRecord
      /\ tenderMoney' = [tenderMoney EXCEPT ![k] = tenderMoney'[k]]
      /\ tenderMoney[k].phase = MoneyPhase(before)
      /\ tenderMoney[k].held = tenderBalance(k)
      /\ tenderMoney[k].back = paid[k].shipper
      /\ tenderMoney[k].paid = 0
      /\ tenderMoney'[k].phase = "SETTLED"
      /\ tenderMoney'[k].held = 0
      /\ tenderMoney'[k].back = paid[k].shipper + toShipper
      /\ tenderMoney'[k].paid = toWinner
  BY <1>1, <1>2, MoneyUpdate DEF BooksInv
<1>4. MoneyShape'
  BY <1>1, <1>2, ShapeOf DEF Settled, MoneyShape
<1>5. CASE before = "FUNDED"
  <2>1. paid[k].shipper = 0 /\ toWinner = 0 /\ MoneyPhase("FUNDED") = "FUNDED"
    BY <1>1, <1>5 DEF MoneyShape, MoneyPhase
  <2>2. paid[k].shipper + toShipper = tenderMoney[k].held
    BY <1>3, <2>1
  <2>3. Money!GiveBack(k)
    <3>1. tenderMoney' = [tenderMoney EXCEPT ![k].phase = "SETTLED", ![k].held = 0,
                                             ![k].back = tenderMoney[k].held]
      <4>1. tenderMoney'[k] = [tenderMoney[k] EXCEPT !.phase = "SETTLED", !.held = 0,
                                                     !.back = tenderMoney[k].held]
        BY <1>3, <2>1, <2>2 DEF MoneyRecord
      <4> QED BY <1>3, <4>1
    <3> QED BY <1>3, <1>5, <2>1, <3>1 DEF Money!GiveBack
  <2> QED BY <1>4, <2>3 DEF Money!Next
<1>6. CASE before # "FUNDED"
  <2>1. /\ MoneyPhase(before) = "LOCKED"
        /\ toWinner \in 0..tenderMoney[k].held
        /\ paid[k].shipper + toShipper
             = tenderMoney[k].back + tenderMoney[k].held - toWinner
    BY <1>1, <1>3, <1>6 DEF MoneyPhase
  <2>2. Money!Settle(k)
    <3>1. tenderMoney' = [tenderMoney EXCEPT ![k].phase = "SETTLED", ![k].held = 0,
                    ![k].back = tenderMoney[k].back + tenderMoney[k].held - toWinner,
                    ![k].paid = toWinner]
      <4>1. tenderMoney'[k] = [tenderMoney[k] EXCEPT !.phase = "SETTLED", !.held = 0,
                      !.back = tenderMoney[k].back + tenderMoney[k].held - toWinner,
                      !.paid = toWinner]
        BY <1>3, <2>1 DEF MoneyRecord
      <4> QED BY <1>3, <4>1
    <3> QED BY <1>3, <2>1, <3>1 DEF Money!Settle
  <2> QED BY <1>4, <2>2 DEF Money!Next
<1> QED BY <1>5, <1>6

(* Registering and disputing are invisible; funding is the abstract        *)
(* Deposit; allocating a winner is the abstract Lock.                      *)
LEMMA CallImplements ==
  ASSUME BooksInv, BooksInv', MoneyShape, NEW sender \in Accounts, NEW k \in Tenders,
         TenderCall(sender, k)
  PROVE  [Money!Next]_tenderMoney /\ MoneyShape'
<1> USE EscrowConstants
<1> DEFINE Step == [Money!Next]_tenderMoney /\ MoneyShape'
<1>0. /\ tenders \in [Tenders -> TenderEscrow] /\ tenders[k] \in TenderEscrow
      /\ paid \in [Tenders -> Payments]
      /\ paid[k] \in Payments
      /\ tenders[k].fundedAmount \in Nat /\ tenders[k].lockedAmount \in Nat
      /\ TypeOK /\ TypeOK'
  BY DEF BooksInv, TypeOK, TenderEscrow, Amounts
<1>a. ASSUME OnlyTender(k), tenderMoney'[k] = tenderMoney[k]
      PROVE  tenderMoney' = tenderMoney
  BY <1>0, <1>a, MoneyUpdate
<1>1. ASSUME NEW p, NEW s, NEW b \in AmountArgs, NEW h,
             registerTender(sender, k, p, s, b, h)
      PROVE  Step
  <2>1. /\ tenders[k].state = "UNREGISTERED" /\ b > 0
        /\ OnlyTender(k) /\ paid' = paid
        /\ tenders'[k] = [tenders[k] EXCEPT !.state = "REGISTERED", !.shipper = s,
                                            !.maxBudget = b, !.creationAuthHash = h]
    BY <1>0, <1>1 DEF registerTender, _requireState, OnlyTender
  <2>2. tenders'[k].state = "REGISTERED" /\ tenders'[k].maxBudget = b
    BY <1>0, <2>1 DEF TenderEscrow
  <2>3. MoneyShape'
    BY <2>1, <2>2, ShapeOf DEF MoneyShape
  <2>4. tenderBalance(k) = 0 /\ tenderBalance(k)' = 0
    BY <2>1, <2>2 DEF tenderBalance
  <2>5. tenderMoney'[k] = tenderMoney[k]
    BY <2>1, <2>2, <2>4 DEF tenderMoney, MoneyPhase
  <2> QED BY <1>a, <2>1, <2>3, <2>5
<1>2. ASSUME NEW a \in AmountArgs, fundTender(sender, k, a)
      PROVE  Step
  <2>1. /\ tenders[k].state = "REGISTERED" /\ a = tenders[k].maxBudget
        /\ OnlyTender(k)
        /\ tenders'[k] = [tenders[k] EXCEPT !.state = "FUNDED", !.fundedAmount = a]
        /\ paid'[k] = [paid[k] EXCEPT !.in = paid[k].in + a]
    BY <1>0, <1>2 DEF fundTender, _requireState, OnlyTender
  <2>2. /\ tenders'[k].state = "FUNDED" /\ tenders'[k].fundedAmount = a
        /\ a \in 1..MaxHts
        /\ paid'[k].shipper = 0 /\ paid[k].shipper = 0
        /\ paid'[k].winner = 0 /\ paid[k].winner = 0
    BY <1>0, <2>1 DEF TenderEscrow, Amounts, MoneyShape, BooksInv, RecordShape, Settled
  <2>3. MoneyShape'
    BY <2>1, <2>2, ShapeOf DEF MoneyShape
  <2>4. tenderBalance(k)' = a
    BY <2>2 DEF tenderBalance
  <2>5. MoneyPhase("REGISTERED") = "OPEN" /\ MoneyPhase("FUNDED") = "FUNDED"
    BY DEF MoneyPhase
  <2>6. tenderMoney' = [tenderMoney EXCEPT ![k].phase = "FUNDED", ![k].held = a]
    <3>1. /\ tenderMoney[k] \in MoneyRecord /\ tenderMoney'[k] \in MoneyRecord
          /\ tenderMoney' = [tenderMoney EXCEPT ![k] = tenderMoney'[k]]
          /\ tenderMoney'[k].phase = "FUNDED" /\ tenderMoney'[k].held = a
          /\ tenderMoney'[k].back = tenderMoney[k].back
          /\ tenderMoney'[k].paid = tenderMoney[k].paid
      BY ZenonT(60), <1>0, <2>1, <2>2, <2>4, <2>5, MoneyUpdate
    <3>2. tenderMoney'[k] = [tenderMoney[k] EXCEPT !.phase = "FUNDED", !.held = a]
      BY <3>1 DEF MoneyRecord
    <3> QED BY <3>1, <3>2
  <2>7. tenderMoney[k].phase = "OPEN"
    BY <1>0, <2>1, <2>5, MoneyUpdate
  <2>8. Money!Deposit(k)
    BY <2>2, <2>6, <2>7 DEF Money!Deposit
  <2> QED BY <2>3, <2>8 DEF Money!Next
<1>3. ASSUME NEW w, NEW a \in AmountArgs, NEW m, NEW h,
             allocateWinner(sender, k, w, a, m, h)
      PROVE  Step
  <2> DEFINE excess == tenders[k].fundedAmount - a
  <2>1. /\ tenders[k].state = "FUNDED" /\ a \in 1..tenders[k].fundedAmount
        /\ OnlyTender(k)
        /\ tenders'[k] = [tenders[k] EXCEPT !.state = "ALLOCATED", !.winner = w,
                             !.lockedAmount = a, !.excessRefunded = excess,
                             !.decisionManifestHash = m]
        /\ paid'[k] = [paid[k] EXCEPT !.shipper = paid[k].shipper + excess, !.allocation = h]
    BY <1>0, <1>3 DEF allocateWinner, _requireState, OnlyTender, AmountArgs
  <2>2. /\ tenders'[k].state = "ALLOCATED" /\ tenders'[k].lockedAmount = a
        /\ paid[k].shipper = 0 /\ paid'[k].shipper = excess
        /\ paid[k].winner = 0 /\ paid'[k].winner = 0
    <3>1. paid[k].shipper = 0 /\ paid[k].winner = 0
      BY <2>1 DEF MoneyShape, BooksInv, RecordShape, Settled
    <3>2. excess \in Nat /\ paid[k].shipper + excess = excess
      BY <1>0, <2>1, <3>1
    <3>3. paid'[k].shipper = paid[k].shipper + excess /\ paid'[k].winner = paid[k].winner
      BY <1>0, <2>1
    <3>4. tenders'[k].state = "ALLOCATED" /\ tenders'[k].lockedAmount = a
      BY <1>0, <2>1 DEF TenderEscrow
    <3> QED BY <3>1, <3>2, <3>3, <3>4
  <2>3. MoneyShape'
    BY <2>1, <2>2, ShapeOf DEF MoneyShape
  <2>4. tenderBalance(k)' = a /\ tenderBalance(k) = tenders[k].fundedAmount
    BY <2>1, <2>2 DEF tenderBalance
  <2>5. MoneyPhase("ALLOCATED") = "LOCKED" /\ MoneyPhase("FUNDED") = "FUNDED"
    BY DEF MoneyPhase
  <2>6. tenderMoney' = [tenderMoney EXCEPT ![k].phase = "LOCKED", ![k].held = a,
                                           ![k].back = tenderMoney[k].held - a]
    <3>1. /\ tenderMoney[k] \in MoneyRecord /\ tenderMoney'[k] \in MoneyRecord
          /\ tenderMoney' = [tenderMoney EXCEPT ![k] = tenderMoney'[k]]
          /\ tenderMoney'[k].phase = "LOCKED" /\ tenderMoney'[k].held = a
          /\ tenderMoney'[k].back = tenderMoney[k].held - a
          /\ tenderMoney'[k].paid = tenderMoney[k].paid
      <4>1. excess = tenderBalance(k) - a
        BY <2>4
      <4>2. /\ tenderMoney[k] \in MoneyRecord /\ tenderMoney'[k] \in MoneyRecord
            /\ tenderMoney' = [tenderMoney EXCEPT ![k] = tenderMoney'[k]]
        BY <1>0, <2>1, MoneyUpdate
      <4>3. /\ tenderMoney'[k].phase = MoneyPhase(tenders'[k].state)
            /\ tenderMoney'[k].held = tenderBalance(k)'
            /\ tenderMoney[k].held = tenderBalance(k)
            /\ tenderMoney'[k].back = paid'[k].shipper
            /\ tenderMoney'[k].paid = paid'[k].winner
            /\ tenderMoney[k].paid = paid[k].winner
        BY <1>0, <2>1, MoneyUpdate
      <4> QED BY <2>2, <2>4, <2>5, <4>1, <4>2, <4>3
    <3>2. tenderMoney'[k] = [tenderMoney[k] EXCEPT !.phase = "LOCKED", !.held = a,
                                                   !.back = tenderMoney[k].held - a]
      BY <3>1 DEF MoneyRecord
    <3> QED BY <3>1, <3>2
  <2>7. tenderMoney[k].phase = "FUNDED" /\ tenderMoney[k].held = tenders[k].fundedAmount
    BY <1>0, <2>1, <2>4, <2>5, MoneyUpdate
  <2>8. Money!Lock(k)
    BY <2>1, <2>6, <2>7 DEF Money!Lock
  <2> QED BY <2>3, <2>8 DEF Money!Next
<1>4. ASSUME NEW h, openDispute(sender, k, h) PROVE Step
  <2>1. /\ tenders[k].state = "ALLOCATED" /\ OnlyTender(k) /\ paid' = paid
        /\ tenders'[k] = [tenders[k] EXCEPT !.state = "DISPUTED", !.disputeAuthHash = h]
    BY <1>0, <1>4 DEF openDispute, _requireState, OnlyTender
  <2>2. /\ tenders'[k].state = "DISPUTED"
        /\ tenders'[k].lockedAmount = tenders[k].lockedAmount
    BY <1>0, <2>1 DEF TenderEscrow
  <2>3. MoneyShape'
    BY <2>1, <2>2, ShapeOf DEF MoneyShape
  <2>4. tenderBalance(k)' = tenderBalance(k)
    BY <2>1, <2>2 DEF tenderBalance
  <2>5. tenderMoney'[k] = tenderMoney[k]
    BY <2>1, <2>2, <2>4 DEF tenderMoney, MoneyPhase
  <2> QED BY <1>a, <2>1, <2>3, <2>5
<1>5. ASSUME NEW h \in HashArgs, refundNoQualifiedBid(sender, k, h) PROVE Step
  <2>1. tenders[k].state = "FUNDED"
    BY <1>5 DEF refundNoQualifiedBid, SettleTender, _requireState
  <2>2. tenders[k].fundedAmount + 0 = tenderBalance(k) /\ "REFUNDED" \in Settled
    BY <1>0, <2>1 DEF tenderBalance, Settled
  <2> QED BY <1>0, <1>5, <2>2, SettleImplements DEF refundNoQualifiedBid
<1>6. ASSUME NEW h \in HashArgs, NEW before \in {"ALLOCATED", "DISPUTED"},
             SettleTender(sender, k, before, "RELEASED", 0, tenders[k].lockedAmount, h)
      PROVE  Step
  <2>1. tenders[k].state = before
    BY <1>6 DEF SettleTender, _requireState
  <2>2. 0 + tenders[k].lockedAmount = tenderBalance(k) /\ "RELEASED" \in Settled
    BY <1>0, <2>1 DEF tenderBalance, Settled
  <2> QED BY <1>0, <1>6, <2>2, SettleImplements
<1>7. ASSUME NEW h \in HashArgs, refundFull(sender, k, h) PROVE Step
  <2>1. tenders[k].state = "DISPUTED"
    BY <1>7 DEF refundFull, SettleTender, _requireState
  <2>2. tenders[k].lockedAmount + 0 = tenderBalance(k) /\ "REFUNDED" \in Settled
    BY <1>0, <2>1 DEF tenderBalance, Settled
  <2> QED BY <1>0, <1>7, <2>2, SettleImplements DEF refundFull
<1>8. ASSUME NEW w \in AmountArgs, NEW s \in AmountArgs, NEW h \in HashArgs,
             partialRelease(sender, k, w, s, h)
      PROVE  Step
  <2>1. tenders[k].state = "DISPUTED" /\ w + s = tenders[k].lockedAmount
    BY <1>8 DEF partialRelease, SettleTender, _requireState
  <2>2. w \in Nat /\ s \in Nat
    BY DEF AmountArgs
  <2>3. s + w = tenderBalance(k) /\ "PARTIALLY_RELEASED" \in Settled
    BY <1>0, <2>1, <2>2 DEF tenderBalance, Settled
  <2> QED BY <1>8, <2>2, <2>3, SettleImplements DEF partialRelease
<1> HIDE DEF Step
<1>9. Step
  BY <1>1, <1>2, <1>3, <1>4, <1>5, <1>6, <1>7, <1>8
     DEF TenderCall, releaseFull, resolveDisputeRelease
<1> QED BY <1>9 DEF Step

(* Every behaviour of the contract is a behaviour of TenderMoney under the *)
(* mapping: a tender's money is put in once, locked or given back once and *)
(* paid out once, in the amounts TenderMoney allows.                       *)
THEOREM MoneyRefined == Spec => ImplementsTenderMoney
<1>1. Init => Money!Init /\ MoneyShape
  <2> SUFFICES ASSUME Init PROVE Money!Init /\ MoneyShape
    OBVIOUS
  <2>1. \A k \in Tenders : /\ tenders[k].state = "UNREGISTERED"
                           /\ paid[k].shipper = 0 /\ paid[k].winner = 0
                           /\ tenderBalance(k) = 0
    BY DEF Init, constructor, NoTender, tenderBalance
  <2>2. MoneyPhase("UNREGISTERED") = "OPEN"
    BY DEF MoneyPhase
  <2> QED BY <2>1, <2>2 DEF Money!Init, Money!Fresh, tenderMoney, MoneyShape
<1>2. BooksInv /\ BooksInv' /\ MoneyShape /\ [Next]_vars
        => [Money!Next]_tenderMoney /\ MoneyShape'
  <2> SUFFICES ASSUME BooksInv, BooksInv', MoneyShape, [Next]_vars
               PROVE  [Money!Next]_tenderMoney /\ MoneyShape'
    OBVIOUS
  <2>1. ASSUME UNCHANGED <<tenders, paid>>
        PROVE  [Money!Next]_tenderMoney /\ MoneyShape'
    BY <2>1 DEF MoneyShape, tenderMoney, tenderBalance
  <2>2. ASSUME NEW sender \in Accounts, AdminCall(sender)
        PROVE  UNCHANGED <<tenders, paid>>
    BY <2>2 DEF AdminCall, associateEscrowToken, transferOwnership,
                acceptOwnership, renounceOwnership
  <2>3. CASE UNCHANGED vars
    BY <2>1, <2>3 DEF vars
  <2> QED BY <2>1, <2>2, <2>3, CallImplements DEF Next
<1> QED BY <1>1, <1>2, BooksAlways, PTL DEF Spec, ImplementsTenderMoney, Money!Spec
==============================================================================
