----------------------------- MODULE TenderMoney -----------------------------
(***************************************************************************)
(* What the escrow promises about a tender's money, whoever keeps the      *)
(* books: it is put in once; part of it is locked for a winner and the     *)
(* rest goes back at once, or all of it goes back; what was locked is paid *)
(* out once, split between the winner and the shipper, and nothing is      *)
(* touched afterwards.  The contract (module EscrowMoney) and the tender's *)
(* lifecycle record (module LifecycleMoney) both implement it.             *)
(***************************************************************************)
EXTENDS Integers

CONSTANTS
  Tenders,
  MaxAmount      \* the largest amount a tender may hold

VARIABLE money   \* by tender: the phase, what is held, given back, paid

Fresh == [phase |-> "OPEN", held |-> 0, back |-> 0, paid |-> 0]

Init == money = [k \in Tenders |-> Fresh]

Deposit(k) ==
  /\ money[k].phase = "OPEN"
  /\ \E a \in 1..MaxAmount :
       money' = [money EXCEPT ![k].phase = "FUNDED", ![k].held = a]

(* Part of the deposit is locked for a winner, the excess goes back. *)
Lock(k) ==
  /\ money[k].phase = "FUNDED"
  /\ \E a \in 1..money[k].held :
       money' = [money EXCEPT ![k].phase = "LOCKED", ![k].held = a,
                              ![k].back = money[k].held - a]

GiveBack(k) ==
  /\ money[k].phase = "FUNDED"
  /\ money' = [money EXCEPT ![k].phase = "SETTLED", ![k].held = 0,
                            ![k].back = money[k].held]

(* The winner is paid some of what is locked, the shipper gets the rest. *)
Settle(k) ==
  /\ money[k].phase = "LOCKED"
  /\ \E a \in 0..money[k].held :
       money' = [money EXCEPT ![k].phase = "SETTLED", ![k].held = 0,
                              ![k].back = money[k].back + money[k].held - a,
                              ![k].paid = a]

Next == \E k \in Tenders : Deposit(k) \/ Lock(k) \/ GiveBack(k) \/ Settle(k)

Spec == Init /\ [][Next]_money
==============================================================================
