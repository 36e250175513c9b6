----------------------------- MODULE EscrowMoney -----------------------------
(***************************************************************************)
(* The escrow contract implements TenderMoney: its registered states, the  *)
(* balance it holds for a tender and the transfers it has made are the     *)
(* abstract phases and amounts.  Disputes, hashes and owners are invisible.*)
(***************************************************************************)
EXTENDS FreightEscrow

MoneyPhase(s) ==
  CASE s \in {"UNREGISTERED", "REGISTERED"} -> "OPEN"
    [] s = "FUNDED" -> "FUNDED"
    [] s \in {"ALLOCATED", "DISPUTED"} -> "LOCKED"
    [] OTHER -> "SETTLED"

tenderMoney ==
  [k \in Tenders |-> [phase |-> MoneyPhase(tenders[k].state), held |-> tenderBalance(k),
                      back |-> paid[k].shipper, paid |-> paid[k].winner]]

Money == INSTANCE TenderMoney WITH MaxAmount <- MaxHts, money <- tenderMoney

(* Every call of the contract is a step of TenderMoney on one tender, or   *)
(* none: no order of calls, of any number of tenders and owners, moves     *)
(* money twice, out of turn or in another amount.                          *)
ImplementsTenderMoney == Money!Spec
==============================================================================
