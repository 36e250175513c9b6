--------------------------- MODULE MCFreightEscrow ---------------------------
(* The contract with two tenders, two accounts and five hashes. *)
EXTENDS EscrowMoney, TLC

HashSymmetry == Permutations(Hashes)
=============================================================================
