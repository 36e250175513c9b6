-------------------------- MODULE MCTenderLifecycle --------------------------
(* The lifecycle of one tender with two bids and three payments. *)
EXTENDS LifecycleMoney, TLC

PaymentSymmetry == Permutations(Txs) \cup Permutations(Bids)
=============================================================================
