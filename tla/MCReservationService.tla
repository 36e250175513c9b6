---- MODULE MCReservationService ----
(* Two invocations at a time, two signed transactions, either asset: a     *)
(* second caller may race, a first payment may be concluded and            *)
(* replaced, and either may be lost on the way.  Without fairness a worker *)
(* may stop for good, which is a crash that leaves the other one to resume.*)
EXTENDS ReservationService, TLC

ReservationSymmetry == Permutations(Worker) \cup Permutations(Tx)
====
