--------------------------- MODULE MCLifecycleStore ---------------------------
(* One tender's files under two processes and the events clients send them: *)
(* two of different actions, or two that reuse an action id with           *)
(* different payloads.                                                      *)
EXTENDS LifecycleStore

CONSTANTS a1, a2, h1, h2, creation

ReusedAction == {[action |-> a1, hash |-> h1], [action |-> a1, hash |-> h2]}
TwoEvents == {[action |-> a1, hash |-> h1], [action |-> a2, hash |-> h1]}
CreateRecord == [action |-> creation, hash |-> h1]
WriterSymmetry == Permutations(Writers)
=============================================================================
