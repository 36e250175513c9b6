--------------------------- MODULE MCAccessPayments ---------------------------
(* The access routes of one tender with clients that retry, reuse payments  *)
(* and race.                                                                *)
EXTENDS AccessPayments, TLC

CONSTANTS a1, a2, a3, b1, x, y, p1, p2, p3

Activate(a, p) == [action |-> a, bid |-> Activation, body |-> None, payload |-> p]
Bid(a, body, p) == [action |-> a, bid |-> b1, body |-> body, payload |-> p]

(* p1 and p2 are made for an activation and p3 for the bid. *)
PayloadResources == [p \in Payloads |-> IF p \in {p1, p2} THEN Activation ELSE b1]

(* Two activations, the second with the first one's payment or its own; or  *)
(* a bid that offers a payment made for an activation, its own, and another *)
(* body.                                                                    *)
Mixed ==
  {{Activate(a1, p1), Activate(a1, None), Activate(a2, p1), Activate(a2, p2)},
   {Activate(a1, p1), Bid(a3, x, p2), Bid(a3, x, p3), Bid(a3, y, p3)}}

(* A client that sends its paid activation again. *)
PaidRetry == {{Activate(a1, p1)}}

HandlerSymmetry == Permutations(Handlers)
=============================================================================
