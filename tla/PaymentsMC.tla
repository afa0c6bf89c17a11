----------------------------- MODULE PaymentsMC -----------------------------
(* Payments for TLC: one application and the payment rows of its attempts. *)
EXTENDS Payments, TLC

CONSTANTS a1, p1, p2, p3

OneApplication    == {a1}
ThreePayments     == {p1, p2, p3}
TwoPayments       == {p1, p2}
AllOfOne          == [p \in PaymentIds |-> a1]

Symmetry == Permutations(PaymentIds) \cup Permutations(Requests) \cup Permutations(Deliveries)
=============================================================================
