---------------------------- MODULE AdmissionMC ----------------------------
(* Admission for TLC: a few candidates, numbered in the order they applied. *)
EXTENDS Admission, TLC

CONSTANT r1, r2, r3

Three     == 1..3
Four      == 1..4
TwoReqs   == {r1, r2}
ThreeReqs == {r1, r2, r3}
Order     == [a \in Apps |-> a]

\* Decisions to accept, refuse, keep waiting or withdraw, and the enrollment.
Decisions == {"ACCEPTED", "REJECTED", "WAITLISTED", "ENROLLED", "CANCELLED"}

\* The same with a route that does not go through updateStatus.
DecisionsAndTest == Decisions \cup {"TEST_SCHEDULED"}

Symmetry == Permutations(Requests)
=============================================================================
