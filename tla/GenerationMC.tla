---------------------------- MODULE GenerationMC ----------------------------
(* Generation for TLC: two requirements of one class. *)
EXTENDS Generation, TLC

CONSTANTS q1, q2, k, t1, t2

OneClass == [r \in Requirements |-> k]
Needs == [r \in Requirements |-> IF r = q1 THEN 2 ELSE 1]
Absences == {<<t2, 1>>}

Symmetry == Permutations(Rooms) \cup Permutations(Courses) \cup Permutations(Runs)
=============================================================================
