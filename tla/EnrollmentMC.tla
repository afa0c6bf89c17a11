---------------------------- MODULE EnrollmentMC ----------------------------
(* Enrollment for TLC: programs, courses, years and requests are interchangeable. *)
EXTENDS Enrollment, TLC

Symmetry == Permutations(Students) \cup Permutations(Programs) \cup Permutations(Courses)
            \cup Permutations(Years) \cup Permutations(Requests)
=============================================================================
