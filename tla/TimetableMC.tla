---------------------------- MODULE TimetableMC ----------------------------
(* Timetable for TLC: two courses, each of its own school or of one. *)
EXTENDS Timetable, TLC

CONSTANTS c1, c2, t1, t2, x, q1, q2, r1, r2

TwoCourses   == {c1, c2}
SchoolOfEach == [c \in Courses |-> c]
OneSchool    == [c \in Courses |-> c1]
TwoTeachers  == {t1, t2}
OneRoom      == {x}
OneDay       == {1}
\* Sessions from 8 to 9, from 9 to 10, and one that overlaps both.
Morning      == {8, 9, 10}
TwoSlots     == {q1, q2}
TwoReqs      == {r1, r2}
\* An update gives one end of the session or the other.
Updates      == {{"from"}, {"to"}}

Symmetry == Permutations(Teachers) \cup Permutations(Slots) \cup Permutations(Requests)
\* The schools of SchoolOfEach are as alike as their courses.
SchoolSymmetry == Symmetry \cup Permutations(Courses)
=============================================================================
