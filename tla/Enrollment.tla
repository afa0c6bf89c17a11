----------------------------- MODULE Enrollment -----------------------------
(***************************************************************************)
(* Enrollments in one school and the courses that follow from them:        *)
(* enrollStudent, updateEnrollment, syncCourseEnrollments, createCourse,   *)
(* updateCourse, updateProgram, createAcademicYear and updateAcademicYear  *)
(* of SchoolService (src/backend/src/modules/school/school.service.ts),    *)
(* and the automatic enrollment that a payment or an acceptance performs   *)
(* in its own transaction.                                                 *)
(*                                                                         *)
(* An enrollment is written by one statement, the list of published        *)
(* courses read by another, the course enrollments aligned by a third.     *)
(* Checks of the other operations are reads before their write.  The       *)
(* history variables say when two operations crossed; no action reads      *)
(* them.  bulkEnrollStudents is enrollStudent again and again.             *)
(***************************************************************************)
EXTENDS Naturals, FiniteSets

CONSTANTS
    Students,
    Programs,   \* SchoolProgram rows
    MaxLevel,   \* bound on durationYears
    Courses,    \* Course rows that may come to exist
    Years,      \* SchoolAcademicYear rows, existing or yet to be created
    Requests,   \* operations that may run at once
    None

ASSUME LevelAssumption == MaxLevel \in Nat \ {0}
ASSUME NoneAssumption ==
    /\ None \notin Students
    /\ None \notin [program : Programs, level : 1 .. MaxLevel, published : BOOLEAN]
    /\ None \notin [program : Programs, level : 1 .. MaxLevel,
                    status : {"ACTIVE", "WITHDRAWN", "GRADUATED"}]

VARIABLES
    duration,   \* SchoolProgram.durationYears
    course,     \* program, level and isPublished of the courses
    enrolled,   \* StudentEnrollment: program, level and status
    follows,    \* CourseEnrollment: the courses of each student
    current,    \* the years marked isCurrent
    req,        \* operations under way
    crossed,    \* students an operation on whom crossed another, or died half-way
    changed,    \* students whose courses changed since they were aligned
    switched    \* two switches of the current year crossed

school == <<duration, course, enrolled, follows, current>>
history == <<crossed, changed, switched>>
vars == <<duration, course, enrolled, follows, current, req, crossed, changed, switched>>

-----------------------------------------------------------------------------
Levels == 1 .. MaxLevel
Statuses == {"ACTIVE", "WITHDRAWN", "GRADUATED"}

Course == [program : Programs, level : Levels, published : BOOLEAN]
StudentEnrollment == [program : Programs, level : Levels, status : Statuses]

\* Steps of the operations on one student.
EnrollSteps == {"enrolling", "enrolled", "synchronising", "automatic"}
Steps == EnrollSteps \cup {"idle", "closing", "shortening", "switching"}

\* clean: no operation it may disturb, or be disturbed by, has been under way
\* since it began.
Operation == [pc : Steps, student : Students \cup {None}, course : Courses \cup {None},
              program : Programs \cup {None}, level : 0 .. MaxLevel,
              courses : SUBSET Courses, years : SUBSET Years,
              year : Years \cup {None}, clean : BOOLEAN]

Idle == [pc |-> "idle", student |-> None, course |-> None, program |-> None, level |-> 0,
         courses |-> {}, years |-> {}, year |-> None, clean |-> TRUE]

TypeOK ==
    /\ duration \in [Programs -> Levels]
    /\ course \in [Courses -> Course \cup {None}]
    /\ enrolled \in [Students -> StudentEnrollment \cup {None}]
    /\ follows \in [Students -> SUBSET Courses]
    /\ current \subseteq Years
    /\ req \in [Requests -> Operation]
    /\ crossed \subseteq Students /\ changed \subseteq Students
    /\ switched \in BOOLEAN

Init ==
    /\ duration \in [Programs -> Levels]
    /\ course = [c \in Courses |-> None]
    /\ enrolled = [s \in Students |-> None]
    /\ follows = [s \in Students |-> {}]
    /\ current = {}
    /\ req = [r \in Requests |-> Idle]
    /\ crossed = {} /\ changed = {} /\ switched = FALSE

\* The published courses of a program and level, in the courses given.
Offered(courses, program, level) ==
    {c \in Courses : courses[c] # None /\ courses[c] = [program |-> program, level |-> level,
                                                       published |-> TRUE]}

Active(s) == enrolled[s] # None /\ enrolled[s].status = "ACTIVE"

On(s) == {q \in Requests : req[q].pc \in EnrollSteps /\ req[q].student = s}
Checking == {q \in Requests : req[q].pc \in {"closing", "shortening"}}
EnrollingSomebody == {q \in Requests : req[q].pc \in EnrollSteps}
Switching == {q \in Requests : req[q].pc = "switching"}

\* r begins an operation that crosses those of the requests given.
Begins(r, operation, others) ==
    req' = [q \in Requests |->
              IF q = r THEN [operation EXCEPT !.clean = (others = {})]
              ELSE IF q \in others THEN [req[q] EXCEPT !.clean = FALSE]
              ELSE req[q]]

Ends(r) == req' = [req EXCEPT ![r] = Idle]

-----------------------------------------------------------------------------
(* Enrollments *)

BeginOn(r, s, operation) ==
    LET others == On(s) \cup Checking IN
    /\ req[r].pc = "idle"
    /\ Begins(r, operation, others)
    /\ crossed' = IF others = {} THEN crossed ELSE crossed \cup {s}
    /\ UNCHANGED <<school, changed, switched>>

\* enrollStudent, up to its last check: the year is open, the program active,
\* the level within its duration.
BeginEnroll(r, s, p, l) ==
    /\ l <= duration[p]
    /\ BeginOn(r, s, [Idle EXCEPT !.pc = "enrolling", !.student = s, !.program = p, !.level = l])

\* updateEnrollment with the status ACTIVE: what the request does not give is
\* taken from the enrollment read, so that any program and level may come.
BeginUpdateEnrollment(r, s, p, l) ==
    /\ enrolled[s] # None
    /\ BeginEnroll(r, s, p, l)

WriteEnrollment(r) ==
    /\ req[r].pc = "enrolling"
    /\ enrolled' = [enrolled EXCEPT ![req[r].student] =
                       [program |-> req[r].program, level |-> req[r].level, status |-> "ACTIVE"]]
    /\ req' = [req EXCEPT ![r].pc = "enrolled"]
    /\ UNCHANGED <<duration, course, follows, current, history>>

\* syncCourseEnrollments: the list, then one transaction.
ReadCourses(r) ==
    /\ req[r].pc = "enrolled"
    /\ req' = [req EXCEPT ![r].pc = "synchronising",
                          ![r].courses = Offered(course, req[r].program, req[r].level)]
    /\ UNCHANGED <<school, history>>

\* Variant of Aligned that adds courses and removes none.
OnlyAdded(r) == follows[req[r].student] \cup req[r].courses

\* Course enrollments not in the list are deleted, those of the list upserted.
Aligned(r) == req[r].courses

Synchronises(r) ==
    LET s == req[r].student IN
    /\ follows' = [follows EXCEPT ![s] = Aligned(r)]
    /\ crossed' = IF req[r].clean THEN crossed \ {s} ELSE crossed
    /\ changed' = IF req[r].courses = Offered(course, req[r].program, req[r].level)
                  THEN changed \ {s} ELSE changed \cup {s}
    /\ Ends(r)

Synchronise(r) ==
    /\ req[r].pc = "synchronising"
    /\ Synchronises(r)
    /\ UNCHANGED <<duration, course, enrolled, current, switched>>

\* Variant of FirstLevel that counts the years of a program from 0.
YearZero == 0

\* programLevel of an automatic enrollment.
FirstLevel == 1

\* The automatic enrollment at the first level, if the school has a current year: its
\* transaction reads the courses, then commits enrollment and courses at once.
BeginAutomatic(r, s, p) ==
    /\ current # {}
    /\ BeginOn(r, s, [Idle EXCEPT !.pc = "automatic", !.student = s, !.program = p,
                                  !.level = FirstLevel, !.courses = Offered(course, p, FirstLevel)])

CommitAutomatic(r) ==
    /\ req[r].pc = "automatic"
    /\ enrolled' = [enrolled EXCEPT ![req[r].student] =
                       [program |-> req[r].program, level |-> req[r].level, status |-> "ACTIVE"]]
    /\ Synchronises(r)
    /\ UNCHANGED <<duration, course, current, switched>>

\* Variant of LeaveSchool that withdraws the student from his courses.
LeaveEmptyHanded(s, status) ==
    /\ enrolled[s] # None
    /\ status # "ACTIVE"
    /\ enrolled' = [enrolled EXCEPT ![s].status = status]
    /\ follows' = [follows EXCEPT ![s] = {}]
    /\ UNCHANGED <<duration, course, current, req, history>>

\* updateEnrollment with another status: the courses stay.
LeaveSchool(s, status) ==
    /\ enrolled[s] # None
    /\ status # "ACTIVE"
    /\ enrolled' = [enrolled EXCEPT ![s].status = status]
    /\ req' = [q \in Requests |-> IF q \in On(s) THEN [req[q] EXCEPT !.clean = FALSE] ELSE req[q]]
    /\ crossed' = IF On(s) = {} THEN crossed ELSE crossed \cup {s}
    /\ UNCHANGED <<duration, course, follows, current, changed, switched>>

-----------------------------------------------------------------------------
(* Courses and programs *)

\* The courses become those given.
CourseWrite(courses) ==
    /\ course' = courses
    /\ changed' = changed \cup
          {s \in Students :
              /\ enrolled[s] # None
              /\ Offered(courses, enrolled[s].program, enrolled[s].level)
                 # Offered(course, enrolled[s].program, enrolled[s].level)}
    /\ UNCHANGED <<duration, enrolled, follows, current, crossed, switched>>

\* createCourse enrolls nobody.
CreateCourse(c, p, l, published) ==
    /\ course[c] = None
    /\ l <= duration[p]
    /\ CourseWrite([course EXCEPT ![c] = [program |-> p, level |-> l, published |-> published]])
    /\ UNCHANGED req

\* updateCourse, without closing the course; the level is not checked.
EditCourse(c, p, l, published) ==
    /\ course[c] # None
    /\ course[c].published => published
    /\ CourseWrite([course EXCEPT ![c] = [program |-> p, level |-> l, published |-> published]])
    /\ UNCHANGED req

BeginCheck(r, operation) ==
    /\ req[r].pc = "idle"
    /\ Begins(r, operation, EnrollingSomebody)
    /\ crossed' = crossed \cup {req[q].student : q \in EnrollingSomebody}
    /\ UNCHANGED <<school, changed, switched>>

\* Variant of HasStudents that counts nobody.
IsOpen(c) == FALSE

\* The count of updateCourse: active students of the school.
HasStudents(c) == \E s \in Students : Active(s) /\ c \in follows[s]

\* updateCourse with isPublished: false: the students are counted, then the
\* course is written.
BeginClose(r, c) ==
    /\ course[c] # None
    /\ ~HasStudents(c)
    /\ BeginCheck(r, [Idle EXCEPT !.pc = "closing", !.course = c])

CloseCourse(r) ==
    /\ req[r].pc = "closing"
    /\ CourseWrite([course EXCEPT ![req[r].course].published = FALSE])
    /\ Ends(r)

\* Variant of TooLong that forgets the level of the students.
NeverTooLong(p, years) == FALSE

\* An active student is above the duration given.
TooLong(p, years) ==
    \E s \in Students : Active(s) /\ enrolled[s].program = p /\ enrolled[s].level > years

\* updateProgram with a shorter duration: the students are looked at, then the
\* program is written.
BeginShorten(r, p, years) ==
    /\ years < duration[p]
    /\ ~TooLong(p, years)
    /\ BeginCheck(r, [Idle EXCEPT !.pc = "shortening", !.program = p, !.level = years])

ShortenProgram(r) ==
    /\ req[r].pc = "shortening"
    /\ duration' = [duration EXCEPT ![req[r].program] = req[r].level]
    /\ Ends(r)
    /\ UNCHANGED <<course, enrolled, follows, current, history>>

LengthenProgram(p, years) ==
    /\ years > duration[p]
    /\ duration' = [duration EXCEPT ![p] = years]
    /\ UNCHANGED <<course, enrolled, follows, current, req, history>>

-----------------------------------------------------------------------------
(* Academic years *)

\* createAcademicYear and updateAcademicYear with isCurrent, at Read
\* Committed: the years to clear are those that the updateMany sees.
BeginSwitch(r, y) ==
    /\ req[r].pc = "idle"
    /\ Begins(r, [Idle EXCEPT !.pc = "switching", !.year = y, !.years = current \ {y}], Switching)
    /\ switched' = (switched \/ Switching # {})
    /\ UNCHANGED <<school, crossed, changed>>

\* Variant of CurrentAfter that clears no other year.
AlsoCurrent(r) == current \cup {req[r].year}

CurrentAfter(r) == (current \ req[r].years) \cup {req[r].year}

Switch(r) ==
    /\ req[r].pc = "switching"
    /\ current' = CurrentAfter(r)
    /\ switched' = (switched /\ ~req[r].clean)
    /\ Ends(r)
    /\ UNCHANGED <<duration, course, enrolled, follows, crossed, changed>>

\* updateAcademicYear with isCurrent: false.
EndYear(y) ==
    /\ current' = current \ {y}
    /\ UNCHANGED <<duration, course, enrolled, follows, req, history>>

-----------------------------------------------------------------------------
\* A refusal, an error or a crash between two statements.  Before the
\* enrollment is written nothing has happened; a transaction is undone.
GiveUp(r) ==
    /\ req[r].pc # "idle"
    /\ crossed' = IF req[r].pc \in {"enrolled", "synchronising"}
                  THEN crossed \cup {req[r].student} ELSE crossed
    /\ Ends(r)
    /\ UNCHANGED <<school, changed, switched>>

EnrollmentStep ==
    \/ \E r \in Requests, s \in Students, p \in Programs, l \in Levels :
          BeginEnroll(r, s, p, l) \/ BeginUpdateEnrollment(r, s, p, l)
    \/ \E r \in Requests, s \in Students, p \in Programs : BeginAutomatic(r, s, p)
    \/ \E r \in Requests : \/ WriteEnrollment(r) \/ ReadCourses(r) \/ Synchronise(r)
                           \/ CommitAutomatic(r)
    \/ \E s \in Students, status \in Statuses : LeaveSchool(s, status)

SchoolStep ==
    \/ \E c \in Courses, p \in Programs, l \in Levels, published \in BOOLEAN :
          CreateCourse(c, p, l, published) \/ EditCourse(c, p, l, published)
    \/ \E r \in Requests, c \in Courses : BeginClose(r, c)
    \/ \E r \in Requests, p \in Programs, years \in Levels : BeginShorten(r, p, years)
    \/ \E p \in Programs, years \in Levels : LengthenProgram(p, years)
    \/ \E r \in Requests, y \in Years : BeginSwitch(r, y)
    \/ \E r \in Requests : CloseCourse(r) \/ ShortenProgram(r) \/ Switch(r)
    \/ \E y \in Years : EndYear(y)

Next == EnrollmentStep \/ SchoolStep \/ \E r \in Requests : GiveUp(r)

Spec == Init /\ [][Next]_vars

-----------------------------------------------------------------------------
(* Properties *)

\* An enrollment is written and the courses are not aligned yet.
Unaligned(s) ==
    \E r \in Requests : req[r].pc \in {"enrolled", "synchronising"} /\ req[r].student = s

\* Two operations on a student that cross (or one that dies half-way) and a
\* change of the school's courses are the only ways in which an active student
\* comes to follow other courses than those published for his program and
\* level; the next alignment that runs alone repairs both.
FollowsHisCourses ==
    \A s \in Students \ (crossed \cup changed) :
        Active(s) /\ ~Unaligned(s)
        => follows[s] = Offered(course, enrolled[s].program, enrolled[s].level)

\* An active student is left in a course that was closed only if the closing
\* crossed an operation on him: updateCourse counts first and writes later, and
\* syncCourseEnrollments works from a list read before.
ClosedCoursesNeedCrossing ==
    \A s \in Students \ crossed, c \in Courses :
        Active(s) /\ ~Unaligned(s) /\ c \in follows[s] => course[c] # None /\ course[c].published

\* An active student is above the duration of his program only if updateProgram
\* crossed an operation on him.
LevelsNeedCrossing ==
    \A s \in Students \ crossed : Active(s) => enrolled[s].level <= duration[enrolled[s].program]

\* Two years are current only if two switches crossed, and then only until a
\* switch runs alone.
TwoYearsNeedCrossing ==
    (\E x, y \in current : x # y) => switched

\* The courses of a student who left stay as they were (their marks hang on
\* them), unless an operation on him crossed his leaving.
LeaversKeepCourses ==
    [][\A s \in Students : follows'[s] # follows[s] => Active(s)' \/ s \in crossed']_vars
=============================================================================
