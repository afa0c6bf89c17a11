-------------------------- MODULE EnrollmentProofs --------------------------
(***************************************************************************)
(* Proofs about Enrollment, for any students, programs, courses, years and *)
(* requests and for any bound on levels.                                   *)
(***************************************************************************)
EXTENDS Enrollment, TLAPS

\* The same operation, clean or not.
Like(a, b) ==
    /\ a.pc = b.pc /\ a.student = b.student /\ a.course = b.course /\ a.program = b.program
    /\ a.level = b.level /\ a.courses = b.courses /\ a.years = b.years /\ a.year = b.year

\* What an operation under way is about.
OperationsKnown ==
    \A r \in Requests :
        /\ req[r].pc \in EnrollSteps =>
              /\ req[r].student \in Students
              /\ req[r].program \in Programs
              /\ req[r].level \in Levels
        /\ req[r].pc = "closing" => req[r].course \in Courses /\ course[req[r].course] # None
        /\ req[r].pc = "shortening" => req[r].program \in Programs /\ req[r].level \in Levels
        /\ req[r].pc = "switching" => req[r].year \in Years

\* A clean operation has its student for itself; one that is not has left its
\* mark on him.
CleanAlone ==
    \A r \in Requests : req[r].pc \in EnrollSteps =>
        IF req[r].clean
        THEN On(req[r].student) = {r} /\ Checking = {}
        ELSE req[r].student \in crossed

\* The same of the switches of the current year.
CleanSwitch ==
    \A r \in Requests : req[r].pc = "switching" =>
        IF req[r].clean THEN Switching = {r} ELSE switched

\* What updateCourse and updateProgram have checked holds when they write, but
\* for the students of an operation that crossed them.
ChecksHold ==
    \A r \in Requests, s \in Students \ crossed : Active(s) =>
        /\ req[r].pc = "closing" => req[r].course \notin follows[s]
        /\ req[r].pc = "shortening" /\ enrolled[s].program = req[r].program
           => enrolled[s].level <= req[r].level

\* What a clean enrollment has checked, read and written holds until it ends.
EnrollmentsHold ==
    \A r \in Requests : req[r].clean =>
        /\ req[r].pc \in EnrollSteps => req[r].level <= duration[req[r].program]
        /\ req[r].pc \in {"enrolled", "synchronising"} =>
              enrolled[req[r].student] = [program |-> req[r].program, level |-> req[r].level,
                                          status |-> "ACTIVE"]
        /\ req[r].pc \in {"synchronising", "automatic"} =>
              \A c \in req[r].courses : course[c] # None /\ course[c].published

\* A clean switch clears every other current year.
SwitchesHold ==
    \A r \in Requests : req[r].pc = "switching" /\ req[r].clean =>
        current \ {req[r].year} \subseteq req[r].years

IInv ==
    /\ TypeOK
    /\ OperationsKnown
    /\ CleanAlone
    /\ CleanSwitch
    /\ ChecksHold
    /\ EnrollmentsHold
    /\ SwitchesHold
    /\ FollowsHisCourses
    /\ ClosedCoursesNeedCrossing
    /\ LevelsNeedCrossing
    /\ TwoYearsNeedCrossing

\* An operation that begins takes its record and marks those it crosses.
LEMMA BeginEffect ==
    ASSUME TypeOK, NEW r \in Requests, NEW operation \in Operation, NEW others,
           Begins(r, operation, others)
    PROVE  /\ req' \in [Requests -> Operation]
           /\ req'[r] = [operation EXCEPT !.clean = (others = {})]
           /\ \A q \in Requests \ {r} :
                 req'[q] = IF q \in others THEN [req[q] EXCEPT !.clean = FALSE] ELSE req[q]
<1>1. \A q \in Requests : req[q] \in Operation /\ [req[q] EXCEPT !.clean = FALSE] \in Operation
  BY DEF TypeOK, Operation
<1>2. [operation EXCEPT !.clean = (others = {})] \in Operation
  BY DEF Operation
<1>3. QED
  BY <1>1, <1>2 DEF Begins

\* The records of the operations that begin.
LEMMA OperationsTyped ==
    ASSUME TypeOK
    PROVE  /\ Idle \in Operation
           /\ \A s \in Students, p \in Programs, l \in Levels :
                 [Idle EXCEPT !.pc = "enrolling", !.student = s, !.program = p, !.level = l]
                 \in Operation
           /\ \A s \in Students, p \in Programs :
                 [Idle EXCEPT !.pc = "automatic", !.student = s, !.program = p, !.level = 1,
                              !.courses = Offered(course, p, 1)] \in Operation
           /\ \A c \in Courses : [Idle EXCEPT !.pc = "closing", !.course = c] \in Operation
           /\ \A p \in Programs, l \in Levels :
                 [Idle EXCEPT !.pc = "shortening", !.program = p, !.level = l] \in Operation
           /\ \A y \in Years :
                 [Idle EXCEPT !.pc = "switching", !.year = y, !.years = current \ {y}]
                 \in Operation
<1> USE DEF TypeOK, Operation, Idle, Steps, EnrollSteps, Levels
<1>1. 0 \in 0 .. MaxLevel /\ 1 \in 0 .. MaxLevel /\ 1 .. MaxLevel \subseteq 0 .. MaxLevel
  BY LevelAssumption
<1>2. Idle \in Operation
  BY <1>1
<1>3. \A s \in Students, p \in Programs, l \in Levels :
         [Idle EXCEPT !.pc = "enrolling", !.student = s, !.program = p, !.level = l]
         \in Operation
  BY <1>1
<1>4. \A s \in Students, p \in Programs :
         [Idle EXCEPT !.pc = "automatic", !.student = s, !.program = p, !.level = 1,
                      !.courses = Offered(course, p, 1)] \in Operation
  BY <1>1 DEF Offered
<1>5. \A c \in Courses : [Idle EXCEPT !.pc = "closing", !.course = c] \in Operation
  BY <1>1
<1>6. \A p \in Programs, l \in Levels :
         [Idle EXCEPT !.pc = "shortening", !.program = p, !.level = l] \in Operation
  BY <1>1
<1>7. \A y \in Years :
         [Idle EXCEPT !.pc = "switching", !.year = y, !.years = current \ {y}] \in Operation
  BY <1>1
<1>8. QED
  BY <1>2, <1>3, <1>4, <1>5, <1>6, <1>7

\* An operation that ends leaves the others as they are.
LEMMA EndEffect ==
    ASSUME TypeOK, NEW r \in Requests, Ends(r)
    PROVE  /\ req' \in [Requests -> Operation]
           /\ req'[r] = Idle
           /\ \A q \in Requests \ {r} : req'[q] = req[q]
BY OperationsTyped DEF Ends, TypeOK

\* Every step leaves each variable in its type.
LEMMA TypeStep == TypeOK /\ OperationsKnown /\ [Next]_vars => TypeOK'
<1> SUFFICES ASSUME TypeOK, OperationsKnown, [Next]_vars PROVE TypeOK'
  OBVIOUS
<1> USE DEF TypeOK, school, history
<1>1. ASSUME NEW r \in Requests, NEW s \in Students, NEW p \in Programs, NEW l \in Levels,
             BeginEnroll(r, s, p, l)
      PROVE  TypeOK'
  <2>1. req' \in [Requests -> Operation]
    <3> HIDE DEF TypeOK
    <3>1. QED
      BY <1>1, BeginEffect, OperationsTyped DEF BeginEnroll, BeginOn
  <2>2. QED
    BY <1>1, <2>1 DEF BeginEnroll, BeginOn
<1>2. ASSUME NEW r \in Requests, NEW s \in Students, NEW p \in Programs, NEW l \in Levels,
             BeginUpdateEnrollment(r, s, p, l)
      PROVE  TypeOK'
  BY <1>2, <1>1 DEF BeginUpdateEnrollment
<1>3. ASSUME NEW r \in Requests, NEW s \in Students, NEW p \in Programs,
             BeginAutomatic(r, s, p)
      PROVE  TypeOK'
  <2>1. req' \in [Requests -> Operation]
    <3> HIDE DEF TypeOK
    <3>1. QED
      BY <1>3, BeginEffect, OperationsTyped DEF BeginAutomatic, FirstLevel, BeginOn
  <2>2. QED
    BY <1>3, <2>1 DEF BeginAutomatic, FirstLevel, BeginOn
<1>4. ASSUME NEW r \in Requests,
             WriteEnrollment(r)
      PROVE  TypeOK'
  <2>1. req[r] \in Operation /\ req[r].pc \in EnrollSteps
    BY <1>4 DEF WriteEnrollment, EnrollSteps
  <2>2. [program |-> req[r].program, level |-> req[r].level, status |-> "ACTIVE"]
        \in StudentEnrollment
    BY <2>1 DEF OperationsKnown, StudentEnrollment, Statuses

  <2>3. [req[r] EXCEPT !.pc = "enrolled"] \in Operation
    BY <2>1 DEF Operation, Steps, EnrollSteps
  <2>4. QED
    BY <1>4, <2>2, <2>3 DEF WriteEnrollment
<1>5. ASSUME NEW r \in Requests,
             ReadCourses(r)
      PROVE  TypeOK'
  <2>1. Offered(course, req[r].program, req[r].level) \subseteq Courses
    BY DEF Offered
  <2>2. [req[r] EXCEPT !.pc = "synchronising",
                       !.courses = Offered(course, req[r].program, req[r].level)] \in Operation
    BY ZenonT(60), <2>1 DEF Operation, Steps, EnrollSteps
  <2>3. QED
    BY <1>5, <2>2 DEF ReadCourses
<1>6. ASSUME NEW r \in Requests,
             Synchronise(r)
      PROVE  TypeOK'
  <2>1. req' \in [Requests -> Operation]
    <3> HIDE DEF TypeOK
    <3>1. QED
      BY <1>6, EndEffect DEF Synchronise, Synchronises
  <2>2. QED
    BY <1>6, <2>1 DEF Synchronise, Synchronises, Aligned, Operation, OperationsKnown, EnrollSteps
<1>7. ASSUME NEW r \in Requests,
             CommitAutomatic(r)
      PROVE  TypeOK'
  <2>1. req[r] \in Operation /\ req[r].pc \in EnrollSteps
    BY <1>7 DEF CommitAutomatic, EnrollSteps
  <2>2. [program |-> req[r].program, level |-> req[r].level, status |-> "ACTIVE"]
        \in StudentEnrollment
    BY <2>1 DEF OperationsKnown, StudentEnrollment, Statuses

  <2>3. req' \in [Requests -> Operation]
    <3> HIDE DEF TypeOK
    <3>1. QED
      BY <1>7, EndEffect DEF CommitAutomatic, Synchronises
  <2>4. QED
    BY <1>7, <2>1, <2>2, <2>3 DEF CommitAutomatic, Synchronises, Aligned, Operation, OperationsKnown
<1>8. ASSUME NEW s \in Students, NEW status \in Statuses,
             LeaveSchool(s, status)
      PROVE  TypeOK'
  <2>1. \A q \in Requests : [req[q] EXCEPT !.clean = FALSE] \in Operation
    BY DEF Operation
  <2>2. [enrolled[s] EXCEPT !.status = status] \in StudentEnrollment
    BY <1>8 DEF LeaveSchool, StudentEnrollment
  <2>3. QED
    BY <1>8, <2>1, <2>2 DEF LeaveSchool
<1>9. ASSUME NEW c \in Courses, NEW p \in Programs, NEW l \in Levels, NEW published \in BOOLEAN,
             CreateCourse(c, p, l, published)
      PROVE  TypeOK'
  BY <1>9 DEF CreateCourse, CourseWrite, Course
<1>10. ASSUME NEW c \in Courses, NEW p \in Programs, NEW l \in Levels, NEW published \in BOOLEAN,
             EditCourse(c, p, l, published)
      PROVE  TypeOK'
  BY <1>10 DEF EditCourse, CourseWrite, Course
<1>11. ASSUME NEW r \in Requests, NEW c \in Courses,
             BeginClose(r, c)
      PROVE  TypeOK'
  <2>1. req' \in [Requests -> Operation]
    <3> HIDE DEF TypeOK
    <3>1. QED
      BY <1>11, BeginEffect, OperationsTyped DEF BeginClose, BeginCheck
  <2>2. QED
    BY <1>11, <2>1 DEF BeginClose, BeginCheck, EnrollingSomebody, OperationsKnown
<1>12. ASSUME NEW r \in Requests, NEW p \in Programs, NEW years \in Levels,
             BeginShorten(r, p, years)
      PROVE  TypeOK'
  <2>1. req' \in [Requests -> Operation]
    <3> HIDE DEF TypeOK
    <3>1. QED
      BY <1>12, BeginEffect, OperationsTyped DEF BeginShorten, BeginCheck
  <2>2. QED
    BY <1>12, <2>1 DEF BeginShorten, BeginCheck, EnrollingSomebody, OperationsKnown
<1>13. ASSUME NEW p \in Programs, NEW years \in Levels,
             LengthenProgram(p, years)
      PROVE  TypeOK'
  BY <1>13 DEF LengthenProgram
<1>14. ASSUME NEW r \in Requests, NEW y \in Years,
             BeginSwitch(r, y)
      PROVE  TypeOK'
  <2>1. req' \in [Requests -> Operation]
    <3> HIDE DEF TypeOK
    <3>1. QED
      BY <1>14, BeginEffect, OperationsTyped DEF BeginSwitch
  <2>2. QED
    BY <1>14, <2>1 DEF BeginSwitch
<1>15. ASSUME NEW r \in Requests,
             CloseCourse(r)
      PROVE  TypeOK'
  <2>1. req' \in [Requests -> Operation]
    <3> HIDE DEF TypeOK
    <3>1. QED
      BY <1>15, EndEffect DEF CloseCourse
  <2>2. [course[req[r].course] EXCEPT !.published = FALSE] \in Course
    BY <1>15 DEF CloseCourse, OperationsKnown, Course
  <2>3. QED
    BY <1>15, <2>1, <2>2 DEF CloseCourse, CourseWrite
<1>16. ASSUME NEW r \in Requests,
             ShortenProgram(r)
      PROVE  TypeOK'
  <2>1. req' \in [Requests -> Operation]
    <3> HIDE DEF TypeOK
    <3>1. QED
      BY <1>16, EndEffect DEF ShortenProgram
  <2>2. QED
    BY <1>16, <2>1 DEF ShortenProgram, OperationsKnown
<1>17. ASSUME NEW r \in Requests,
             Switch(r)
      PROVE  TypeOK'
  <2>1. req' \in [Requests -> Operation]
    <3> HIDE DEF TypeOK
    <3>1. QED
      BY <1>17, EndEffect DEF Switch
  <2>2. QED
    BY <1>17, <2>1 DEF Switch, OperationsKnown, CurrentAfter, Operation
<1>18. ASSUME NEW y \in Years,
             EndYear(y)
      PROVE  TypeOK'
  BY <1>18 DEF EndYear
<1>19. ASSUME NEW r \in Requests,
             GiveUp(r)
      PROVE  TypeOK'
  <2>1. req' \in [Requests -> Operation]
    <3> HIDE DEF TypeOK
    <3>1. QED
      BY <1>19, EndEffect DEF GiveUp
  <2>2. QED
    BY <1>19, <2>1 DEF GiveUp, OperationsKnown, EnrollSteps
<1>20. CASE UNCHANGED vars
  BY <1>20 DEF vars, school, history
<1> HIDE DEF TypeOK
<1>21. QED
  BY <1>1, <1>2, <1>3, <1>4, <1>5, <1>6, <1>7, <1>8, <1>9, <1>10, <1>11, <1>12, <1>13, <1>14,
     <1>15, <1>16, <1>17, <1>18, <1>19, <1>20 DEF Next, EnrollmentStep, SchoolStep

\* What BeginEnroll(r, s, p, l) does.
LEMMA BeginEnrollEffect ==
    ASSUME TypeOK, NEW r \in Requests, NEW s \in Students, NEW p \in Programs, NEW l \in Levels,
           BeginEnroll(r, s, p, l)
    PROVE  /\ l <= duration[p] /\ switched' = switched /\ duration' = duration
           /\ course' = course /\ enrolled' = enrolled /\ follows' = follows
           /\ current' = current /\ changed' = changed
           /\ req[r].pc = "idle"
           /\ req'[r].pc = "enrolling" /\ req'[r].student = s /\ req'[r].program = p
           /\ req'[r].level = l
           /\ req'[r].clean => On(s) \cup Checking = {}
           /\ ~req'[r].clean => On(s) \cup Checking # {}
           /\ crossed' = IF On(s) \cup Checking = {} THEN crossed ELSE crossed \cup {s}
           /\ \A q \in Requests \ {r} : Like(req'[q], req[q])
           /\ \A q \in Requests \ ({r} \cup (On(s) \cup Checking)) : req'[q] = req[q]
           /\ \A q \in Requests \ {r} : q \in On(s) \cup Checking => ~req'[q].clean
<1> DEFINE others == On(s) \cup Checking
<1>1. /\ req[r].pc = "idle" /\ l <= duration[p] /\ switched' = switched /\ duration' = duration
      /\ course' = course /\ enrolled' = enrolled /\ follows' = follows /\ current' = current
      /\ changed' = changed
  BY DEF BeginEnroll, BeginOn, school, history
<1>2. crossed' = IF On(s) \cup Checking = {} THEN crossed ELSE crossed \cup {s}
  BY DEF BeginEnroll, BeginOn
<1> DEFINE operation == [Idle EXCEPT !.pc = "enrolling", !.student = s, !.program = p, !.level = l]
<1>3. Begins(r, operation, others) /\ operation \in Operation
  BY OperationsTyped DEF BeginEnroll, BeginOn
<1> HIDE DEF others
<1>4. /\ req'[r].pc = "enrolling" /\ req'[r].student = s /\ req'[r].program = p /\ req'[r].level = l
      /\ req'[r].clean <=> others = {}
  <2>1. req'[r] = [operation EXCEPT !.clean = (others = {})]
    <3> HIDE DEF operation
    <3>1. QED
      BY <1>3, BeginEffect
  <2>2. QED
    BY <2>1 DEF Idle
<1>5. \A q \in Requests \ {r} :
         req'[q] = IF q \in others THEN [req[q] EXCEPT !.clean = FALSE] ELSE req[q]
  <2> HIDE DEF operation
  <2>1. QED
    BY <1>3 DEF Begins
<1>6. ASSUME NEW q \in Requests \ {r}
      PROVE  /\ Like(req'[q], req[q])
             /\ q \in others => ~req'[q].clean
             /\ q \notin others => req'[q] = req[q]
  <2>1. req[q] \in Operation
    BY DEF TypeOK
  <2>2. QED
    BY <1>5, <2>1 DEF Like, Operation
<1>7. QED
  BY <1>1, <1>2, <1>4, <1>6 DEF others

\* What BeginAutomatic(r, s, p) does.
LEMMA BeginAutomaticEffect ==
    ASSUME TypeOK, NEW r \in Requests, NEW s \in Students, NEW p \in Programs, BeginAutomatic(r,
           s, p)
    PROVE  /\ switched' = switched /\ duration' = duration /\ course' = course
           /\ enrolled' = enrolled /\ follows' = follows /\ current' = current
           /\ changed' = changed
           /\ req[r].pc = "idle"
           /\ req'[r].pc = "automatic" /\ req'[r].student = s /\ req'[r].program = p
           /\ req'[r].level = 1 /\ req'[r].courses = Offered(course, p, 1)
           /\ req'[r].clean => On(s) \cup Checking = {}
           /\ ~req'[r].clean => On(s) \cup Checking # {}
           /\ crossed' = IF On(s) \cup Checking = {} THEN crossed ELSE crossed \cup {s}
           /\ \A q \in Requests \ {r} : Like(req'[q], req[q])
           /\ \A q \in Requests \ ({r} \cup (On(s) \cup Checking)) : req'[q] = req[q]
           /\ \A q \in Requests \ {r} : q \in On(s) \cup Checking => ~req'[q].clean
<1> DEFINE others == On(s) \cup Checking
<1>1. /\ req[r].pc = "idle" /\ switched' = switched /\ duration' = duration /\ course' = course
      /\ enrolled' = enrolled /\ follows' = follows /\ current' = current /\ changed' = changed
  BY DEF BeginAutomatic, FirstLevel, BeginOn, school, history
<1>2. crossed' = IF On(s) \cup Checking = {} THEN crossed ELSE crossed \cup {s}
  BY DEF BeginAutomatic, FirstLevel, BeginOn
<1> DEFINE operation == [Idle EXCEPT !.pc = "automatic", !.student = s, !.program = p, !.level =
                                1, !.courses = Offered(course, p, 1)]
<1>3. Begins(r, operation, others) /\ operation \in Operation
  BY OperationsTyped DEF BeginAutomatic, FirstLevel, BeginOn
<1> HIDE DEF others
<1>4. /\ req'[r].pc = "automatic" /\ req'[r].student = s /\ req'[r].program = p
      /\ req'[r].level = 1 /\ req'[r].courses = Offered(course, p, 1)
      /\ req'[r].clean <=> others = {}
  <2>1. req'[r] = [operation EXCEPT !.clean = (others = {})]
    <3> HIDE DEF operation
    <3>1. QED
      BY <1>3, BeginEffect
  <2>2. QED
    BY <2>1 DEF Idle
<1>5. \A q \in Requests \ {r} :
         req'[q] = IF q \in others THEN [req[q] EXCEPT !.clean = FALSE] ELSE req[q]
  <2> HIDE DEF operation
  <2>1. QED
    BY <1>3 DEF Begins
<1>6. ASSUME NEW q \in Requests \ {r}
      PROVE  /\ Like(req'[q], req[q])
             /\ q \in others => ~req'[q].clean
             /\ q \notin others => req'[q] = req[q]
  <2>1. req[q] \in Operation
    BY DEF TypeOK
  <2>2. QED
    BY <1>5, <2>1 DEF Like, Operation
<1>7. QED
  BY <1>1, <1>2, <1>4, <1>6 DEF others

\* What BeginClose(r, c) does.
LEMMA BeginCloseEffect ==
    ASSUME TypeOK, NEW r \in Requests, NEW c \in Courses, BeginClose(r, c)
    PROVE  /\ course[c] # None /\ ~HasStudents(c) /\ switched' = switched /\ duration' = duration
           /\ course' = course /\ enrolled' = enrolled /\ follows' = follows
           /\ current' = current /\ changed' = changed
           /\ req[r].pc = "idle"
           /\ req'[r].pc = "closing" /\ req'[r].course = c
           /\ req'[r].clean => EnrollingSomebody = {}
           /\ ~req'[r].clean => EnrollingSomebody # {}
           /\ crossed' = crossed \cup {req[q].student : q \in EnrollingSomebody}
           /\ \A q \in Requests \ {r} : Like(req'[q], req[q])
           /\ \A q \in Requests \ ({r} \cup (EnrollingSomebody)) : req'[q] = req[q]
           /\ \A q \in Requests \ {r} : q \in EnrollingSomebody => ~req'[q].clean
<1> DEFINE others == EnrollingSomebody
<1>1. /\ req[r].pc = "idle" /\ course[c] # None /\ ~HasStudents(c) /\ switched' = switched
      /\ duration' = duration /\ course' = course /\ enrolled' = enrolled /\ follows' = follows
      /\ current' = current /\ changed' = changed
  BY DEF BeginClose, BeginCheck, school, history
<1>2. crossed' = crossed \cup {req[q].student : q \in EnrollingSomebody}
  BY DEF BeginClose, BeginCheck
<1> DEFINE operation == [Idle EXCEPT !.pc = "closing", !.course = c]
<1>3. Begins(r, operation, others) /\ operation \in Operation
  BY OperationsTyped DEF BeginClose, BeginCheck
<1> HIDE DEF others
<1>4. /\ req'[r].pc = "closing" /\ req'[r].course = c
      /\ req'[r].clean <=> others = {}
  <2>1. req'[r] = [operation EXCEPT !.clean = (others = {})]
    <3> HIDE DEF operation
    <3>1. QED
      BY <1>3, BeginEffect
  <2>2. QED
    BY <2>1 DEF Idle
<1>5. \A q \in Requests \ {r} :
         req'[q] = IF q \in others THEN [req[q] EXCEPT !.clean = FALSE] ELSE req[q]
  <2> HIDE DEF operation
  <2>1. QED
    BY <1>3 DEF Begins
<1>6. ASSUME NEW q \in Requests \ {r}
      PROVE  /\ Like(req'[q], req[q])
             /\ q \in others => ~req'[q].clean
             /\ q \notin others => req'[q] = req[q]
  <2>1. req[q] \in Operation
    BY DEF TypeOK
  <2>2. QED
    BY <1>5, <2>1 DEF Like, Operation
<1>7. QED
  BY <1>1, <1>2, <1>4, <1>6 DEF others

\* What BeginShorten(r, p, years) does.
LEMMA BeginShortenEffect ==
    ASSUME TypeOK, NEW r \in Requests, NEW p \in Programs, NEW years \in Levels, BeginShorten(r,
           p, years)
    PROVE  /\ ~TooLong(p, years) /\ switched' = switched /\ duration' = duration
           /\ course' = course /\ enrolled' = enrolled /\ follows' = follows
           /\ current' = current /\ changed' = changed
           /\ req[r].pc = "idle"
           /\ req'[r].pc = "shortening" /\ req'[r].program = p /\ req'[r].level = years
           /\ req'[r].clean => EnrollingSomebody = {}
           /\ ~req'[r].clean => EnrollingSomebody # {}
           /\ crossed' = crossed \cup {req[q].student : q \in EnrollingSomebody}
           /\ \A q \in Requests \ {r} : Like(req'[q], req[q])
           /\ \A q \in Requests \ ({r} \cup (EnrollingSomebody)) : req'[q] = req[q]
           /\ \A q \in Requests \ {r} : q \in EnrollingSomebody => ~req'[q].clean
<1> DEFINE others == EnrollingSomebody
<1>1. /\ req[r].pc = "idle" /\ ~TooLong(p, years) /\ switched' = switched /\ duration' = duration
      /\ course' = course /\ enrolled' = enrolled /\ follows' = follows /\ current' = current
      /\ changed' = changed
  BY DEF BeginShorten, BeginCheck, school, history
<1>2. crossed' = crossed \cup {req[q].student : q \in EnrollingSomebody}
  BY DEF BeginShorten, BeginCheck
<1> DEFINE operation == [Idle EXCEPT !.pc = "shortening", !.program = p, !.level = years]
<1>3. Begins(r, operation, others) /\ operation \in Operation
  BY OperationsTyped DEF BeginShorten, BeginCheck
<1> HIDE DEF others
<1>4. /\ req'[r].pc = "shortening" /\ req'[r].program = p /\ req'[r].level = years
      /\ req'[r].clean <=> others = {}
  <2>1. req'[r] = [operation EXCEPT !.clean = (others = {})]
    <3> HIDE DEF operation
    <3>1. QED
      BY <1>3, BeginEffect
  <2>2. QED
    BY <2>1 DEF Idle
<1>5. \A q \in Requests \ {r} :
         req'[q] = IF q \in others THEN [req[q] EXCEPT !.clean = FALSE] ELSE req[q]
  <2> HIDE DEF operation
  <2>1. QED
    BY <1>3 DEF Begins
<1>6. ASSUME NEW q \in Requests \ {r}
      PROVE  /\ Like(req'[q], req[q])
             /\ q \in others => ~req'[q].clean
             /\ q \notin others => req'[q] = req[q]
  <2>1. req[q] \in Operation
    BY DEF TypeOK
  <2>2. QED
    BY <1>5, <2>1 DEF Like, Operation
<1>7. QED
  BY <1>1, <1>2, <1>4, <1>6 DEF others

\* What BeginSwitch(r, y) does.
LEMMA BeginSwitchEffect ==
    ASSUME TypeOK, NEW r \in Requests, NEW y \in Years, BeginSwitch(r, y)
    PROVE  /\ duration' = duration /\ course' = course /\ enrolled' = enrolled
           /\ follows' = follows /\ current' = current /\ changed' = changed
           /\ crossed' = crossed
           /\ req[r].pc = "idle"
           /\ req'[r].pc = "switching" /\ req'[r].year = y /\ req'[r].years = current \ {y}
           /\ req'[r].clean => Switching = {}
           /\ ~req'[r].clean => Switching # {}
           /\ switched' = (switched \/ Switching # {})
           /\ \A q \in Requests \ {r} : Like(req'[q], req[q])
           /\ \A q \in Requests \ ({r} \cup (Switching)) : req'[q] = req[q]
           /\ \A q \in Requests \ {r} : q \in Switching => ~req'[q].clean
<1> DEFINE others == Switching
<1>1. /\ req[r].pc = "idle" /\ duration' = duration /\ course' = course /\ enrolled' = enrolled
      /\ follows' = follows /\ current' = current /\ changed' = changed /\ crossed' = crossed
  BY DEF BeginSwitch, school, history
<1>2. switched' = (switched \/ Switching # {})
  BY DEF BeginSwitch
<1> DEFINE operation == [Idle EXCEPT !.pc = "switching", !.year = y, !.years = current \ {y}]
<1>3. Begins(r, operation, others) /\ operation \in Operation
  BY OperationsTyped DEF BeginSwitch
<1> HIDE DEF others
<1>4. /\ req'[r].pc = "switching" /\ req'[r].year = y /\ req'[r].years = current \ {y}
      /\ req'[r].clean <=> others = {}
  <2>1. req'[r] = [operation EXCEPT !.clean = (others = {})]
    <3> HIDE DEF operation
    <3>1. QED
      BY <1>3, BeginEffect
  <2>2. QED
    BY <2>1 DEF Idle
<1>5. \A q \in Requests \ {r} :
         req'[q] = IF q \in others THEN [req[q] EXCEPT !.clean = FALSE] ELSE req[q]
  <2> HIDE DEF operation
  <2>1. QED
    BY <1>3 DEF Begins
<1>6. ASSUME NEW q \in Requests \ {r}
      PROVE  /\ Like(req'[q], req[q])
             /\ q \in others => ~req'[q].clean
             /\ q \notin others => req'[q] = req[q]
  <2>1. req[q] \in Operation
    BY DEF TypeOK
  <2>2. QED
    BY <1>5, <2>1 DEF Like, Operation
<1>7. QED
  BY <1>1, <1>2, <1>4, <1>6 DEF others

\* What createCourse and updateCourse write is a course.
LEMMA CourseWritten ==
    /\ \A p \in Programs, l \in Levels, published \in BOOLEAN :
          [program |-> p, level |-> l, published |-> published] \in Course \ {None}
    /\ \A old \in Course : [old EXCEPT !.published = FALSE] \in Course \ {None}
<1>1. Course = [program : Programs, level : 1 .. MaxLevel, published : BOOLEAN]
  BY DEF Course, Levels
<1>2. None \notin Course
  BY <1>1, NoneAssumption
<1>3. \A p \in Programs, l \in Levels, published \in BOOLEAN :
         [program |-> p, level |-> l, published |-> published] \in Course
  BY DEF Course
<1>4. \A old \in Course : [old EXCEPT !.published = FALSE] \in Course
  BY DEF Course
<1>5. QED
  BY <1>2, <1>3, <1>4

\* An operation is about what it was begun for.
LEMMA KnownStep == TypeOK /\ OperationsKnown /\ [Next]_vars => OperationsKnown'
<1> SUFFICES ASSUME TypeOK, OperationsKnown, [Next]_vars PROVE OperationsKnown'
  OBVIOUS
<1> USE DEF OperationsKnown, EnrollSteps, school, history
<1>1. ASSUME NEW r \in Requests, NEW s \in Students, NEW p \in Programs, NEW l \in Levels,
             BeginEnroll(r, s, p, l)
      PROVE  OperationsKnown'
  BY <1>1, BeginEnrollEffect DEF Like
<1>2. ASSUME NEW r \in Requests, NEW s \in Students, NEW p \in Programs, NEW l \in Levels,
             BeginUpdateEnrollment(r, s, p, l)
      PROVE  OperationsKnown'
  BY <1>2, <1>1 DEF BeginUpdateEnrollment
<1>3. ASSUME NEW r \in Requests, NEW s \in Students, NEW p \in Programs,
             BeginAutomatic(r, s, p)
      PROVE  OperationsKnown'
  BY <1>3, BeginAutomaticEffect, LevelAssumption DEF Like, Levels
<1>4. ASSUME NEW r \in Requests,
             WriteEnrollment(r)
      PROVE  OperationsKnown'
  BY <1>4 DEF WriteEnrollment, TypeOK
<1>5. ASSUME NEW r \in Requests,
             ReadCourses(r)
      PROVE  OperationsKnown'
  BY <1>5 DEF ReadCourses, TypeOK
<1>6. ASSUME NEW r \in Requests,
             Synchronise(r)
      PROVE  OperationsKnown'
  BY <1>6, EndEffect DEF Synchronise, Synchronises, Idle
<1>7. ASSUME NEW r \in Requests,
             CommitAutomatic(r)
      PROVE  OperationsKnown'
  BY <1>7, EndEffect DEF CommitAutomatic, Synchronises, Idle
<1>8. ASSUME NEW s \in Students, NEW status \in Statuses,
             LeaveSchool(s, status)
      PROVE  OperationsKnown'
  BY <1>8 DEF LeaveSchool, TypeOK
<1>9. ASSUME NEW c \in Courses, NEW p \in Programs, NEW l \in Levels, NEW published \in BOOLEAN,
             CreateCourse(c, p, l, published)
      PROVE  OperationsKnown'
  <2>1. \A x \in Courses : course[x] # None => course'[x] # None
    BY <1>9, CourseWritten DEF CreateCourse, CourseWrite, TypeOK
  <2>2. QED
    BY <1>9, <2>1 DEF CreateCourse, CourseWrite
<1>10. ASSUME NEW c \in Courses, NEW p \in Programs, NEW l \in Levels, NEW published \in BOOLEAN,
             EditCourse(c, p, l, published)
      PROVE  OperationsKnown'
  <2>1. \A x \in Courses : course[x] # None => course'[x] # None
    BY <1>10, CourseWritten DEF EditCourse, CourseWrite, TypeOK
  <2>2. QED
    BY <1>10, <2>1 DEF EditCourse, CourseWrite
<1>11. ASSUME NEW r \in Requests, NEW c \in Courses,
             BeginClose(r, c)
      PROVE  OperationsKnown'
  BY <1>11, BeginCloseEffect DEF Like
<1>12. ASSUME NEW r \in Requests, NEW p \in Programs, NEW years \in Levels,
             BeginShorten(r, p, years)
      PROVE  OperationsKnown'
  BY <1>12, BeginShortenEffect DEF Like
<1>13. ASSUME NEW p \in Programs, NEW years \in Levels,
             LengthenProgram(p, years)
      PROVE  OperationsKnown'
  BY <1>13 DEF LengthenProgram
<1>14. ASSUME NEW r \in Requests, NEW y \in Years,
             BeginSwitch(r, y)
      PROVE  OperationsKnown'
  BY <1>14, BeginSwitchEffect DEF Like
<1>15. ASSUME NEW r \in Requests,
             CloseCourse(r)
      PROVE  OperationsKnown'
  <2>1. \A x \in Courses : course[x] # None => course'[x] # None
    BY <1>15, CourseWritten DEF CloseCourse, CourseWrite, TypeOK
  <2>2. QED
    BY <1>15, <2>1, EndEffect DEF CloseCourse, CourseWrite, Idle
<1>16. ASSUME NEW r \in Requests,
             ShortenProgram(r)
      PROVE  OperationsKnown'
  BY <1>16, EndEffect DEF ShortenProgram, Idle
<1>17. ASSUME NEW r \in Requests,
             Switch(r)
      PROVE  OperationsKnown'
  BY <1>17, EndEffect DEF Switch, Idle
<1>18. ASSUME NEW y \in Years,
             EndYear(y)
      PROVE  OperationsKnown'
  BY <1>18 DEF EndYear
<1>19. ASSUME NEW r \in Requests,
             GiveUp(r)
      PROVE  OperationsKnown'
  BY <1>19, EndEffect DEF GiveUp, Idle
<1>20. CASE UNCHANGED vars
  BY <1>20 DEF vars, school, history
<1> HIDE DEF OperationsKnown
<1>21. QED
  BY <1>1, <1>2, <1>3, <1>4, <1>5, <1>6, <1>7, <1>8, <1>9, <1>10, <1>11, <1>12, <1>13, <1>14,
     <1>15, <1>16, <1>17, <1>18, <1>19, <1>20 DEF Next, EnrollmentStep, SchoolStep

\* Whoever begins marks those it crosses; whoever crosses somebody is marked.
LEMMA AloneStep == TypeOK /\ OperationsKnown /\ CleanAlone /\ [Next]_vars => CleanAlone'
<1> SUFFICES ASSUME TypeOK, OperationsKnown, CleanAlone, [Next]_vars PROVE CleanAlone'
  OBVIOUS
<1> USE DEF CleanAlone, OperationsKnown, On, Checking, EnrollingSomebody, EnrollSteps, school,
    history
<1>1. ASSUME NEW r \in Requests, NEW s \in Students, NEW p \in Programs, NEW l \in Levels,
             BeginEnroll(r, s, p, l)
      PROVE  CleanAlone'
  BY <1>1, BeginEnrollEffect DEF Like
<1>2. ASSUME NEW r \in Requests, NEW s \in Students, NEW p \in Programs, NEW l \in Levels,
             BeginUpdateEnrollment(r, s, p, l)
      PROVE  CleanAlone'
  BY <1>2, <1>1 DEF BeginUpdateEnrollment
<1>3. ASSUME NEW r \in Requests, NEW s \in Students, NEW p \in Programs,
             BeginAutomatic(r, s, p)
      PROVE  CleanAlone'
  BY <1>3, BeginAutomaticEffect DEF Like
<1>4. ASSUME NEW r \in Requests,
             WriteEnrollment(r)
      PROVE  CleanAlone'
  BY <1>4 DEF WriteEnrollment, TypeOK, Operation
<1>5. ASSUME NEW r \in Requests,
             ReadCourses(r)
      PROVE  CleanAlone'
  BY <1>5 DEF ReadCourses, TypeOK, Operation
<1>6. ASSUME NEW r \in Requests,
             Synchronise(r)
      PROVE  CleanAlone'
  BY <1>6, EndEffect DEF Synchronise, Synchronises, Idle
<1>7. ASSUME NEW r \in Requests,
             CommitAutomatic(r)
      PROVE  CleanAlone'
  BY <1>7, EndEffect DEF CommitAutomatic, Synchronises, Idle
<1>8. ASSUME NEW s \in Students, NEW status \in Statuses,
             LeaveSchool(s, status)
      PROVE  CleanAlone'
  BY <1>8 DEF LeaveSchool, TypeOK, Operation
<1>9. ASSUME NEW c \in Courses, NEW p \in Programs, NEW l \in Levels, NEW published \in BOOLEAN,
             CreateCourse(c, p, l, published)
      PROVE  CleanAlone'
  BY <1>9 DEF CreateCourse, CourseWrite
<1>10. ASSUME NEW c \in Courses, NEW p \in Programs, NEW l \in Levels, NEW published \in BOOLEAN,
             EditCourse(c, p, l, published)
      PROVE  CleanAlone'
  BY <1>10 DEF EditCourse, CourseWrite
<1>11. ASSUME NEW r \in Requests, NEW c \in Courses,
             BeginClose(r, c)
      PROVE  CleanAlone'
  BY <1>11, BeginCloseEffect DEF Like
<1>12. ASSUME NEW r \in Requests, NEW p \in Programs, NEW years \in Levels,
             BeginShorten(r, p, years)
      PROVE  CleanAlone'
  BY <1>12, BeginShortenEffect DEF Like
<1>13. ASSUME NEW p \in Programs, NEW years \in Levels,
             LengthenProgram(p, years)
      PROVE  CleanAlone'
  BY <1>13 DEF LengthenProgram
<1>14. ASSUME NEW r \in Requests, NEW y \in Years,
             BeginSwitch(r, y)
      PROVE  CleanAlone'
  BY <1>14, BeginSwitchEffect DEF Like, Switching
<1>15. ASSUME NEW r \in Requests,
             CloseCourse(r)
      PROVE  CleanAlone'
  BY <1>15, EndEffect DEF CloseCourse, CourseWrite, Idle
<1>16. ASSUME NEW r \in Requests,
             ShortenProgram(r)
      PROVE  CleanAlone'
  BY <1>16, EndEffect DEF ShortenProgram, Idle
<1>17. ASSUME NEW r \in Requests,
             Switch(r)
      PROVE  CleanAlone'
  BY <1>17, EndEffect DEF Switch, Idle
<1>18. ASSUME NEW y \in Years,
             EndYear(y)
      PROVE  CleanAlone'
  BY <1>18 DEF EndYear
<1>19. ASSUME NEW r \in Requests,
             GiveUp(r)
      PROVE  CleanAlone'
  BY <1>19, EndEffect DEF GiveUp, Idle
<1>20. CASE UNCHANGED vars
  BY <1>20 DEF vars, school, history
<1> HIDE DEF CleanAlone
<1>21. QED
  BY <1>1, <1>2, <1>3, <1>4, <1>5, <1>6, <1>7, <1>8, <1>9, <1>10, <1>11, <1>12, <1>13, <1>14,
     <1>15, <1>16, <1>17, <1>18, <1>19, <1>20 DEF Next, EnrollmentStep, SchoolStep

\* Two switches that cross are marked.
LEMMA SwitchStep == TypeOK /\ CleanSwitch /\ [Next]_vars => CleanSwitch'
<1> SUFFICES ASSUME TypeOK, CleanSwitch, [Next]_vars PROVE CleanSwitch'
  OBVIOUS
<1> USE DEF CleanSwitch, Switching, school, history
<1>1. ASSUME NEW r \in Requests, NEW s \in Students, NEW p \in Programs, NEW l \in Levels,
             BeginEnroll(r, s, p, l)
      PROVE  CleanSwitch'
  BY <1>1, BeginEnrollEffect DEF Like, On, Checking, EnrollSteps
<1>2. ASSUME NEW r \in Requests, NEW s \in Students, NEW p \in Programs, NEW l \in Levels,
             BeginUpdateEnrollment(r, s, p, l)
      PROVE  CleanSwitch'
  BY <1>2, <1>1 DEF BeginUpdateEnrollment
<1>3. ASSUME NEW r \in Requests, NEW s \in Students, NEW p \in Programs,
             BeginAutomatic(r, s, p)
      PROVE  CleanSwitch'
  BY <1>3, BeginAutomaticEffect DEF Like, On, Checking, EnrollSteps
<1>4. ASSUME NEW r \in Requests,
             WriteEnrollment(r)
      PROVE  CleanSwitch'
  BY <1>4 DEF WriteEnrollment, TypeOK, Operation
<1>5. ASSUME NEW r \in Requests,
             ReadCourses(r)
      PROVE  CleanSwitch'
  BY <1>5 DEF ReadCourses, TypeOK, Operation
<1>6. ASSUME NEW r \in Requests,
             Synchronise(r)
      PROVE  CleanSwitch'
  BY <1>6, EndEffect DEF Synchronise, Synchronises, Idle
<1>7. ASSUME NEW r \in Requests,
             CommitAutomatic(r)
      PROVE  CleanSwitch'
  BY <1>7, EndEffect DEF CommitAutomatic, Synchronises, Idle
<1>8. ASSUME NEW s \in Students, NEW status \in Statuses,
             LeaveSchool(s, status)
      PROVE  CleanSwitch'
  BY <1>8 DEF LeaveSchool, TypeOK, Operation, On, EnrollSteps
<1>9. ASSUME NEW c \in Courses, NEW p \in Programs, NEW l \in Levels, NEW published \in BOOLEAN,
             CreateCourse(c, p, l, published)
      PROVE  CleanSwitch'
  BY <1>9 DEF CreateCourse, CourseWrite
<1>10. ASSUME NEW c \in Courses, NEW p \in Programs, NEW l \in Levels, NEW published \in BOOLEAN,
             EditCourse(c, p, l, published)
      PROVE  CleanSwitch'
  BY <1>10 DEF EditCourse, CourseWrite
<1>11. ASSUME NEW r \in Requests, NEW c \in Courses,
             BeginClose(r, c)
      PROVE  CleanSwitch'
  BY <1>11, BeginCloseEffect DEF Like, EnrollingSomebody, EnrollSteps
<1>12. ASSUME NEW r \in Requests, NEW p \in Programs, NEW years \in Levels,
             BeginShorten(r, p, years)
      PROVE  CleanSwitch'
  BY <1>12, BeginShortenEffect DEF Like, EnrollingSomebody, EnrollSteps
<1>13. ASSUME NEW p \in Programs, NEW years \in Levels,
             LengthenProgram(p, years)
      PROVE  CleanSwitch'
  BY <1>13 DEF LengthenProgram
<1>14. ASSUME NEW r \in Requests, NEW y \in Years,
             BeginSwitch(r, y)
      PROVE  CleanSwitch'
  <2>1. req[r].pc = "idle" /\ req'[r].pc = "switching"
    BY <1>14, BeginSwitchEffect
  <2>2. ASSUME NEW q \in Requests \ {r}, req'[q].pc = "switching"
        PROVE  ~req'[q].clean /\ switched'
    <3>1. q \in Switching
      BY <1>14, <2>2, BeginSwitchEffect DEF Like
    <3>2. QED
      BY <1>14, <3>1, BeginSwitchEffect
  <2>3. CASE Switching = {}
    <3>1. req'[r].clean /\ Switching' = {r}
      BY <1>14, <2>1, <2>2, <2>3, BeginSwitchEffect DEF Like
    <3>2. QED
      BY <2>2, <3>1
  <2>4. CASE Switching # {}
    <3>1. ~req'[r].clean /\ switched'
      BY <1>14, <2>4, BeginSwitchEffect
    <3>2. QED
      BY <2>2, <3>1
  <2>5. QED
    BY <2>3, <2>4
<1>15. ASSUME NEW r \in Requests,
             CloseCourse(r)
      PROVE  CleanSwitch'
  BY <1>15, EndEffect DEF CloseCourse, CourseWrite, Idle
<1>16. ASSUME NEW r \in Requests,
             ShortenProgram(r)
      PROVE  CleanSwitch'
  BY <1>16, EndEffect DEF ShortenProgram, Idle
<1>17. ASSUME NEW r \in Requests,
             Switch(r)
      PROVE  CleanSwitch'
  <2>1. req'[r].pc = "idle" /\ \A q \in Requests \ {r} : req'[q] = req[q]
    BY <1>17, EndEffect DEF Switch, Idle
  <2>2. r \in Switching
    BY <1>17 DEF Switch
  <2>3. ASSUME NEW q \in Requests \ {r}, req[q].pc = "switching"
        PROVE  ~req[q].clean /\ ~req[r].clean /\ switched
    <3>1. q \in Switching
      BY <2>3
    <3>2. QED
      BY <2>2, <3>1
  <2>4. ASSUME ~req[r].clean, switched PROVE switched'
    BY <1>17, <2>4 DEF Switch
  <2>5. QED
    BY <2>1, <2>3, <2>4
<1>18. ASSUME NEW y \in Years,
             EndYear(y)
      PROVE  CleanSwitch'
  BY <1>18 DEF EndYear
<1>19. ASSUME NEW r \in Requests,
             GiveUp(r)
      PROVE  CleanSwitch'
  BY <1>19, EndEffect DEF GiveUp, Idle
<1>20. CASE UNCHANGED vars
  BY <1>20 DEF vars, school, history
<1> HIDE DEF CleanSwitch
<1>21. QED
  BY <1>1, <1>2, <1>3, <1>4, <1>5, <1>6, <1>7, <1>8, <1>9, <1>10, <1>11, <1>12, <1>13, <1>14,
     <1>15, <1>16, <1>17, <1>18, <1>19, <1>20 DEF Next, EnrollmentStep, SchoolStep

\* A check is about students on whom nothing else happens until the write.
LEMMA ChecksStep == TypeOK /\ OperationsKnown /\ CleanAlone /\ ChecksHold /\ [Next]_vars =>
    ChecksHold'
<1> SUFFICES ASSUME TypeOK, OperationsKnown, CleanAlone, ChecksHold, [Next]_vars PROVE ChecksHold'
  OBVIOUS
<1> USE DEF ChecksHold, OperationsKnown, CleanAlone, Active, On, Checking, EnrollSteps, TypeOK,
    school, history
<1>1. ASSUME NEW r \in Requests, NEW s \in Students, NEW p \in Programs, NEW l \in Levels,
             BeginEnroll(r, s, p, l)
      PROVE  ChecksHold'
  BY <1>1, BeginEnrollEffect DEF Like, HasStudents, TooLong
<1>2. ASSUME NEW r \in Requests, NEW s \in Students, NEW p \in Programs, NEW l \in Levels,
             BeginUpdateEnrollment(r, s, p, l)
      PROVE  ChecksHold'
  BY <1>2, <1>1 DEF BeginUpdateEnrollment
<1>3. ASSUME NEW r \in Requests, NEW s \in Students, NEW p \in Programs,
             BeginAutomatic(r, s, p)
      PROVE  ChecksHold'
  BY <1>3, BeginAutomaticEffect DEF Like, HasStudents, TooLong
<1>4. ASSUME NEW r \in Requests,
             WriteEnrollment(r)
      PROVE  ChecksHold'
  BY <1>4 DEF WriteEnrollment, Operation
<1>5. ASSUME NEW r \in Requests,
             ReadCourses(r)
      PROVE  ChecksHold'
  BY <1>5 DEF ReadCourses, Operation
<1>6. ASSUME NEW r \in Requests,
             Synchronise(r)
      PROVE  ChecksHold'
  BY <1>6, EndEffect DEF Synchronise, Synchronises, Idle
<1>7. ASSUME NEW r \in Requests,
             CommitAutomatic(r)
      PROVE  ChecksHold'
  BY <1>7, EndEffect DEF CommitAutomatic, Synchronises, Idle
<1>8. ASSUME NEW s \in Students, NEW status \in Statuses,
             LeaveSchool(s, status)
      PROVE  ChecksHold'
  BY <1>8 DEF LeaveSchool, Operation
<1>9. ASSUME NEW c \in Courses, NEW p \in Programs, NEW l \in Levels, NEW published \in BOOLEAN,
             CreateCourse(c, p, l, published)
      PROVE  ChecksHold'
  BY <1>9 DEF CreateCourse, CourseWrite
<1>10. ASSUME NEW c \in Courses, NEW p \in Programs, NEW l \in Levels, NEW published \in BOOLEAN,
             EditCourse(c, p, l, published)
      PROVE  ChecksHold'
  BY <1>10 DEF EditCourse, CourseWrite
<1>11. ASSUME NEW r \in Requests, NEW c \in Courses,
             BeginClose(r, c)
      PROVE  ChecksHold'
  BY <1>11, BeginCloseEffect DEF Like, HasStudents, TooLong
<1>12. ASSUME NEW r \in Requests, NEW p \in Programs, NEW years \in Levels,
             BeginShorten(r, p, years)
      PROVE  ChecksHold'
  <2>1. /\ crossed \subseteq crossed' /\ enrolled' = enrolled /\ follows' = follows
        /\ \A q \in Requests \ {r} : Like(req'[q], req[q])
        /\ req'[r].pc = "shortening" /\ req'[r].program = p /\ req'[r].level = years
        /\ ~TooLong(p, years)
    BY <1>12, BeginShortenEffect
  <2>2. ASSUME NEW s \in Students, Active(s), enrolled[s].program = p
        PROVE  enrolled[s].level <= years
    <3>1. enrolled[s].level \in Levels /\ years \in Levels /\ ~(enrolled[s].level > years)
      BY <2>1, <2>2 DEF TooLong, StudentEnrollment
    <3>2. QED
      BY <3>1 DEF Levels
  <2>3. QED
    BY <2>1, <2>2 DEF Like
<1>13. ASSUME NEW p \in Programs, NEW years \in Levels,
             LengthenProgram(p, years)
      PROVE  ChecksHold'
  BY <1>13 DEF LengthenProgram
<1>14. ASSUME NEW r \in Requests, NEW y \in Years,
             BeginSwitch(r, y)
      PROVE  ChecksHold'
  BY <1>14, BeginSwitchEffect DEF Like, HasStudents, TooLong
<1>15. ASSUME NEW r \in Requests,
             CloseCourse(r)
      PROVE  ChecksHold'
  BY <1>15, EndEffect DEF CloseCourse, CourseWrite, Idle
<1>16. ASSUME NEW r \in Requests,
             ShortenProgram(r)
      PROVE  ChecksHold'
  BY <1>16, EndEffect DEF ShortenProgram, Idle
<1>17. ASSUME NEW r \in Requests,
             Switch(r)
      PROVE  ChecksHold'
  BY <1>17, EndEffect DEF Switch, Idle
<1>18. ASSUME NEW y \in Years,
             EndYear(y)
      PROVE  ChecksHold'
  BY <1>18 DEF EndYear
<1>19. ASSUME NEW r \in Requests,
             GiveUp(r)
      PROVE  ChecksHold'
  BY <1>19, EndEffect DEF GiveUp, Idle
<1>20. CASE UNCHANGED vars
  BY <1>20 DEF vars, school, history
<1> HIDE DEF ChecksHold
<1>21. QED
  BY <1>1, <1>2, <1>3, <1>4, <1>5, <1>6, <1>7, <1>8, <1>9, <1>10, <1>11, <1>12, <1>13, <1>14,
     <1>15, <1>16, <1>17, <1>18, <1>19, <1>20 DEF Next, EnrollmentStep, SchoolStep

\* Nothing touches the student of a clean enrollment.
LEMMA EnrollmentsStep == TypeOK /\ OperationsKnown /\ CleanAlone /\ EnrollmentsHold /\ [Next]_vars
    => EnrollmentsHold'
<1> SUFFICES ASSUME TypeOK, OperationsKnown, CleanAlone, EnrollmentsHold, [Next]_vars PROVE
    EnrollmentsHold'
  OBVIOUS
<1> USE DEF EnrollmentsHold, OperationsKnown, CleanAlone, Active, On, Checking, EnrollSteps,
    TypeOK, Offered, school, history
<1>1. ASSUME NEW r \in Requests, NEW s \in Students, NEW p \in Programs, NEW l \in Levels,
             BeginEnroll(r, s, p, l)
      PROVE  EnrollmentsHold'
  BY <1>1, BeginEnrollEffect DEF Like
<1>2. ASSUME NEW r \in Requests, NEW s \in Students, NEW p \in Programs, NEW l \in Levels,
             BeginUpdateEnrollment(r, s, p, l)
      PROVE  EnrollmentsHold'
  BY <1>2, <1>1 DEF BeginUpdateEnrollment
<1>3. ASSUME NEW r \in Requests, NEW s \in Students, NEW p \in Programs,
             BeginAutomatic(r, s, p)
      PROVE  EnrollmentsHold'
  <2>1. 1 <= duration[p]
    BY DEF Levels
  <2>2. \A c \in Offered(course, p, 1) : course[c] # None /\ course[c].published
    OBVIOUS
  <2> HIDE DEF Offered
  <2>3. QED
    BY <1>3, <2>1, <2>2, BeginAutomaticEffect DEF Like
<1>4. ASSUME NEW r \in Requests,
             WriteEnrollment(r)
      PROVE  EnrollmentsHold'
  BY <1>4 DEF WriteEnrollment, Operation
<1>5. ASSUME NEW r \in Requests,
             ReadCourses(r)
      PROVE  EnrollmentsHold'
  BY <1>5 DEF ReadCourses, Operation
<1>6. ASSUME NEW r \in Requests,
             Synchronise(r)
      PROVE  EnrollmentsHold'
  BY <1>6, EndEffect DEF Synchronise, Synchronises, Idle
<1>7. ASSUME NEW r \in Requests,
             CommitAutomatic(r)
      PROVE  EnrollmentsHold'
  BY <1>7, EndEffect DEF CommitAutomatic, Synchronises, Idle
<1>8. ASSUME NEW s \in Students, NEW status \in Statuses,
             LeaveSchool(s, status)
      PROVE  EnrollmentsHold'
  BY <1>8 DEF LeaveSchool, Operation
<1>9. ASSUME NEW c \in Courses, NEW p \in Programs, NEW l \in Levels, NEW published \in BOOLEAN,
             CreateCourse(c, p, l, published)
      PROVE  EnrollmentsHold'
  BY <1>9 DEF CreateCourse, CourseWrite
<1>10. ASSUME NEW c \in Courses, NEW p \in Programs, NEW l \in Levels, NEW published \in BOOLEAN,
             EditCourse(c, p, l, published)
      PROVE  EnrollmentsHold'
  <2>1. \A x \in Courses : course[x] # None /\ course[x].published
                          => course'[x] # None /\ course'[x].published
    BY <1>10, CourseWritten DEF EditCourse, CourseWrite
  <2>2. QED
    BY <1>10, <2>1 DEF EditCourse, CourseWrite, Operation
<1>11. ASSUME NEW r \in Requests, NEW c \in Courses,
             BeginClose(r, c)
      PROVE  EnrollmentsHold'
  BY <1>11, BeginCloseEffect DEF Like
<1>12. ASSUME NEW r \in Requests, NEW p \in Programs, NEW years \in Levels,
             BeginShorten(r, p, years)
      PROVE  EnrollmentsHold'
  BY <1>12, BeginShortenEffect DEF Like
<1>13. ASSUME NEW p \in Programs, NEW years \in Levels,
             LengthenProgram(p, years)
      PROVE  EnrollmentsHold'
  <2>1. ASSUME NEW q \in Requests, req[q].pc \in EnrollSteps, req[q].clean
        PROVE  req[q].level <= duration'[req[q].program]
    <3>1. req[q].level \in Nat /\ duration[p] \in Nat /\ years \in Nat
      BY <2>1 DEF Levels
    <3>2. duration' \in [Programs -> Levels] /\ duration'[p] = years /\ duration[p] < years
          /\ \A x \in Programs \ {p} : duration'[x] = duration[x]
      BY <1>13 DEF LengthenProgram
    <3>3. CASE req[q].program = p
      <4>1. req[q].level <= duration[p] /\ req[q].level \in Nat
        BY <2>1, <3>1, <3>3
      <4>2. req[q].level <= years
        BY <3>1, <3>2, <4>1
      <4>3. QED
        BY <3>2, <3>3, <4>2
    <3>4. CASE req[q].program # p
      <4>1. req[q].program \in Programs
        BY <2>1
      <4>2. QED
        BY <2>1, <3>2, <3>4, <4>1
    <3>5. QED
      BY <3>3, <3>4
  <2>2. QED
    BY <1>13, <2>1 DEF LengthenProgram
<1>14. ASSUME NEW r \in Requests, NEW y \in Years,
             BeginSwitch(r, y)
      PROVE  EnrollmentsHold'
  BY <1>14, BeginSwitchEffect DEF Like
<1>15. ASSUME NEW r \in Requests,
             CloseCourse(r)
      PROVE  EnrollmentsHold'
  BY <1>15, EndEffect DEF CloseCourse, CourseWrite, Idle
<1>16. ASSUME NEW r \in Requests,
             ShortenProgram(r)
      PROVE  EnrollmentsHold'
  BY <1>16, EndEffect DEF ShortenProgram, Idle
<1>17. ASSUME NEW r \in Requests,
             Switch(r)
      PROVE  EnrollmentsHold'
  BY <1>17, EndEffect DEF Switch, Idle
<1>18. ASSUME NEW y \in Years,
             EndYear(y)
      PROVE  EnrollmentsHold'
  BY <1>18 DEF EndYear
<1>19. ASSUME NEW r \in Requests,
             GiveUp(r)
      PROVE  EnrollmentsHold'
  BY <1>19, EndEffect DEF GiveUp, Idle
<1>20. CASE UNCHANGED vars
  BY <1>20 DEF vars, school, history
<1> HIDE DEF EnrollmentsHold
<1>21. QED
  BY <1>1, <1>2, <1>3, <1>4, <1>5, <1>6, <1>7, <1>8, <1>9, <1>10, <1>11, <1>12, <1>13, <1>14,
     <1>15, <1>16, <1>17, <1>18, <1>19, <1>20 DEF Next, EnrollmentStep, SchoolStep

\* Only a switch makes a year current.
LEMMA SwitchesStep == TypeOK /\ CleanSwitch /\ SwitchesHold /\ [Next]_vars => SwitchesHold'
<1> SUFFICES ASSUME TypeOK, CleanSwitch, SwitchesHold, [Next]_vars PROVE SwitchesHold'
  OBVIOUS
<1> USE DEF SwitchesHold, CleanSwitch, Switching, TypeOK, school, history
<1>1. ASSUME NEW r \in Requests, NEW s \in Students, NEW p \in Programs, NEW l \in Levels,
             BeginEnroll(r, s, p, l)
      PROVE  SwitchesHold'
  BY <1>1, BeginEnrollEffect DEF Like
<1>2. ASSUME NEW r \in Requests, NEW s \in Students, NEW p \in Programs, NEW l \in Levels,
             BeginUpdateEnrollment(r, s, p, l)
      PROVE  SwitchesHold'
  BY <1>2, <1>1 DEF BeginUpdateEnrollment
<1>3. ASSUME NEW r \in Requests, NEW s \in Students, NEW p \in Programs,
             BeginAutomatic(r, s, p)
      PROVE  SwitchesHold'
  BY <1>3, BeginAutomaticEffect DEF Like
<1>4. ASSUME NEW r \in Requests,
             WriteEnrollment(r)
      PROVE  SwitchesHold'
  BY <1>4 DEF WriteEnrollment, Operation
<1>5. ASSUME NEW r \in Requests,
             ReadCourses(r)
      PROVE  SwitchesHold'
  BY <1>5 DEF ReadCourses, Operation
<1>6. ASSUME NEW r \in Requests,
             Synchronise(r)
      PROVE  SwitchesHold'
  BY <1>6, EndEffect DEF Synchronise, Synchronises, Idle
<1>7. ASSUME NEW r \in Requests,
             CommitAutomatic(r)
      PROVE  SwitchesHold'
  BY <1>7, EndEffect DEF CommitAutomatic, Synchronises, Idle
<1>8. ASSUME NEW s \in Students, NEW status \in Statuses,
             LeaveSchool(s, status)
      PROVE  SwitchesHold'
  BY <1>8 DEF LeaveSchool, Operation
<1>9. ASSUME NEW c \in Courses, NEW p \in Programs, NEW l \in Levels, NEW published \in BOOLEAN,
             CreateCourse(c, p, l, published)
      PROVE  SwitchesHold'
  BY <1>9 DEF CreateCourse, CourseWrite
<1>10. ASSUME NEW c \in Courses, NEW p \in Programs, NEW l \in Levels, NEW published \in BOOLEAN,
             EditCourse(c, p, l, published)
      PROVE  SwitchesHold'
  BY <1>10 DEF EditCourse, CourseWrite
<1>11. ASSUME NEW r \in Requests, NEW c \in Courses,
             BeginClose(r, c)
      PROVE  SwitchesHold'
  BY <1>11, BeginCloseEffect DEF Like
<1>12. ASSUME NEW r \in Requests, NEW p \in Programs, NEW years \in Levels,
             BeginShorten(r, p, years)
      PROVE  SwitchesHold'
  BY <1>12, BeginShortenEffect DEF Like
<1>13. ASSUME NEW p \in Programs, NEW years \in Levels,
             LengthenProgram(p, years)
      PROVE  SwitchesHold'
  BY <1>13 DEF LengthenProgram
<1>14. ASSUME NEW r \in Requests, NEW y \in Years,
             BeginSwitch(r, y)
      PROVE  SwitchesHold'
  BY <1>14, BeginSwitchEffect DEF Like
<1>15. ASSUME NEW r \in Requests,
             CloseCourse(r)
      PROVE  SwitchesHold'
  BY <1>15, EndEffect DEF CloseCourse, CourseWrite, Idle
<1>16. ASSUME NEW r \in Requests,
             ShortenProgram(r)
      PROVE  SwitchesHold'
  BY <1>16, EndEffect DEF ShortenProgram, Idle
<1>17. ASSUME NEW r \in Requests,
             Switch(r)
      PROVE  SwitchesHold'
  BY <1>17, EndEffect DEF Switch, Idle
<1>18. ASSUME NEW y \in Years,
             EndYear(y)
      PROVE  SwitchesHold'
  BY <1>18 DEF EndYear
<1>19. ASSUME NEW r \in Requests,
             GiveUp(r)
      PROVE  SwitchesHold'
  BY <1>19, EndEffect DEF GiveUp, Idle
<1>20. CASE UNCHANGED vars
  BY <1>20 DEF vars, school, history
<1> HIDE DEF SwitchesHold
<1>21. QED
  BY <1>1, <1>2, <1>3, <1>4, <1>5, <1>6, <1>7, <1>8, <1>9, <1>10, <1>11, <1>12, <1>13, <1>14,
     <1>15, <1>16, <1>17, <1>18, <1>19, <1>20 DEF Next, EnrollmentStep, SchoolStep

\* What an alignment does to its student, and that it leaves the others alone.
LEMMA AlignmentEffect ==
    ASSUME TypeOK, OperationsKnown, CleanAlone, EnrollmentsHold, NEW r \in Requests,
           Synchronise(r) \/ CommitAutomatic(r)
    PROVE  /\ req[r].pc \in {"synchronising", "automatic"} /\ req[r].student \in Students
           /\ duration' = duration /\ course' = course
           /\ follows'[req[r].student] = req[r].courses
           /\ ~req[r].clean => req[r].student \in crossed'
           /\ req[r].clean => enrolled'[req[r].student] = [program |-> req[r].program,
                                                         level |-> req[r].level,
                                                         status |-> "ACTIVE"]
           /\ req[r].student \notin changed'
              => req[r].courses = Offered(course, req[r].program, req[r].level)
           /\ \A s \in Students \ {req[r].student} :
                 /\ enrolled'[s] = enrolled[s] /\ follows'[s] = follows[s]
                 /\ s \in crossed' <=> s \in crossed
                 /\ s \in changed' <=> s \in changed
                 /\ Unaligned(s)' <=> Unaligned(s)
<1> DEFINE x == req[r].student
           row == [program |-> req[r].program, level |-> req[r].level, status |-> "ACTIVE"]
<1>1. /\ x \in Students
      /\ req[r].pc \in {"synchronising", "automatic"}
      /\ follows' = [follows EXCEPT ![x] = req[r].courses]
      /\ crossed' = IF req[r].clean THEN crossed \ {x} ELSE crossed
      /\ changed' = IF req[r].courses = Offered(course, req[r].program, req[r].level)
                    THEN changed \ {x} ELSE changed \cup {x}
      /\ duration' = duration /\ course' = course
  BY DEF Synchronise, CommitAutomatic, Synchronises, Aligned, OperationsKnown, EnrollSteps
<1>2. enrolled' = enrolled \/ enrolled' = [enrolled EXCEPT ![x] = row]
  BY DEF Synchronise, CommitAutomatic
<1>3. (\A q \in Requests \ {r} : req'[q] = req[q]) /\ req'[r].pc = "idle"
  BY EndEffect DEF Synchronise, CommitAutomatic, Synchronises, Idle
<1>4. ASSUME req[r].clean PROVE enrolled'[x] = row
  BY <1>1, <1>4 DEF Synchronise, CommitAutomatic, TypeOK, EnrollmentsHold
<1>5. ASSUME ~req[r].clean PROVE x \in crossed'
  BY <1>1, <1>5 DEF CleanAlone, EnrollSteps
<1>6. follows'[x] = req[r].courses
  BY <1>1 DEF TypeOK
<1>7. ASSUME NEW s \in Students \ {x}
      PROVE  /\ enrolled'[s] = enrolled[s] /\ follows'[s] = follows[s]
             /\ s \in crossed' <=> s \in crossed
             /\ s \in changed' <=> s \in changed
             /\ Unaligned(s)' <=> Unaligned(s)
  <2>1. enrolled'[s] = enrolled[s] /\ follows'[s] = follows[s]
    BY <1>1, <1>2, <1>7 DEF TypeOK
  <2>2. (s \in crossed' <=> s \in crossed) /\ (s \in changed' <=> s \in changed)
    BY <1>1, <1>7
  <2>3. Unaligned(s)' <=> Unaligned(s)
    BY <1>3, <1>7 DEF Unaligned
  <2>4. QED
    BY <2>1, <2>2, <2>3
<1> HIDE DEF x, row
<1>8. QED
  BY <1>1, <1>4, <1>5, <1>6, <1>7 DEF x, row

\* An alignment that runs alone repairs, the others leave their mark.
LEMMA FollowsStep == TypeOK /\ OperationsKnown /\ CleanAlone /\ EnrollmentsHold /\
    FollowsHisCourses /\ [Next]_vars => FollowsHisCourses'
<1> SUFFICES ASSUME TypeOK, OperationsKnown, CleanAlone, EnrollmentsHold, FollowsHisCourses,
    [Next]_vars PROVE FollowsHisCourses'
  OBVIOUS
<1> USE DEF FollowsHisCourses, TypeOK, OperationsKnown, CleanAlone, EnrollmentsHold, On, Active,
    Unaligned, EnrollSteps, school, history
<1>1. ASSUME NEW r \in Requests, NEW s \in Students, NEW p \in Programs, NEW l \in Levels,
             BeginEnroll(r, s, p, l)
      PROVE  FollowsHisCourses'
  <2>1. \A x \in Students : Unaligned(x)' <=> Unaligned(x)
    BY SMTT(60), <1>1, BeginEnrollEffect DEF Like
  <2>2. /\ UNCHANGED <<duration, course, enrolled, follows, changed>>
        /\ crossed \subseteq crossed'
    BY <1>1, BeginEnrollEffect
  <2>3. QED
    BY <2>1, <2>2
<1>2. ASSUME NEW r \in Requests, NEW s \in Students, NEW p \in Programs, NEW l \in Levels,
             BeginUpdateEnrollment(r, s, p, l)
      PROVE  FollowsHisCourses'
  BY <1>2, <1>1 DEF BeginUpdateEnrollment
<1>3. ASSUME NEW r \in Requests, NEW s \in Students, NEW p \in Programs,
             BeginAutomatic(r, s, p)
      PROVE  FollowsHisCourses'
  <2>1. \A x \in Students : Unaligned(x)' <=> Unaligned(x)
    BY SMTT(60), <1>3, BeginAutomaticEffect DEF Like
  <2>2. /\ UNCHANGED <<duration, course, enrolled, follows, changed>>
        /\ crossed \subseteq crossed'
    BY <1>3, BeginAutomaticEffect
  <2>3. QED
    BY <2>1, <2>2
<1>4. ASSUME NEW r \in Requests,
             WriteEnrollment(r)
      PROVE  FollowsHisCourses'
  BY <1>4 DEF WriteEnrollment, Operation
<1>5. ASSUME NEW r \in Requests,
             ReadCourses(r)
      PROVE  FollowsHisCourses'
  BY <1>5 DEF ReadCourses, Operation
<1>6. ASSUME NEW r \in Requests,
             Synchronise(r)
      PROVE  FollowsHisCourses'
  <2> DEFINE x == req[r].student
  <2>1. ASSUME NEW s \in Students, s \notin crossed', s \notin changed', Active(s)', ~Unaligned(s)'
        PROVE  follows'[s] = Offered(course, enrolled'[s].program, enrolled'[s].level)
    <3> HIDE DEF TypeOK, CleanAlone, EnrollmentsHold, OperationsKnown, Unaligned
    <3>1. CASE s = x
      <4>1. /\ follows'[s] = req[r].courses
            /\ req[r].courses = Offered(course, req[r].program, req[r].level)
        BY <1>6, <2>1, <3>1, AlignmentEffect
      <4>2. enrolled'[s].program = req[r].program /\ enrolled'[s].level = req[r].level
        <5>1. req[r].clean
          BY <1>6, <2>1, <3>1, AlignmentEffect
        <5>2. enrolled'[s] = [program |-> req[r].program, level |-> req[r].level,
                              status |-> "ACTIVE"]
          BY <1>6, <3>1, <5>1, AlignmentEffect
        <5>3. QED
          BY <5>2
      <4>3. QED
        BY <4>1, <4>2
    <3>2. CASE s # x
      BY <1>6, <2>1, <3>2, AlignmentEffect
    <3>3. QED
      BY <3>1, <3>2
  <2>2. course' = course
    BY <1>6 DEF Synchronise, CommitAutomatic
  <2>3. QED
    BY <2>1, <2>2 DEF Offered
<1>7. ASSUME NEW r \in Requests,
             CommitAutomatic(r)
      PROVE  FollowsHisCourses'
  <2> DEFINE x == req[r].student
  <2>1. ASSUME NEW s \in Students, s \notin crossed', s \notin changed', Active(s)', ~Unaligned(s)'
        PROVE  follows'[s] = Offered(course, enrolled'[s].program, enrolled'[s].level)
    <3> HIDE DEF TypeOK, CleanAlone, EnrollmentsHold, OperationsKnown, Unaligned
    <3>1. CASE s = x
      <4>1. /\ follows'[s] = req[r].courses
            /\ req[r].courses = Offered(course, req[r].program, req[r].level)
        BY <1>7, <2>1, <3>1, AlignmentEffect
      <4>2. enrolled'[s].program = req[r].program /\ enrolled'[s].level = req[r].level
        <5>1. req[r].clean
          BY <1>7, <2>1, <3>1, AlignmentEffect
        <5>2. enrolled'[s] = [program |-> req[r].program, level |-> req[r].level,
                              status |-> "ACTIVE"]
          BY <1>7, <3>1, <5>1, AlignmentEffect
        <5>3. QED
          BY <5>2
      <4>3. QED
        BY <4>1, <4>2
    <3>2. CASE s # x
      BY <1>7, <2>1, <3>2, AlignmentEffect
    <3>3. QED
      BY <3>1, <3>2
  <2>2. course' = course
    BY <1>7 DEF Synchronise, CommitAutomatic
  <2>3. QED
    BY <2>1, <2>2 DEF Offered
<1>8. ASSUME NEW s \in Students, NEW status \in Statuses,
             LeaveSchool(s, status)
      PROVE  FollowsHisCourses'
  BY <1>8 DEF LeaveSchool, Operation
<1>9. ASSUME NEW c \in Courses, NEW p \in Programs, NEW l \in Levels, NEW published \in BOOLEAN,
             CreateCourse(c, p, l, published)
      PROVE  FollowsHisCourses'
  BY <1>9 DEF CreateCourse, CourseWrite
<1>10. ASSUME NEW c \in Courses, NEW p \in Programs, NEW l \in Levels, NEW published \in BOOLEAN,
             EditCourse(c, p, l, published)
      PROVE  FollowsHisCourses'
  BY <1>10 DEF EditCourse, CourseWrite
<1>11. ASSUME NEW r \in Requests, NEW c \in Courses,
             BeginClose(r, c)
      PROVE  FollowsHisCourses'
  <2>1. \A x \in Students : Unaligned(x)' <=> Unaligned(x)
    BY SMTT(60), <1>11, BeginCloseEffect DEF Like
  <2>2. /\ UNCHANGED <<duration, course, enrolled, follows, changed>>
        /\ crossed \subseteq crossed'
    BY <1>11, BeginCloseEffect
  <2>3. QED
    BY <2>1, <2>2
<1>12. ASSUME NEW r \in Requests, NEW p \in Programs, NEW years \in Levels,
             BeginShorten(r, p, years)
      PROVE  FollowsHisCourses'
  <2>1. \A x \in Students : Unaligned(x)' <=> Unaligned(x)
    BY SMTT(60), <1>12, BeginShortenEffect DEF Like
  <2>2. /\ UNCHANGED <<duration, course, enrolled, follows, changed>>
        /\ crossed \subseteq crossed'
    BY <1>12, BeginShortenEffect
  <2>3. QED
    BY <2>1, <2>2
<1>13. ASSUME NEW p \in Programs, NEW years \in Levels,
             LengthenProgram(p, years)
      PROVE  FollowsHisCourses'
  BY <1>13 DEF LengthenProgram
<1>14. ASSUME NEW r \in Requests, NEW y \in Years,
             BeginSwitch(r, y)
      PROVE  FollowsHisCourses'
  BY <1>14, BeginSwitchEffect DEF Like
<1>15. ASSUME NEW r \in Requests,
             CloseCourse(r)
      PROVE  FollowsHisCourses'
  BY <1>15, EndEffect DEF CloseCourse, CourseWrite, Idle, Aligned
<1>16. ASSUME NEW r \in Requests,
             ShortenProgram(r)
      PROVE  FollowsHisCourses'
  BY <1>16, EndEffect DEF ShortenProgram, Idle, Aligned
<1>17. ASSUME NEW r \in Requests,
             Switch(r)
      PROVE  FollowsHisCourses'
  BY <1>17, EndEffect DEF Switch, Idle, Aligned
<1>18. ASSUME NEW y \in Years,
             EndYear(y)
      PROVE  FollowsHisCourses'
  BY <1>18 DEF EndYear
<1>19. ASSUME NEW r \in Requests,
             GiveUp(r)
      PROVE  FollowsHisCourses'
  BY <1>19, EndEffect DEF GiveUp, Idle, Aligned
<1>20. CASE UNCHANGED vars
  BY <1>20 DEF vars, school, history
<1> HIDE DEF FollowsHisCourses
<1>21. QED
  BY <1>1, <1>2, <1>3, <1>4, <1>5, <1>6, <1>7, <1>8, <1>9, <1>10, <1>11, <1>12, <1>13, <1>14,
     <1>15, <1>16, <1>17, <1>18, <1>19, <1>20 DEF Next, EnrollmentStep, SchoolStep

\* A course is closed after its students were counted.
LEMMA ClosedStep == TypeOK /\ OperationsKnown /\ CleanAlone /\ ChecksHold /\ EnrollmentsHold /\
    ClosedCoursesNeedCrossing /\ [Next]_vars => ClosedCoursesNeedCrossing'
<1> SUFFICES ASSUME TypeOK, OperationsKnown, CleanAlone, ChecksHold, EnrollmentsHold,
    ClosedCoursesNeedCrossing, [Next]_vars PROVE ClosedCoursesNeedCrossing'
  OBVIOUS
<1> USE DEF ClosedCoursesNeedCrossing, ChecksHold, TypeOK, OperationsKnown, CleanAlone,
    EnrollmentsHold, On, Active, Unaligned, EnrollSteps, school, history
<1>1. ASSUME NEW r \in Requests, NEW s \in Students, NEW p \in Programs, NEW l \in Levels,
             BeginEnroll(r, s, p, l)
      PROVE  ClosedCoursesNeedCrossing'
  <2>1. \A x \in Students : Unaligned(x)' <=> Unaligned(x)
    BY SMTT(60), <1>1, BeginEnrollEffect DEF Like
  <2>2. /\ UNCHANGED <<duration, course, enrolled, follows, changed>>
        /\ crossed \subseteq crossed'
    BY <1>1, BeginEnrollEffect
  <2>3. QED
    BY <2>1, <2>2
<1>2. ASSUME NEW r \in Requests, NEW s \in Students, NEW p \in Programs, NEW l \in Levels,
             BeginUpdateEnrollment(r, s, p, l)
      PROVE  ClosedCoursesNeedCrossing'
  BY <1>2, <1>1 DEF BeginUpdateEnrollment
<1>3. ASSUME NEW r \in Requests, NEW s \in Students, NEW p \in Programs,
             BeginAutomatic(r, s, p)
      PROVE  ClosedCoursesNeedCrossing'
  <2>1. \A x \in Students : Unaligned(x)' <=> Unaligned(x)
    BY SMTT(60), <1>3, BeginAutomaticEffect DEF Like
  <2>2. /\ UNCHANGED <<duration, course, enrolled, follows, changed>>
        /\ crossed \subseteq crossed'
    BY <1>3, BeginAutomaticEffect
  <2>3. QED
    BY <2>1, <2>2
<1>4. ASSUME NEW r \in Requests,
             WriteEnrollment(r)
      PROVE  ClosedCoursesNeedCrossing'
  BY <1>4 DEF WriteEnrollment, Operation
<1>5. ASSUME NEW r \in Requests,
             ReadCourses(r)
      PROVE  ClosedCoursesNeedCrossing'
  <2>1. /\ req[r] \in Operation /\ req[r].pc = "enrolled"
        /\ req' = [req EXCEPT ![r] = [req[r] EXCEPT !.pc = "synchronising", !.courses =
                                          Offered(course, req[r].program, req[r].level)]]
        /\ UNCHANGED <<school, history>>
    BY <1>5 DEF ReadCourses
  <2>2. /\ req'[r].pc = "synchronising" /\ req'[r].student = req[r].student
        /\ \A q \in Requests \ {r} : req'[q] = req[q]
    BY <2>1 DEF Operation
  <2>3. \A x \in Students : Unaligned(x)' <=> Unaligned(x)
    BY ONLY <2>1, <2>2, r \in Requests DEF Unaligned
  <2>4. QED
    BY ONLY <2>1, <2>3, ClosedCoursesNeedCrossing
       DEF ClosedCoursesNeedCrossing, Active, school, history
<1>6. ASSUME NEW r \in Requests,
             Synchronise(r)
      PROVE  ClosedCoursesNeedCrossing'
  <2> DEFINE x == req[r].student
  <2>1. ASSUME NEW s \in Students, s \notin crossed', Active(s)', ~Unaligned(s)',
               NEW c \in Courses, c \in follows'[s]
        PROVE  course[c] # None /\ course[c].published
    <3> HIDE DEF TypeOK, CleanAlone, OperationsKnown, Unaligned
    <3>1. CASE s = x
      BY <1>6, <2>1, <3>1, AlignmentEffect
    <3>2. CASE s # x
      BY <1>6, <2>1, <3>2, AlignmentEffect
    <3>3. QED
      BY <3>1, <3>2
  <2>2. course' = course
    BY <1>6 DEF Synchronise, CommitAutomatic
  <2>3. QED
    BY <2>1, <2>2
<1>7. ASSUME NEW r \in Requests,
             CommitAutomatic(r)
      PROVE  ClosedCoursesNeedCrossing'
  <2> DEFINE x == req[r].student
  <2>1. ASSUME NEW s \in Students, s \notin crossed', Active(s)', ~Unaligned(s)',
               NEW c \in Courses, c \in follows'[s]
        PROVE  course[c] # None /\ course[c].published
    <3> HIDE DEF TypeOK, CleanAlone, OperationsKnown, Unaligned
    <3>1. CASE s = x
      BY <1>7, <2>1, <3>1, AlignmentEffect
    <3>2. CASE s # x
      BY <1>7, <2>1, <3>2, AlignmentEffect
    <3>3. QED
      BY <3>1, <3>2
  <2>2. course' = course
    BY <1>7 DEF Synchronise, CommitAutomatic
  <2>3. QED
    BY <2>1, <2>2
<1>8. ASSUME NEW s \in Students, NEW status \in Statuses,
             LeaveSchool(s, status)
      PROVE  ClosedCoursesNeedCrossing'
  BY <1>8 DEF LeaveSchool, Operation
<1>9. ASSUME NEW c \in Courses, NEW p \in Programs, NEW l \in Levels, NEW published \in BOOLEAN,
             CreateCourse(c, p, l, published)
      PROVE  ClosedCoursesNeedCrossing'
  BY <1>9 DEF CreateCourse, CourseWrite
<1>10. ASSUME NEW c \in Courses, NEW p \in Programs, NEW l \in Levels, NEW published \in BOOLEAN,
             EditCourse(c, p, l, published)
      PROVE  ClosedCoursesNeedCrossing'
  <2>1. \A x \in Courses : course[x] # None /\ course[x].published
                          => course'[x] # None /\ course'[x].published
    BY <1>10, CourseWritten DEF EditCourse, CourseWrite
  <2>2. QED
    BY <1>10, <2>1 DEF EditCourse, CourseWrite
<1>11. ASSUME NEW r \in Requests, NEW c \in Courses,
             BeginClose(r, c)
      PROVE  ClosedCoursesNeedCrossing'
  <2>1. \A x \in Students : Unaligned(x)' <=> Unaligned(x)
    BY SMTT(60), <1>11, BeginCloseEffect DEF Like
  <2>2. /\ UNCHANGED <<duration, course, enrolled, follows, changed>>
        /\ crossed \subseteq crossed'
    BY <1>11, BeginCloseEffect
  <2>3. QED
    BY <2>1, <2>2
<1>12. ASSUME NEW r \in Requests, NEW p \in Programs, NEW years \in Levels,
             BeginShorten(r, p, years)
      PROVE  ClosedCoursesNeedCrossing'
  <2>1. \A x \in Students : Unaligned(x)' <=> Unaligned(x)
    BY SMTT(60), <1>12, BeginShortenEffect DEF Like
  <2>2. /\ UNCHANGED <<duration, course, enrolled, follows, changed>>
        /\ crossed \subseteq crossed'
    BY <1>12, BeginShortenEffect
  <2>3. QED
    BY <2>1, <2>2
<1>13. ASSUME NEW p \in Programs, NEW years \in Levels,
             LengthenProgram(p, years)
      PROVE  ClosedCoursesNeedCrossing'
  BY <1>13 DEF LengthenProgram
<1>14. ASSUME NEW r \in Requests, NEW y \in Years,
             BeginSwitch(r, y)
      PROVE  ClosedCoursesNeedCrossing'
  BY <1>14, BeginSwitchEffect DEF Like
<1>15. ASSUME NEW r \in Requests,
             CloseCourse(r)
      PROVE  ClosedCoursesNeedCrossing'
  BY <1>15, EndEffect DEF CloseCourse, CourseWrite, Idle, Aligned
<1>16. ASSUME NEW r \in Requests,
             ShortenProgram(r)
      PROVE  ClosedCoursesNeedCrossing'
  BY <1>16, EndEffect DEF ShortenProgram, Idle, Aligned
<1>17. ASSUME NEW r \in Requests,
             Switch(r)
      PROVE  ClosedCoursesNeedCrossing'
  BY <1>17, EndEffect DEF Switch, Idle, Aligned
<1>18. ASSUME NEW y \in Years,
             EndYear(y)
      PROVE  ClosedCoursesNeedCrossing'
  BY <1>18 DEF EndYear
<1>19. ASSUME NEW r \in Requests,
             GiveUp(r)
      PROVE  ClosedCoursesNeedCrossing'
  BY <1>19, EndEffect DEF GiveUp, Idle, Aligned
<1>20. CASE UNCHANGED vars
  BY <1>20 DEF vars, school, history
<1> HIDE DEF ClosedCoursesNeedCrossing
<1>21. QED
  BY <1>1, <1>2, <1>3, <1>4, <1>5, <1>6, <1>7, <1>8, <1>9, <1>10, <1>11, <1>12, <1>13, <1>14,
     <1>15, <1>16, <1>17, <1>18, <1>19, <1>20 DEF Next, EnrollmentStep, SchoolStep

\* A program is shortened after its students were looked at.
LEMMA LevelsStep == TypeOK /\ OperationsKnown /\ CleanAlone /\ ChecksHold /\ EnrollmentsHold /\
    LevelsNeedCrossing /\ [Next]_vars => LevelsNeedCrossing'
<1> SUFFICES ASSUME TypeOK, OperationsKnown, CleanAlone, ChecksHold, EnrollmentsHold,
    LevelsNeedCrossing, [Next]_vars PROVE LevelsNeedCrossing'
  OBVIOUS
<1> USE DEF LevelsNeedCrossing, ChecksHold, TypeOK, OperationsKnown, CleanAlone, EnrollmentsHold,
    On, Active, Unaligned, EnrollSteps, school, history
<1>1. ASSUME NEW r \in Requests, NEW s \in Students, NEW p \in Programs, NEW l \in Levels,
             BeginEnroll(r, s, p, l)
      PROVE  LevelsNeedCrossing'
  BY <1>1, BeginEnrollEffect DEF Like
<1>2. ASSUME NEW r \in Requests, NEW s \in Students, NEW p \in Programs, NEW l \in Levels,
             BeginUpdateEnrollment(r, s, p, l)
      PROVE  LevelsNeedCrossing'
  BY <1>2, <1>1 DEF BeginUpdateEnrollment
<1>3. ASSUME NEW r \in Requests, NEW s \in Students, NEW p \in Programs,
             BeginAutomatic(r, s, p)
      PROVE  LevelsNeedCrossing'
  BY <1>3, BeginAutomaticEffect DEF Like
<1>4. ASSUME NEW r \in Requests,
             WriteEnrollment(r)
      PROVE  LevelsNeedCrossing'
  BY <1>4 DEF WriteEnrollment, Operation
<1>5. ASSUME NEW r \in Requests,
             ReadCourses(r)
      PROVE  LevelsNeedCrossing'
  BY <1>5 DEF ReadCourses, Operation
<1>6. ASSUME NEW r \in Requests,
             Synchronise(r)
      PROVE  LevelsNeedCrossing'
  <2> DEFINE x == req[r].student
  <2>1. ASSUME NEW s \in Students, s \notin crossed', Active(s)'
        PROVE  enrolled'[s].level <= duration[enrolled'[s].program]
    <3> HIDE DEF TypeOK, CleanAlone, OperationsKnown, Unaligned
    <3>1. CASE s = x
      <4>1. req[r].level <= duration[req[r].program]
        BY <1>6, <2>1, <3>1, AlignmentEffect
      <4>2. enrolled'[s].program = req[r].program /\ enrolled'[s].level = req[r].level
        <5>1. req[r].clean
          BY <1>6, <2>1, <3>1, AlignmentEffect
        <5>2. enrolled'[s] = [program |-> req[r].program, level |-> req[r].level,
                              status |-> "ACTIVE"]
          BY <1>6, <3>1, <5>1, AlignmentEffect
        <5>3. QED
          BY <5>2
      <4>3. QED
        BY <4>1, <4>2
    <3>2. CASE s # x
      BY <1>6, <2>1, <3>2, AlignmentEffect
    <3>3. QED
      BY <3>1, <3>2
  <2>2. duration' = duration
    BY <1>6 DEF Synchronise, CommitAutomatic
  <2>3. QED
    BY <2>1, <2>2
<1>7. ASSUME NEW r \in Requests,
             CommitAutomatic(r)
      PROVE  LevelsNeedCrossing'
  <2> DEFINE x == req[r].student
  <2>1. ASSUME NEW s \in Students, s \notin crossed', Active(s)'
        PROVE  enrolled'[s].level <= duration[enrolled'[s].program]
    <3> HIDE DEF TypeOK, CleanAlone, OperationsKnown, Unaligned
    <3>1. CASE s = x
      <4>1. req[r].level <= duration[req[r].program]
        BY <1>7, <2>1, <3>1, AlignmentEffect
      <4>2. enrolled'[s].program = req[r].program /\ enrolled'[s].level = req[r].level
        <5>1. req[r].clean
          BY <1>7, <2>1, <3>1, AlignmentEffect
        <5>2. enrolled'[s] = [program |-> req[r].program, level |-> req[r].level,
                              status |-> "ACTIVE"]
          BY <1>7, <3>1, <5>1, AlignmentEffect
        <5>3. QED
          BY <5>2
      <4>3. QED
        BY <4>1, <4>2
    <3>2. CASE s # x
      BY <1>7, <2>1, <3>2, AlignmentEffect
    <3>3. QED
      BY <3>1, <3>2
  <2>2. duration' = duration
    BY <1>7 DEF Synchronise, CommitAutomatic
  <2>3. QED
    BY <2>1, <2>2
<1>8. ASSUME NEW s \in Students, NEW status \in Statuses,
             LeaveSchool(s, status)
      PROVE  LevelsNeedCrossing'
  BY <1>8 DEF LeaveSchool, Operation
<1>9. ASSUME NEW c \in Courses, NEW p \in Programs, NEW l \in Levels, NEW published \in BOOLEAN,
             CreateCourse(c, p, l, published)
      PROVE  LevelsNeedCrossing'
  BY <1>9 DEF CreateCourse, CourseWrite
<1>10. ASSUME NEW c \in Courses, NEW p \in Programs, NEW l \in Levels, NEW published \in BOOLEAN,
             EditCourse(c, p, l, published)
      PROVE  LevelsNeedCrossing'
  BY <1>10 DEF EditCourse, CourseWrite
<1>11. ASSUME NEW r \in Requests, NEW c \in Courses,
             BeginClose(r, c)
      PROVE  LevelsNeedCrossing'
  BY <1>11, BeginCloseEffect DEF Like
<1>12. ASSUME NEW r \in Requests, NEW p \in Programs, NEW years \in Levels,
             BeginShorten(r, p, years)
      PROVE  LevelsNeedCrossing'
  BY <1>12, BeginShortenEffect DEF Like
<1>13. ASSUME NEW p \in Programs, NEW years \in Levels,
             LengthenProgram(p, years)
      PROVE  LevelsNeedCrossing'
  <2>1. ASSUME NEW s \in Students \ crossed, Active(s)
        PROVE  enrolled[s].level <= duration'[enrolled[s].program]
    <3>1. enrolled[s].level \in Nat /\ duration[p] \in Nat /\ years \in Nat
      BY <2>1 DEF Levels, StudentEnrollment
    <3>2. duration' \in [Programs -> Levels] /\ duration'[p] = years /\ duration[p] < years
          /\ \A x \in Programs \ {p} : duration'[x] = duration[x]
      BY <1>13 DEF LengthenProgram
    <3>3. CASE enrolled[s].program = p
      <4>1. enrolled[s].level <= duration[p] /\ enrolled[s].level \in Nat
        BY <2>1, <3>1, <3>3
      <4>2. enrolled[s].level <= years
        BY <3>1, <3>2, <4>1
      <4>3. QED
        BY <3>2, <3>3, <4>2
    <3>4. CASE enrolled[s].program # p
      <4>1. enrolled[s].program \in Programs
        BY <2>1 DEF StudentEnrollment
      <4>2. QED
        BY <2>1, <3>2, <3>4, <4>1
    <3>5. QED
      BY <3>3, <3>4
  <2>2. QED
    BY <1>13, <2>1 DEF LengthenProgram
<1>14. ASSUME NEW r \in Requests, NEW y \in Years,
             BeginSwitch(r, y)
      PROVE  LevelsNeedCrossing'
  BY <1>14, BeginSwitchEffect DEF Like
<1>15. ASSUME NEW r \in Requests,
             CloseCourse(r)
      PROVE  LevelsNeedCrossing'
  BY <1>15, EndEffect DEF CloseCourse, CourseWrite, Idle, Aligned
<1>16. ASSUME NEW r \in Requests,
             ShortenProgram(r)
      PROVE  LevelsNeedCrossing'
  BY <1>16, EndEffect DEF ShortenProgram, Idle, Aligned
<1>17. ASSUME NEW r \in Requests,
             Switch(r)
      PROVE  LevelsNeedCrossing'
  BY <1>17, EndEffect DEF Switch, Idle, Aligned
<1>18. ASSUME NEW y \in Years,
             EndYear(y)
      PROVE  LevelsNeedCrossing'
  BY <1>18 DEF EndYear
<1>19. ASSUME NEW r \in Requests,
             GiveUp(r)
      PROVE  LevelsNeedCrossing'
  BY <1>19, EndEffect DEF GiveUp, Idle, Aligned
<1>20. CASE UNCHANGED vars
  BY <1>20 DEF vars, school, history
<1> HIDE DEF LevelsNeedCrossing
<1>21. QED
  BY <1>1, <1>2, <1>3, <1>4, <1>5, <1>6, <1>7, <1>8, <1>9, <1>10, <1>11, <1>12, <1>13, <1>14,
     <1>15, <1>16, <1>17, <1>18, <1>19, <1>20 DEF Next, EnrollmentStep, SchoolStep

\* A switch that runs alone leaves one current year.
LEMMA YearsStep == TypeOK /\ OperationsKnown /\ CleanSwitch /\ SwitchesHold /\
    TwoYearsNeedCrossing /\ [Next]_vars => TwoYearsNeedCrossing'
<1> SUFFICES ASSUME TypeOK, OperationsKnown, CleanSwitch, SwitchesHold, TwoYearsNeedCrossing,
    [Next]_vars PROVE TwoYearsNeedCrossing'
  OBVIOUS
<1> USE DEF TwoYearsNeedCrossing, SwitchesHold, CleanSwitch, Switching, OperationsKnown, TypeOK,
    school, history
<1>1. ASSUME NEW r \in Requests, NEW s \in Students, NEW p \in Programs, NEW l \in Levels,
             BeginEnroll(r, s, p, l)
      PROVE  TwoYearsNeedCrossing'
  BY <1>1, BeginEnrollEffect DEF Like
<1>2. ASSUME NEW r \in Requests, NEW s \in Students, NEW p \in Programs, NEW l \in Levels,
             BeginUpdateEnrollment(r, s, p, l)
      PROVE  TwoYearsNeedCrossing'
  BY <1>2, <1>1 DEF BeginUpdateEnrollment
<1>3. ASSUME NEW r \in Requests, NEW s \in Students, NEW p \in Programs,
             BeginAutomatic(r, s, p)
      PROVE  TwoYearsNeedCrossing'
  BY <1>3, BeginAutomaticEffect DEF Like
<1>4. ASSUME NEW r \in Requests,
             WriteEnrollment(r)
      PROVE  TwoYearsNeedCrossing'
  BY <1>4 DEF WriteEnrollment, Operation
<1>5. ASSUME NEW r \in Requests,
             ReadCourses(r)
      PROVE  TwoYearsNeedCrossing'
  BY <1>5 DEF ReadCourses, Operation
<1>6. ASSUME NEW r \in Requests,
             Synchronise(r)
      PROVE  TwoYearsNeedCrossing'
  BY <1>6, EndEffect DEF Synchronise, Synchronises, Idle, CurrentAfter
<1>7. ASSUME NEW r \in Requests,
             CommitAutomatic(r)
      PROVE  TwoYearsNeedCrossing'
  BY <1>7, EndEffect DEF CommitAutomatic, Synchronises, Idle, CurrentAfter
<1>8. ASSUME NEW s \in Students, NEW status \in Statuses,
             LeaveSchool(s, status)
      PROVE  TwoYearsNeedCrossing'
  BY <1>8 DEF LeaveSchool, Operation
<1>9. ASSUME NEW c \in Courses, NEW p \in Programs, NEW l \in Levels, NEW published \in BOOLEAN,
             CreateCourse(c, p, l, published)
      PROVE  TwoYearsNeedCrossing'
  BY <1>9 DEF CreateCourse, CourseWrite
<1>10. ASSUME NEW c \in Courses, NEW p \in Programs, NEW l \in Levels, NEW published \in BOOLEAN,
             EditCourse(c, p, l, published)
      PROVE  TwoYearsNeedCrossing'
  BY <1>10 DEF EditCourse, CourseWrite
<1>11. ASSUME NEW r \in Requests, NEW c \in Courses,
             BeginClose(r, c)
      PROVE  TwoYearsNeedCrossing'
  BY <1>11, BeginCloseEffect DEF Like
<1>12. ASSUME NEW r \in Requests, NEW p \in Programs, NEW years \in Levels,
             BeginShorten(r, p, years)
      PROVE  TwoYearsNeedCrossing'
  BY <1>12, BeginShortenEffect DEF Like
<1>13. ASSUME NEW p \in Programs, NEW years \in Levels,
             LengthenProgram(p, years)
      PROVE  TwoYearsNeedCrossing'
  BY <1>13 DEF LengthenProgram
<1>14. ASSUME NEW r \in Requests, NEW y \in Years,
             BeginSwitch(r, y)
      PROVE  TwoYearsNeedCrossing'
  BY <1>14, BeginSwitchEffect DEF Like
<1>15. ASSUME NEW r \in Requests,
             CloseCourse(r)
      PROVE  TwoYearsNeedCrossing'
  BY <1>15, EndEffect DEF CloseCourse, CourseWrite, Idle, CurrentAfter
<1>16. ASSUME NEW r \in Requests,
             ShortenProgram(r)
      PROVE  TwoYearsNeedCrossing'
  BY <1>16, EndEffect DEF ShortenProgram, Idle, CurrentAfter
<1>17. ASSUME NEW r \in Requests,
             Switch(r)
      PROVE  TwoYearsNeedCrossing'
  BY <1>17, EndEffect DEF Switch, Idle, CurrentAfter
<1>18. ASSUME NEW y \in Years,
             EndYear(y)
      PROVE  TwoYearsNeedCrossing'
  BY <1>18 DEF EndYear
<1>19. ASSUME NEW r \in Requests,
             GiveUp(r)
      PROVE  TwoYearsNeedCrossing'
  BY <1>19, EndEffect DEF GiveUp, Idle, CurrentAfter
<1>20. CASE UNCHANGED vars
  BY <1>20 DEF vars, school, history
<1> HIDE DEF TwoYearsNeedCrossing
<1>21. QED
  BY <1>1, <1>2, <1>3, <1>4, <1>5, <1>6, <1>7, <1>8, <1>9, <1>10, <1>11, <1>12, <1>13, <1>14,
     <1>15, <1>16, <1>17, <1>18, <1>19, <1>20 DEF Next, EnrollmentStep, SchoolStep

\* The inductive invariant.
THEOREM EnrollmentInductive == Spec => []IInv
<1>1. Init => IInv
  <2> SUFFICES ASSUME Init PROVE IInv
    OBVIOUS
  <2>1. Idle \in Operation
    BY LevelAssumption DEF Operation, Idle, Steps, EnrollSteps
  <2>2. TypeOK
    BY <2>1 DEF Init, TypeOK
  <2>3. \A r \in Requests : req[r].pc = "idle"
    BY DEF Init, Idle
  <2>4. \A s \in Students : ~Active(s)
    BY DEF Init, Active
  <2>5. OperationsKnown /\ CleanAlone /\ CleanSwitch /\ ChecksHold /\ EnrollmentsHold /\ SwitchesHold
    BY <2>3, <2>4 DEF OperationsKnown, CleanAlone, CleanSwitch, ChecksHold, EnrollmentsHold,
                      SwitchesHold, EnrollSteps
  <2>6. FollowsHisCourses /\ ClosedCoursesNeedCrossing /\ LevelsNeedCrossing
    BY <2>4 DEF FollowsHisCourses, ClosedCoursesNeedCrossing, LevelsNeedCrossing
  <2>7. TwoYearsNeedCrossing
    BY DEF Init, TwoYearsNeedCrossing
  <2>8. QED
    BY <2>2, <2>5, <2>6, <2>7 DEF IInv
<1>2. IInv /\ [Next]_vars => IInv'
  BY TypeStep, KnownStep, AloneStep, SwitchStep, ChecksStep, EnrollmentsStep, SwitchesStep,
     FollowsStep, ClosedStep, LevelsStep, YearsStep DEF IInv
<1>3. QED
  BY <1>1, <1>2, PTL DEF Spec

\* Rows and operations keep their types.
THEOREM EnrollmentTypes == Spec => []TypeOK
<1>1. IInv => TypeOK
  BY DEF IInv
<1>2. QED
  BY <1>1, EnrollmentInductive, PTL

\* Only a crossing, an operation that died half-way or a change of the school's
\* courses makes the courses of an active student differ from those of his
\* program and level.
THEOREM FollowsCorrect == Spec => []FollowsHisCourses
<1>1. IInv => FollowsHisCourses
  BY DEF IInv
<1>2. QED
  BY <1>1, EnrollmentInductive, PTL

\* Only a crossing leaves an active student in a closed course.
THEOREM ClosedCorrect == Spec => []ClosedCoursesNeedCrossing
<1>1. IInv => ClosedCoursesNeedCrossing
  BY DEF IInv
<1>2. QED
  BY <1>1, EnrollmentInductive, PTL

\* Only a crossing leaves an active student above the duration of his program.
THEOREM LevelsCorrect == Spec => []LevelsNeedCrossing
<1>1. IInv => LevelsNeedCrossing
  BY DEF IInv
<1>2. QED
  BY <1>1, EnrollmentInductive, PTL

\* Only two switches that cross leave two current years.
THEOREM YearsCorrect == Spec => []TwoYearsNeedCrossing
<1>1. IInv => TwoYearsNeedCrossing
  BY DEF IInv
<1>2. QED
  BY <1>1, EnrollmentInductive, PTL

\* The courses change only of a student who is active, or whose leaving crossed
\* an operation on him.
THEOREM LeaversKeep == Spec => LeaversKeepCourses
<1> DEFINE Kept == \A s \in Students : follows'[s] # follows[s] => Active(s)' \/ s \in crossed'
<1>1. IInv /\ [Next]_vars => Kept
  <2> SUFFICES ASSUME IInv, [Next]_vars, NEW s \in Students, follows'[s] # follows[s]
               PROVE  Active(s)' \/ s \in crossed'
    OBVIOUS
  <2> USE DEF school, history
  <2>1. PICK r \in Requests : Synchronise(r) \/ CommitAutomatic(r)
    BY ZenonT(60) DEF Next, EnrollmentStep, SchoolStep, vars, BeginEnroll, BeginUpdateEnrollment, BeginOn,
           BeginAutomatic, WriteEnrollment, ReadCourses, LeaveSchool, CreateCourse, EditCourse,
           CourseWrite, BeginClose, BeginShorten, BeginCheck, LengthenProgram, BeginSwitch,
           CloseCourse, ShortenProgram, Switch, EndYear, GiveUp
  <2>2. s = req[r].student /\ s \in Students /\ req[r].pc \in EnrollSteps
    BY <2>1 DEF Synchronise, CommitAutomatic, Synchronises, IInv, TypeOK, EnrollSteps
  <2>3. CASE ~req[r].clean
    <3>1. s \in crossed
      BY <2>2, <2>3 DEF IInv, CleanAlone
    <3>2. crossed' = crossed
      BY <2>1, <2>3 DEF Synchronise, CommitAutomatic, Synchronises
    <3>3. QED
      BY <3>1, <3>2
  <2>4. CASE req[r].clean
    <3>1. enrolled'[s] = [program |-> req[r].program, level |-> req[r].level,
                          status |-> "ACTIVE"]
      BY <2>1, <2>2, <2>4 DEF Synchronise, CommitAutomatic, IInv, TypeOK, EnrollmentsHold
    <3>2. enrolled'[s] # None
      BY <2>2, <3>1, NoneAssumption DEF IInv, OperationsKnown, Levels
    <3>3. QED
      BY <3>1, <3>2 DEF Active
  <2>5. QED
    BY <2>3, <2>4
<1>2. QED
  BY <1>1, EnrollmentInductive, PTL DEF LeaversKeepCourses, Spec
=============================================================================
