----------------------- MODULE GenerationRunProofs -------------------------
(***************************************************************************)
(* Proofs about what a run of Generation places and what it reports: the   *)
(* number of sessions of a requirement, and the jobs said to have no free  *)
(* time.                                                                   *)
(***************************************************************************)
EXTENDS GenerationProofs

-----------------------------------------------------------------------------
(* How many sessions there are *)

\* The sessions of a requirement that a run has written.
Done(r) == {x \in SessionsOf(r) : x.byRun}

\* The sessions already there and those still to place are what is needed; in
\* between, the one just written counts as both.
CountedFor(g) ==
    LET r == run[g].job IN
    run[g].pc \in AtWork \cup {"creating", "linking"} /\ r \notin untold =>
        Cardinality(Done(r)) + run[g].left
            <= IF run[g].pc = "telling" THEN Need[r] + 1 ELSE Need[r]

\* The sessions a run has read are still the most there are.
ReadFor(g) ==
    \A r \in Requirements :
        run[g].pc # "idle" /\ run[g].jobs[r] # None => Cardinality(Done(r)) <= run[g].jobs[r].sessions

CountsHold == ~crossed => \A g \in Runs : CountedFor(g) /\ ReadFor(g)


\* The session that is counted, by the rows.
LEMMA DoneIs ==
    ASSUME TypeOK, NEW r \in Requirements
    PROVE  \A x : x \in Done(r) <=> /\ x \in slots /\ x.byRun
                                    /\ x.course \in Present /\ course[x.course].requirement = r
BY DEF Done, SessionsOf, LinkedTo

LEMMA DoneFinite ==
    ASSUME IsFiniteSet(slots), NEW r
    PROVE  /\ IsFiniteSet(Done(r)) /\ Cardinality(Done(r)) \in Nat
           /\ Cardinality(SessionsOf(r)) \in Nat
           /\ Cardinality(Done(r)) <= Cardinality(SessionsOf(r))
<1>1. SessionsOf(r) \subseteq slots /\ Done(r) \subseteq SessionsOf(r)
  BY DEF Done, SessionsOf
<1>2. IsFiniteSet(SessionsOf(r))
  BY <1>1, FS_Subset
<1>3. IsFiniteSet(Done(r)) /\ Cardinality(Done(r)) <= Cardinality(SessionsOf(r))
  BY <1>1, <1>2, FS_Subset
<1>4. QED
  BY <1>2, <1>3, FS_CardinalityType

\* A step that writes no session of r adds none.
LEMMA NoMoreDone ==
    ASSUME TypeOK, JobsKnown, CoursesKnown, [Next]_vars, NEW r \in Requirements,
           \A g \in Runs : WriteSlot(g) => run[g].job # r
    PROVE  Done(r)' \subseteq Done(r)
<1> SUFFICES ASSUME NEW x, x \in slots', x.byRun, x.course \in Present',
                    course'[x.course].requirement = r
             PROVE  /\ x \in slots /\ x.course \in Present
                    /\ course[x.course].requirement = r
  BY DoneIs DEF Done, SessionsOf, LinkedTo
<1>0. /\ \A k \in Runs : JobKnown(k)
      /\ \A c \in Courses : MadeWell(c)
      /\ \A y \in slots : SessionKnown(y)
      /\ x.course \in Courses /\ course'[x.course] # None
  BY DEF JobsKnown, CoursesKnown, Present
<1>1. ASSUME NEW q \in Requirements, CreateRequirement(q)
      PROVE  x \in slots /\ x.course \in Present /\ course[x.course].requirement = r
  BY <1>1, <1>0 DEF CreateRequirement, Present
<1>2. ASSUME NEW q \in Requirements, DeleteRequirement(q)
      PROVE  x \in slots /\ x.course \in Present /\ course[x.course].requirement = r
  <2>1. x \in slots /\ x.course \in Present
    BY <1>2, <1>0 DEF DeleteRequirement, SessionKnown
  <2>2. course[x.course] \in Course
    BY <2>1 DEF TypeOK, Present
  <2>3. CASE x.course \in LinkedTo(q)
    <3>1. course'[x.course] = [course[x.course] EXCEPT !.requirement = None]
      BY <1>0, <1>2, <2>3 DEF DeleteRequirement
    <3>2. course'[x.course].requirement = None
      BY <2>2, <3>1 DEF Course
    <3>3. QED
      BY <3>2, NoneAssumption
  <2>4. CASE x.course \notin LinkedTo(q)
    BY <1>0, <1>2, <2>1, <2>4 DEF DeleteRequirement
  <2>5. QED
    BY <2>3, <2>4
<1>3. ASSUME NEW q \in Requirements, NEW teacher \in Teachers \cup {None}, Assign(q, teacher)
      PROVE  x \in slots /\ x.course \in Present /\ course[x.course].requirement = r
  BY <1>3, <1>0 DEF Assign, Present
<1>4. ASSUME NEW c \in Courses, NEW t \in Times, NEW room \in Rooms, AddByHand(c, t, room)
      PROVE  x \in slots /\ x.course \in Present /\ course[x.course].requirement = r
  BY <1>4, <1>0 DEF AddByHand, Present
<1>5. ASSUME NEW y \in slots, DeleteSlot(y)
      PROVE  x \in slots /\ x.course \in Present /\ course[x.course].requirement = r
  BY <1>5, <1>0 DEF DeleteSlot, Present
<1>6. ASSUME NEW g \in Runs, NEW c \in Courses, CreateCourse(g, c)
      PROVE  x \in slots /\ x.course \in Present /\ course[x.course].requirement = r
  <2>1. x \in slots /\ x.course \in Present /\ x.course # c
    BY <1>6, <1>0 DEF CreateCourse, SessionKnown, Present
  <2>2. course'[x.course] = course[x.course]
    BY <1>6, <1>0, <2>1 DEF CreateCourse, TypeOK
  <2>3. QED
    BY <2>1, <2>2
<1>7. ASSUME NEW g \in Runs, LinkCourse(g)
      PROVE  x \in slots /\ x.course \in Present /\ course[x.course].requirement = r
  <2>1. x \in slots /\ x.course \in Present
    BY <1>7, <1>0 DEF LinkCourse, SessionKnown
  <2>2. x.course # run[g].course
    BY <1>7, <1>0, <2>1, NoneAssumption
       DEF LinkCourse, MayLink, JobKnown, HasJob, LinksOne, SessionKnown
  <2>3. course'[x.course] = course[x.course]
    BY <1>7, <1>0, <2>2 DEF LinkCourse, TypeOK
  <2>4. QED
    BY <2>1, <2>3
<1>8. ASSUME NEW g \in Runs, WriteSlot(g)
      PROVE  x \in slots /\ x.course \in Present /\ course[x.course].requirement = r
  <2>1. course' = course /\ run[g].job # r
    BY <1>8 DEF WriteSlot
  <2>2. x.course # run[g].course
    <3>1. /\ run[g].course \in Courses /\ run[g].job \in Requirements
          /\ Serves(run[g].course, run[g].job) /\ MadeWell(run[g].course)
      BY <1>8, <1>0 DEF WriteSlot, JobKnown, HasJob, ServesJob, AtWork
    <3>2. QED
      BY <2>1, <3>1, NoneAssumption DEF Serves, MadeWell
  <2>3. x \in slots
    BY <1>8, <2>2 DEF WriteSlot
  <2>4. QED
    BY <1>0, <2>1, <2>3 DEF Present
<1>9. CASE Quiet
  BY <1>9, <1>0 DEF Quiet, rows, Present
<1>10. QED
  BY <1>1, <1>2, <1>3, <1>4, <1>5, <1>6, <1>7, <1>8, <1>9, RowKinds

\* Nor can a session written be more than one.
LEMMA OneMoreDone ==
    ASSUME TypeOK, IsFiniteSet(slots), IsFiniteSet(slots'), NEW g \in Runs, WriteSlot(g),
           NEW r \in Requirements
    PROVE  Cardinality(Done(r)') <= Cardinality(Done(r)) + 1
<1> DEFINE x == [course |-> run[g].course, time |-> run[g].time, room |-> run[g].room,
                 byRun |-> TRUE]
<1>1. slots' = slots \cup {x} /\ course' = course
  BY DEF WriteSlot
<1> HIDE DEF x
<1>2. Done(r)' \subseteq Done(r) \cup {x}
  BY <1>1 DEF Done, SessionsOf, LinkedTo, Present
<1>3. /\ IsFiniteSet(Done(r)) /\ Cardinality(Done(r)) \in Nat
  BY DoneFinite
<1>4. /\ IsFiniteSet(Done(r) \cup {x})
      /\ Cardinality(Done(r) \cup {x})
            = IF x \in Done(r) THEN Cardinality(Done(r)) ELSE Cardinality(Done(r)) + 1
  BY <1>3, FS_AddElement
<1>5. Cardinality(Done(r)') <= Cardinality(Done(r) \cup {x})
  BY <1>2, <1>4, FS_Subset
<1>6. IsFiniteSet(Done(r)') /\ Cardinality(Done(r)') \in Nat
  BY <1>2, <1>4, FS_Subset, FS_CardinalityType
<1>7. QED
  BY <1>3, <1>4, <1>5, <1>6

\* A requirement once in untold stays there.
LEMMA UntoldGrows ==
    ASSUME [Next]_vars
    PROVE  untold \subseteq untold'
<1>1. CASE Edit
  BY <1>1 DEF Edit, CreateRequirement, DeleteRequirement, Assign, AddByHand, DeleteSlot, history
<1>2. CASE UNCHANGED vars
  BY <1>2 DEF vars
<1>3. ASSUME NEW g \in Runs, RunStep(g)
      PROVE  untold \subseteq untold'
  BY <1>3 DEF RunStep, Start, SkipJob, BeginJob, CreateCourse, RefuseCourse, LinkCourse, FailToLink,
     EndJob, SkipTime, TakeTime, LeaveTime, CheckRoom, WriteSlot, RefuseSlot, TellTeacher,
     FailToTell, EndRun, Crash, history
<1>4. QED
  BY <1>1, <1>2, <1>3 DEF Next

\* A run under way has of each job what it had read, or has begun it.
LEMMA JobsLeft ==
    ASSUME TypeOK, NEW h \in Runs, RunStep(h), ~Start(h), run'[h].pc # "idle",
           NEW r \in Requirements, run'[h].jobs[r] # None
    PROVE  run[h].pc # "idle" /\ run'[h].jobs[r] = run[h].jobs[r]
<1>0. run[h].jobs \in AllJobs
  BY RunFields DEF TypeOK
<1>1. ASSUME NEW q \in Requirements, SkipJob(h, q)
      PROVE  run[h].pc # "idle" /\ run'[h].jobs[r] = run[h].jobs[r]
  BY <1>0, <1>1, SkipJobEffect DEF AllJobs, SkipJob, IsNext
<1>2. ASSUME NEW q \in Requirements, BeginJob(h, q)
      PROVE  run[h].pc # "idle" /\ run'[h].jobs[r] = run[h].jobs[r]
  <2>1. run[h].pc = "next" /\ run'[h].jobs = [run[h].jobs EXCEPT ![q] = None]
    BY <1>2, BeginJobEffect DEF BeginJob, IsNext
  <2>2. QED
    BY <1>0, <2>1 DEF AllJobs
<1>3. ASSUME NEW c \in Courses, CreateCourse(h, c)
      PROVE  run[h].pc # "idle" /\ run'[h].jobs[r] = run[h].jobs[r]
  BY <1>3, CreateCourseEffect DEF CreateCourse
<1>4. CASE RefuseCourse(h)
  BY <1>4, RefuseCourseEffect DEF RefuseCourse
<1>5. CASE LinkCourse(h)
  BY <1>5, LinkCourseEffect DEF LinkCourse
<1>6. CASE FailToLink(h)
  BY <1>6, FailToLinkEffect DEF FailToLink
<1>7. CASE EndJob(h)
  BY <1>7, EndJobEffect DEF EndJob
<1>8. CASE SkipTime(h)
  BY <1>8, SkipTimeEffect DEF SkipTime
<1>9. CASE TakeTime(h)
  BY <1>9, TakeTimeEffect DEF TakeTime
<1>10. CASE LeaveTime(h)
  BY <1>10, LeaveTimeEffect DEF LeaveTime
<1>11. ASSUME NEW room \in Rooms, CheckRoom(h, room)
       PROVE  run[h].pc # "idle" /\ run'[h].jobs[r] = run[h].jobs[r]
  BY <1>11, CheckRoomEffect DEF CheckRoom
<1>12. CASE WriteSlot(h)
  BY <1>12, WriteSlotEffect DEF WriteSlot
<1>13. CASE RefuseSlot(h)
  BY <1>13, RefuseSlotEffect DEF RefuseSlot
<1>14. CASE TellTeacher(h)
  BY <1>14, TellTeacherEffect DEF TellTeacher
<1>15. CASE FailToTell(h)
  BY <1>15, FailToTellEffect DEF FailToTell
<1>16. CASE EndRun(h) \/ Crash(h)
  BY <1>16, EndRunEffect, CrashEffect
<1>17. QED
  BY <1>1, <1>2, <1>3, <1>4, <1>5, <1>6, <1>7, <1>8, <1>9, <1>10, <1>11, <1>12, <1>13, <1>14,
     <1>15, <1>16 DEF RunStep

\* What a run has read stays the most there is: it writes for the job at work
\* only, which is no longer to do.
LEMMA ReadForStep ==
    ASSUME IInv, CountsHold, [Next]_vars, ~crossed', NEW h \in Runs
    PROVE  ReadFor(h)'
<1> USE DEF IInv
<1>1. ~crossed /\ ReadFor(h) /\ OneRun'
  BY HistoryStays, OneRunStep DEF CountsHold
<1> SUFFICES ASSUME NEW r \in Requirements, run'[h].pc # "idle", run'[h].jobs[r] # None
             PROVE  Cardinality(Done(r)') <= run'[h].jobs[r].sessions
  BY DEF ReadFor
<1>2. \A q \in Requirements : /\ IsFiniteSet(Done(q)) /\ Cardinality(Done(q)) \in Nat
                              /\ Cardinality(SessionsOf(q)) \in Nat
                              /\ Cardinality(Done(q)) <= Cardinality(SessionsOf(q))
  BY DoneFinite
<1>3. Done(r)' \subseteq Done(r)
  <2> SUFFICES ASSUME NEW g \in Runs, WriteSlot(g), run[g].job = r
               PROVE  FALSE
    BY NoMoreDone
  <2>1. run'[g].pc = "telling" /\ run'[g].jobs = run[g].jobs /\ run'[g].job = run[g].job
    BY WriteSlotEffect
  <2>2. g = h
    BY <1>1, <2>1 DEF OneRun
  <2>3. run[g].jobs[r] = None
    BY DEF JobsKnown, JobKnown, HasJob, WriteSlot, AtWork
  <2>4. QED
    BY <2>1, <2>2, <2>3
<1>4. Cardinality(Done(r)') <= Cardinality(Done(r)) /\ Cardinality(Done(r)') \in Nat
  BY <1>2, <1>3, FS_Subset, FS_CardinalityType
<1>5. CASE Start(h)
  <2>1. run'[h].jobs[r] = Read(r)
    BY <1>5, StartEffect
  <2>2. run'[h].jobs[r].sessions = Cardinality(SessionsOf(r))
    BY <2>1 DEF Read
  <2>3. QED
    BY <1>2, <1>4, <2>2
<1>6. CASE ~Start(h)
  <2>1. run[h].pc # "idle" /\ run'[h].jobs[r] = run[h].jobs[r]
    <3>1. CASE Same(run'[h], run[h])
      BY <3>1 DEF Same
    <3>2. QED
      BY <1>6, <3>1, JobsLeft, RunMoves
  <2>2. Cardinality(Done(r)) <= run[h].jobs[r].sessions /\ run[h].jobs[r].sessions \in Nat
    <3>1. run[h].jobs \in AllJobs
      BY RunFields DEF TypeOK
    <3>2. run[h].jobs[r] \in Job
      BY <2>1, <3>1 DEF AllJobs
    <3>3. QED
      BY <1>1, <2>1, <3>2 DEF ReadFor, Job
  <2>3. QED
    BY <1>2, <1>4, <2>1, <2>2
<1>7. QED
  BY <1>5, <1>6

\* What is done and what is left stay below the need, a session at a time.
LEMMA CountedForStep ==
    ASSUME IInv, CountsHold, [Next]_vars, ~crossed', NEW h \in Runs
    PROVE  CountedFor(h)'
<1> USE DEF IInv
<1>1. /\ ~crossed /\ CountedFor(h) /\ ReadFor(h) /\ OneRun'
      /\ JobKnown(h) /\ PlaceKnown(h)
  BY HistoryStays, OneRunStep DEF CountsHold, JobsKnown, PlacesKnown
<1> DEFINE Working == AtWork \cup {"creating", "linking"}
<1> SUFFICES ASSUME run'[h].pc \in Working, NEW r, r = run'[h].job, r \notin untold'
             PROVE  Cardinality(Done(r)') + run'[h].left
                       <= IF run'[h].pc = "telling" THEN Need[r] + 1 ELSE Need[r]
  BY DEF CountedFor, AtWork
<1>2. r \in Requirements /\ Need[r] \in Nat
  BY HasJobStep, RequirementAssumption DEF HasJob
<1>3. /\ IsFiniteSet(Done(r)) /\ Cardinality(Done(r)) \in Nat
      /\ run[h] \in Run /\ run[h].left \in Nat
  BY <1>2, DoneFinite, RunFields DEF TypeOK
<1>4. r \notin untold /\ run'[h].pc \notin {"idle", "next"}
  BY UntoldGrows DEF AtWork
\* No session of r is written.
<1>5. ASSUME \A g \in Runs : WriteSlot(g) => run[g].job # r
      PROVE  Cardinality(Done(r)') <= Cardinality(Done(r)) /\ Cardinality(Done(r)') \in Nat
  <2>1. Done(r)' \subseteq Done(r)
    BY <1>2, <1>5, NoMoreDone
  <2>2. QED
    BY <1>3, <2>1, FS_Subset, FS_CardinalityType
<1>6. ASSUME ~WriteSlot(h)
      PROVE  Cardinality(Done(r)') <= Cardinality(Done(r)) /\ Cardinality(Done(r)') \in Nat
  <2>1. ASSUME NEW g \in Runs, WriteSlot(g)
        PROVE  FALSE
    <3>1. run'[g].pc = "telling"
      BY <2>1, WriteSlotEffect
    <3>2. QED
      BY <1>1, <1>4, <1>6, <2>1, <3>1 DEF OneRun
  <2>2. QED
    BY <1>5, <2>1
\* The run goes on with its job.
<1>7. ASSUME ~WriteSlot(h), run'[h].job = run[h].job, run'[h].left = run[h].left,
             run[h].pc \in Working, run[h].pc = "telling" <=> run'[h].pc = "telling"
      PROVE  Cardinality(Done(r)') + run'[h].left
                <= IF run'[h].pc = "telling" THEN Need[r] + 1 ELSE Need[r]
  <2>1. Cardinality(Done(r)) + run[h].left
           <= IF run[h].pc = "telling" THEN Need[r] + 1 ELSE Need[r]
    BY <1>1, <1>4, <1>7 DEF CountedFor
  <2>2. QED
    BY <1>2, <1>3, <1>6, <1>7, <2>1
<1> DEFINE Goal == Cardinality(Done(r)') + run'[h].left
                      <= IF run'[h].pc = "telling" THEN Need[r] + 1 ELSE Need[r]
<1>8. CASE Same(run'[h], run[h])
  <2>1. ~WriteSlot(h)
    BY <1>8, WriteSlotEffect DEF Same, WriteSlot
  <2>2. QED
    BY <1>7, <1>8, <2>1 DEF Same, AtWork
<1>9. CASE Start(h)
  BY <1>4, <1>9, StartEffect
<1>10. ASSUME NEW q \in Requirements, SkipJob(h, q)
       PROVE  Goal
  BY <1>4, <1>10, SkipJobEffect DEF SkipJob, IsNext
<1>11. ASSUME NEW q \in Requirements, BeginJob(h, q)
       PROVE  Goal
  <2>1. /\ r = q /\ run'[h].left = Missing(h, q) /\ run'[h].pc # "telling"
    BY <1>11, BeginJobEffect
  <2>2. run[h].jobs[q] # None /\ Missing(h, q) > 0 /\ run[h].pc = "next"
    BY <1>11 DEF BeginJob, IsNext
  <2>3. run[h].jobs[q] \in Job
    <3>1. run[h].jobs \in AllJobs
      BY <1>3, RunFields
    <3>2. QED
      BY <2>2, <3>1 DEF AllJobs
  <2>4. /\ run[h].jobs[q].sessions \in Nat
        /\ Cardinality(Done(q)) <= run[h].jobs[q].sessions
    BY <1>1, <2>2, <2>3 DEF ReadFor, Job
  <2>5. Missing(h, q) = Need[q] - run[h].jobs[q].sessions
    BY <2>2, RequirementAssumption DEF Missing
  <2>6. ~WriteSlot(h)
    BY <2>2 DEF WriteSlot
  <2>7. QED
    BY <1>2, <1>3, <1>6, <2>1, <2>4, <2>5, <2>6
<1>12. ASSUME NEW c \in Courses, CreateCourse(h, c)
       PROVE  Goal
  BY <1>7, <1>12, CreateCourseEffect DEF CreateCourse, WriteSlot
<1>13. CASE RefuseCourse(h) \/ FailToLink(h)
  BY <1>4, <1>13, RefuseCourseEffect, FailToLinkEffect
<1>14. CASE LinkCourse(h)
  BY <1>7, <1>14, LinkCourseEffect DEF LinkCourse, WriteSlot
<1>15. CASE EndJob(h)
  BY <1>4, <1>15, EndJobEffect
<1>16. CASE SkipTime(h)
  BY <1>7, <1>16, SkipTimeEffect DEF SkipTime, WriteSlot, AtWork
<1>17. CASE TakeTime(h)
  BY <1>7, <1>17, TakeTimeEffect DEF TakeTime, WriteSlot, AtWork
<1>18. CASE LeaveTime(h)
  BY <1>7, <1>18, LeaveTimeEffect DEF LeaveTime, WriteSlot, AtWork
<1>19. ASSUME NEW room \in Rooms, CheckRoom(h, room)
       PROVE  Goal
  BY <1>7, <1>19, CheckRoomEffect DEF CheckRoom, WriteSlot, AtWork
<1>20. CASE WriteSlot(h)
  <2>1. /\ run'[h].pc = "telling" /\ r = run[h].job /\ run'[h].left = run[h].left
        /\ run[h].pc = "writing"
    BY <1>20, WriteSlotEffect DEF WriteSlot
  <2>2. Cardinality(Done(r)) + run[h].left <= Need[r]
    BY <1>1, <1>4, <2>1 DEF CountedFor, AtWork
  <2>3. IsFiniteSet(slots') /\ Cardinality(Done(r)') <= Cardinality(Done(r)) + 1
    BY <1>2, <1>20, OneMoreDone, TypeStep
  <2>4. Cardinality(Done(r)') \in Nat
    <3>1. Done(r)' \subseteq slots'
      BY DEF Done, SessionsOf
    <3>2. QED
      BY <2>3, <3>1, FS_Subset, FS_CardinalityType
  <2>5. QED
    BY <1>2, <1>3, <2>1, <2>2, <2>3, <2>4
<1>21. CASE RefuseSlot(h)
  <2>1. ~WriteSlot(h)
    BY <1>21, RefuseSlotEffect, WriteSlotEffect
  <2>2. QED
    BY <1>7, <1>21, <2>1, RefuseSlotEffect DEF RefuseSlot, AtWork
<1>22. CASE TellTeacher(h)
  <2>1. /\ run'[h].pc = "placing" /\ r = run[h].job /\ run'[h].left = run[h].left - 1
        /\ run[h].pc = "telling" /\ ~WriteSlot(h)
    BY <1>22, TellTeacherEffect DEF TellTeacher, WriteSlot
  <2>2. Cardinality(Done(r)) + run[h].left <= Need[r] + 1 /\ run[h].left # 0
    BY <1>1, <1>4, <2>1 DEF CountedFor, AtWork, PlaceKnown
  <2>3. QED
    BY <1>2, <1>3, <1>6, <2>1, <2>2
<1>23. CASE FailToTell(h)
  <2>1. untold' = untold \cup {run[h].job}
    BY <1>23 DEF FailToTell
  <2>2. run'[h].job = run[h].job
    BY <1>23, FailToTellEffect
  <2>3. QED
    BY <2>1, <2>2
<1>24. CASE EndRun(h) \/ Crash(h)
  BY <1>4, <1>24, EndRunEffect, CrashEffect
<1>25. QED
  BY <1>8, <1>9, <1>10, <1>11, <1>12, <1>13, <1>14, <1>15, <1>16, <1>17, <1>18, <1>19, <1>20,
     <1>21, <1>22, <1>23, <1>24, RunMoves DEF RunStep

\* A session is written only where one is needed.
LEMMA NeedStep == IInv /\ CountsHold /\ NeedNotExceeded /\ [Next]_vars => NeedNotExceeded'
<1> SUFFICES ASSUME IInv, CountsHold, NeedNotExceeded, [Next]_vars, NEW r \in Requirements,
                    ~crossed', r \notin untold'
             PROVE  Cardinality(Done(r)') <= Need[r]
  BY DEF NeedNotExceeded, Done
<1> USE DEF IInv
<1>1. ~crossed /\ r \notin untold /\ Cardinality(Done(r)) <= Need[r] /\ Need[r] \in Nat
  BY HistoryStays, UntoldGrows, RequirementAssumption DEF NeedNotExceeded, Done
<1>2. IsFiniteSet(Done(r)) /\ Cardinality(Done(r)) \in Nat
  BY DoneFinite
<1>3. IsFiniteSet(Done(r)') /\ Cardinality(Done(r)') \in Nat
  <2>1. Done(r)' \subseteq slots' /\ IsFiniteSet(slots')
    BY TypeStep DEF Done, SessionsOf
  <2>2. QED
    BY <2>1, FS_Subset, FS_CardinalityType
<1>4. ASSUME NEW g \in Runs, WriteSlot(g), run[g].job = r
      PROVE  Cardinality(Done(r)') <= Need[r]
  <2>1. CountedFor(g) /\ PlaceKnown(g) /\ run[g].pc = "writing" /\ run[g].left \in Nat
    BY <1>1, <1>4, RunFields DEF CountsHold, PlacesKnown, WriteSlot, TypeOK
  <2>2. Cardinality(Done(r)) + run[g].left <= Need[r] /\ run[g].left # 0
    BY <1>1, <1>4, <2>1 DEF CountedFor, PlaceKnown, AtWork
  <2>3. Cardinality(Done(r)') <= Cardinality(Done(r)) + 1
    BY <1>4, OneMoreDone, TypeStep
  <2>4. QED
    BY <1>1, <1>2, <1>3, <2>1, <2>2, <2>3
<1>5. ASSUME \A g \in Runs : WriteSlot(g) => run[g].job # r
      PROVE  Cardinality(Done(r)') <= Need[r]
  <2>1. Done(r)' \subseteq Done(r)
    BY <1>5, NoMoreDone
  <2>2. QED
    BY <1>1, <1>2, <1>3, <2>1, FS_Subset
<1>6. QED
  BY <1>4, <1>5

\* Run after run, the generation places no more sessions than a requirement
\* asks for, unless two runs crossed or a notification failed after the write.
THEOREM NeedsRespected == Spec => []NeedNotExceeded
<1>1. Init => CountsHold /\ NeedNotExceeded
  <2> SUFFICES ASSUME Init PROVE CountsHold /\ NeedNotExceeded
    OBVIOUS
  <2>1. CountsHold
    BY DEF Init, Idle, CountsHold, CountedFor, ReadFor, AtWork
  <2>2. \A r \in Requirements : {x \in SessionsOf(r) : x.byRun} = {}
    BY DEF Init, SessionsOf
  <2>3. NeedNotExceeded
    <3>1. \A r \in Requirements : Cardinality({x \in SessionsOf(r) : x.byRun}) = 0
      BY <2>2, FS_EmptySet
    <3>2. \A r \in Requirements : Need[r] \in Nat
      BY RequirementAssumption
    <3>3. QED
      BY <3>1, <3>2 DEF NeedNotExceeded
  <2>4. QED
    BY <2>1, <2>3
<1>2. IInv /\ CountsHold /\ [Next]_vars => CountsHold'
  BY ReadForStep, CountedForStep DEF CountsHold
<1>3. QED
  BY <1>1, <1>2, NeedStep, GenerationInductive, PTL DEF Spec

-----------------------------------------------------------------------------
(* What a run that nobody disturbs knows *)

\* A requirement cannot have a session at a time.
Unfit(r, t) ==
    \/ IsClassBusy(ClassOf[r], t)
    \/ ~TeacherFree(assigned[r], t)
    \/ \A room \in Rooms : RoomTaken(room, t)

\* The teachers it has read are those assigned, to the courses too.
TeachersRead(own) ==
    \A r \in Requirements : own.jobs[r] # None =>
        /\ own.jobs[r].teacher = assigned[r]
        /\ own.jobs[r].course # None =>
              own.jobs[r].course \in Present /\ course[own.jobs[r].course].teacher = assigned[r]

TeacherAtWork(own) ==
    /\ own.pc \in AtWork \cup {"creating", "linking"} =>
          own.job \in Requirements /\ own.teacher = assigned[own.job]
    /\ own.pc \in AtWork \cup {"linking"} =>
          own.course \in Present /\ course[own.course].teacher = own.teacher

\* What it has given away is taken.
UsedIsTaken(own) ==
    /\ \A teacher \in Teachers, t \in Times :
          <<teacher, t>> \in own.usedTeachers => TeacherBusy(teacher, t)
    /\ \A room \in Rooms, t \in Times : <<room, t>> \in own.usedRooms => RoomTaken(room, t)

\* The times it has passed are unfit for the job at work ...
TimesTried(own) ==
    own.pc \in AtWork \cup {"creating", "linking"} =>
        \A t \in Times : t < own.time => Unfit(own.job, t)

\* ... and so are the rooms it has passed at the time at hand.
RoomsTried(own) ==
    own.pc \in Trying => \A room \in Rooms \ own.rooms :
        RoomTaken(room, own.time) \/ ~TeacherFree(assigned[own.job], own.time)

\* The session it is to tell of is there.
SessionWritten(own) ==
    own.pc = "telling" => TeacherBusy(own.teacher, own.time) /\ RoomTaken(own.room, own.time)

\* The jobs it has reported are unfit at every time.
ReportsHold(own) == \A r \in own.full, t \in Times : Unfit(r, t)

Honest(own) ==
    /\ TeachersRead(own)
    /\ TeacherAtWork(own)
    /\ UsedIsTaken(own)
    /\ TimesTried(own)
    /\ RoomsTried(own)
    /\ SessionWritten(own)
    /\ ReportsHold(own)

SteadyRun(own) ==
    /\ own.pc = "idle" => own.full = {}
    /\ own.pc # "idle" /\ own.steady => Honest(own)

SteadyRunsHonest == \A g \in Runs : SteadyRun(run[g])

\* A step that takes nothing away: no session, no teacher, no link.
Grows ==
    /\ slots \subseteq slots' /\ UNCHANGED assigned
    /\ \A c \in Present :
          /\ c \in Present' /\ course'[c].teacher = course[c].teacher
          /\ course[c].requirement # None => course'[c].requirement = course[c].requirement

\* Each action of a run is one.
LEMMA RunsTakeNothing ==
    ASSUME TypeOK, JobsKnown, [Next]_vars, NEW g \in Runs, RunStep(g)
    PROVE  Grows
<1>1. ASSUME slots \subseteq slots', assigned' = assigned, course' = course
      PROVE  Grows
  BY <1>1 DEF Grows, Present
<1>2. ASSUME NEW c \in Courses, CreateCourse(g, c)
      PROVE  Grows
  <2>1. ASSUME NEW e \in Present
        PROVE  e \in Present' /\ course'[e] = course[e]
    BY <1>2, <2>1 DEF CreateCourse, Present, TypeOK
  <2>2. QED
    BY <1>2, <2>1 DEF CreateCourse, Grows
<1>3. CASE LinkCourse(g)
  <2>1. run[g].course \in Courses /\ course[run[g].course].requirement = None
    BY <1>3 DEF JobsKnown, JobKnown, LinksOne, LinkCourse, Present
  <2>2. ASSUME NEW e \in Present
        PROVE  /\ e \in Present' /\ course'[e].teacher = course[e].teacher
               /\ course[e].requirement # None => course'[e].requirement = course[e].requirement
    <3>1. e \in Present'
      BY PresentStays
    <3>2. course[e] \in Course
      BY <2>2 DEF TypeOK, Present
    <3>3. course' = [course EXCEPT ![run[g].course].requirement = run[g].job]
      BY <1>3 DEF LinkCourse
    <3>4. CASE e = run[g].course
      <4>1. course'[e] = [course[e] EXCEPT !.requirement = run[g].job]
        BY <2>1, <3>3, <3>4 DEF TypeOK
      <4>2. QED
        BY <2>1, <3>1, <3>2, <3>4, <4>1 DEF Course
    <3>5. CASE e # run[g].course
      BY <2>2, <3>1, <3>3, <3>5 DEF TypeOK, Present
    <3>6. QED
      BY <3>4, <3>5
  <2>3. QED
    BY <1>3, <2>2 DEF LinkCourse, Grows
<1>4. CASE WriteSlot(g)
  BY <1>1, <1>4 DEF WriteSlot
<1>5. CASE Start(g) \/ RefuseCourse(g) \/ FailToLink(g) \/ EndJob(g) \/ SkipTime(g) \/ TakeTime(g)
            \/ LeaveTime(g) \/ RefuseSlot(g) \/ TellTeacher(g) \/ FailToTell(g) \/ EndRun(g)
            \/ Crash(g)
  BY <1>1, <1>5 DEF Start, RefuseCourse, FailToLink, EndJob, SkipTime, TakeTime, LeaveTime,
     RefuseSlot, TellTeacher, FailToTell, EndRun, Crash, rows
<1>6. ASSUME NEW r \in Requirements, SkipJob(g, r) \/ BeginJob(g, r)
      PROVE  Grows
  BY <1>1, <1>6 DEF SkipJob, BeginJob, rows
<1>7. ASSUME NEW room \in Rooms, CheckRoom(g, room)
      PROVE  Grows
  BY <1>1, <1>7 DEF CheckRoom, rows
<1>8. QED
  BY <1>2, <1>3, <1>4, <1>5, <1>6, <1>7 DEF RunStep

\* What is taken stays taken.
LEMMA TakenStays ==
    ASSUME TypeOK, CoursesKnown, Grows, NEW t
    PROVE  /\ \A room : RoomTaken(room, t) => RoomTaken(room, t)'
           /\ \A teacher : TeacherBusy(teacher, t) => TeacherBusy(teacher, t)'
           /\ \A class : IsClassBusy(class, t) => IsClassBusy(class, t)'
<1>1. \A x \in slots : /\ x \in slots' /\ x.course \in Present
                       /\ course'[x.course].teacher = course[x.course].teacher
                       /\ course[x.course].requirement # None =>
                             course'[x.course].requirement = course[x.course].requirement
  BY DEF Grows, CoursesKnown, SessionKnown
<1>2. ASSUME NEW room, RoomTaken(room, t)
      PROVE  RoomTaken(room, t)'
  BY <1>1, <1>2 DEF RoomTaken
<1>3. ASSUME NEW teacher, TeacherBusy(teacher, t)
      PROVE  TeacherBusy(teacher, t)'
  BY <1>1, <1>3 DEF TeacherBusy
<1>4. ASSUME NEW class, IsClassBusy(class, t)
      PROVE  IsClassBusy(class, t)'
  BY <1>1, <1>4 DEF IsClassBusy
<1>5. QED
  BY <1>2, <1>3, <1>4

\* A teacher who is not free does not become so, nor a time fit.
LEMMA UnfitStays ==
    ASSUME TypeOK, CoursesKnown, Grows, NEW t
    PROVE  /\ \A teacher : ~TeacherFree(teacher, t) => ~TeacherFree(teacher, t)'
           /\ \A r : Unfit(r, t) => Unfit(r, t)'
<1>1. ASSUME NEW teacher, ~TeacherFree(teacher, t)
      PROVE  ~TeacherFree(teacher, t)'
  BY <1>1, TakenStays DEF TeacherFree
<1>2. ASSUME NEW r, Unfit(r, t)
      PROVE  Unfit(r, t)'
  <2>1. assigned' = assigned
    BY DEF Grows
  <2>2. CASE IsClassBusy(ClassOf[r], t)
    BY <2>2, TakenStays DEF Unfit
  <2>3. CASE ~TeacherFree(assigned[r], t)
    BY <1>1, <2>1, <2>3 DEF Unfit
  <2>4. CASE \A room \in Rooms : RoomTaken(room, t)
    BY <2>4, TakenStays DEF Unfit
  <2>5. QED
    BY <1>2, <2>2, <2>3, <2>4 DEF Unfit
<1>3. QED
  BY <1>1, <1>2

\* Nothing that a run knows is lost by such a step.
LEMMA KnowledgeStays ==
    ASSUME TypeOK, CoursesKnown, Grows, NEW own
    PROVE  /\ TeachersRead(own) => TeachersRead(own)'
           /\ TeacherAtWork(own) => TeacherAtWork(own)'
           /\ UsedIsTaken(own) => UsedIsTaken(own)'
           /\ TimesTried(own) => TimesTried(own)'
           /\ RoomsTried(own) => RoomsTried(own)'
           /\ SessionWritten(own) => SessionWritten(own)'
           /\ ReportsHold(own) => ReportsHold(own)'
<1>0. assigned' = assigned /\ \A c \in Present : c \in Present' /\ course'[c].teacher = course[c].teacher
  BY DEF Grows
<1>1. TeachersRead(own) => TeachersRead(own)'
  BY <1>0 DEF TeachersRead
<1>2. TeacherAtWork(own) => TeacherAtWork(own)'
  BY <1>0 DEF TeacherAtWork
<1>3. UsedIsTaken(own) => UsedIsTaken(own)'
  BY TakenStays DEF UsedIsTaken
<1>4. TimesTried(own) => TimesTried(own)'
  BY UnfitStays DEF TimesTried
<1>5. RoomsTried(own) => RoomsTried(own)'
  BY <1>0, TakenStays, UnfitStays DEF RoomsTried
<1>6. SessionWritten(own) => SessionWritten(own)'
  BY TakenStays DEF SessionWritten
<1>7. ReportsHold(own) => ReportsHold(own)'
  BY UnfitStays DEF ReportsHold
<1>8. QED
  BY <1>1, <1>2, <1>3, <1>4, <1>5, <1>6, <1>7

LEMMA HonestStays ==
    ASSUME TypeOK, CoursesKnown, Grows, NEW own, Honest(own)
    PROVE  Honest(own)'
BY KnowledgeStays DEF Honest

\* The runs that do not move are as they were, or know that they were disturbed.
LEMMA OthersDisturbed ==
    ASSUME TypeOK, NEW own, NEW h \in Runs, h \notin own
    PROVE  \/ Disturbed(own)[h] = run[h] /\ run[h].pc = "idle"
           \/ Disturbed(own)[h].pc # "idle" /\ ~Disturbed(own)[h].steady
<1>1. run[h] \in Run
  BY DEF TypeOK
<1>2. Disturbed(own)[h] = IF run[h].pc = "idle" THEN run[h] ELSE [run[h] EXCEPT !.steady = FALSE]
  BY DEF Disturbed
<1>3. [run[h] EXCEPT !.steady = FALSE].pc = run[h].pc /\ ~[run[h] EXCEPT !.steady = FALSE].steady
  BY <1>1 DEF Run
<1>4. QED
  BY <1>2, <1>3

LEMMA OthersKnow ==
    ASSUME TypeOK, [Next]_vars, NEW h \in Runs, ~RunStep(h)
    PROVE  \/ run'[h] = run[h] /\ (run[h].pc = "idle" \/ Grows)
           \/ run'[h].pc # "idle" /\ ~run'[h].steady
<1>0. Disturbed({}) \in [Runs -> Run] /\ \A g \in Runs : Disturbed({g}) \in [Runs -> Run]
  BY DisturbedEffect
<1>1. CASE Edit
  <2>1. run' = Disturbed({})
    BY <1>1 DEF Edit, CreateRequirement, DeleteRequirement, Assign, AddByHand, DeleteSlot, Edits
  <2>2. QED
    BY <2>1, OthersDisturbed
<1>2. CASE UNCHANGED vars
  BY <1>2 DEF vars, Grows, Present
<1>3. ASSUME NEW g \in Runs, RunStep(g)
      PROVE  \/ run'[h] = run[h] /\ (run[h].pc = "idle" \/ Grows)
             \/ run'[h].pc # "idle" /\ ~run'[h].steady
  <2>1. g # h
    BY <1>3
  <2>2. CASE \/ \E own \in {{}, {g}} : run'[h] = Disturbed(own)[h]
    BY <2>1, <2>2, OthersDisturbed
  <2>3. CASE Start(g)
    BY <1>0, <2>1, <2>2, <2>3 DEF Start
  <2>4. ASSUME NEW c \in Courses, CreateCourse(g, c)
        PROVE  run'[h] = Disturbed({g})[h]
    BY <1>0, <2>1, <2>4 DEF CreateCourse
  <2>5. LinkCourse(g) => run'[h] = Disturbed({g})[h]
    BY <1>0, <2>1 DEF LinkCourse
  <2>6. WriteSlot(g) => run'[h] = Disturbed({g})[h]
    BY <1>0, <2>1 DEF WriteSlot
  <2>7. CASE \/ RefuseCourse(g) \/ FailToLink(g) \/ EndJob(g) \/ SkipTime(g) \/ TakeTime(g)
             \/ LeaveTime(g) \/ RefuseSlot(g) \/ TellTeacher(g) \/ FailToTell(g) \/ EndRun(g)
             \/ Crash(g)
             \/ \E r \in Requirements : SkipJob(g, r) \/ BeginJob(g, r)
             \/ \E room \in Rooms : CheckRoom(g, room)
    <3>1. /\ run'[h] = run[h]
          /\ UNCHANGED rows
      BY <2>1, <2>7 DEF RefuseCourse, FailToLink, EndJob, SkipTime, TakeTime, LeaveTime, RefuseSlot,
         TellTeacher, FailToTell, EndRun, Crash, SkipJob, BeginJob, CheckRoom, TypeOK
    <3>2. QED
      BY <3>1 DEF rows, Grows, Present
  <2>8. QED
    BY <1>3, <2>2, <2>3, <2>4, <2>5, <2>6, <2>7 DEF RunStep
<1>4. QED
  BY <1>1, <1>2, <1>3 DEF Next

\* What a run remembers of the jobs behind it.
Memory(new, own) ==
    /\ new.usedTeachers = own.usedTeachers /\ new.usedRooms = own.usedRooms
    /\ new.full = own.full /\ (new.steady => own.steady)

\* Most steps add nothing to it.
LEMMA MemoryKept ==
    ASSUME TypeOK, NEW g \in Runs,
           \/ \E r \in Requirements : SkipJob(g, r) \/ BeginJob(g, r)
           \/ \E c \in Courses : CreateCourse(g, c)
           \/ RefuseCourse(g) \/ LinkCourse(g) \/ FailToLink(g)
           \/ SkipTime(g) \/ TakeTime(g) \/ LeaveTime(g)
           \/ \E room \in Rooms : CheckRoom(g, room)
           \/ WriteSlot(g) \/ RefuseSlot(g) \/ FailToTell(g)
    PROVE  Memory(run'[g], run[g])
<1>0. /\ run[g] \in Run /\ Disturbed({g}) \in [Runs -> Run] /\ Disturbed({g})[g] = run[g]
  BY DisturbedEffect DEF TypeOK
<1> USE DEF Memory
<1>1. ASSUME NEW r \in Requirements, SkipJob(g, r) \/ BeginJob(g, r)
      PROVE  Memory(run'[g], run[g])
  <2>1. CASE SkipJob(g, r)
    <3>1. run'[g] = [run[g] EXCEPT !.jobs[r] = None]
      BY <2>1 DEF SkipJob, TypeOK
    <3>2. QED
      BY <1>0, <3>1 DEF Run
  <2>2. CASE BeginJob(g, r)
    BY <1>0, <2>2 DEF BeginJob, TypeOK, Run
  <2>3. QED
    BY <1>1, <2>1, <2>2
<1>2. ASSUME NEW c \in Courses, CreateCourse(g, c)
      PROVE  Memory(run'[g], run[g])
  BY <1>0, <1>2 DEF CreateCourse, Memory, TypeOK, Run
<1>3. CASE LinkCourse(g) \/ WriteSlot(g)
  <2>1. ASSUME NEW pc, run' = [Disturbed({g}) EXCEPT ![g].pc = pc]
        PROVE  Memory(run'[g], run[g])
    <3>1. run'[g] = [run[g] EXCEPT !.pc = pc]
      BY <1>0, <2>1
    <3>2. QED
      BY <1>0, <3>1 DEF Run
  <2>2. QED
    BY <1>3, <2>1 DEF LinkCourse, WriteSlot
<1>4. CASE RefuseCourse(g) \/ FailToLink(g)
  <2>1. run'[g] = Between(run[g])
    BY <1>4 DEF RefuseCourse, FailToLink, TypeOK
  <2>2. QED
    BY <1>0, <2>1 DEF Between, Run
<1>5. CASE SkipTime(g) \/ TakeTime(g) \/ LeaveTime(g)
  <2>1. CASE SkipTime(g)
    BY <1>0, <2>1 DEF SkipTime, TypeOK, Run
  <2>2. CASE TakeTime(g)
    BY <1>0, <2>2 DEF TakeTime, TypeOK, Run
  <2>3. CASE LeaveTime(g)
    BY <1>0, <2>3 DEF LeaveTime, TypeOK, Run
  <2>4. QED
    BY <1>5, <2>1, <2>2, <2>3
<1>6. ASSUME NEW room \in Rooms, CheckRoom(g, room)
      PROVE  Memory(run'[g], run[g])
  <2>1. \/ run' = [run EXCEPT ![g].pc = "writing", ![g].room = room]
        \/ run' = [run EXCEPT ![g].rooms = @ \ {room}]
        \/ run' = [run EXCEPT ![g].rooms = @ \ {room}, ![g].steady = FALSE]
    BY <1>6 DEF CheckRoom
  <2>2. run \in [Runs -> Run]
    BY DEF TypeOK
  <2>3. CASE run' = [run EXCEPT ![g].pc = "writing", ![g].room = room]
    BY <1>0, <2>2, <2>3 DEF Run
  <2>4. CASE run' = [run EXCEPT ![g].rooms = @ \ {room}]
    BY <1>0, <2>2, <2>4 DEF Run
  <2>5. CASE run' = [run EXCEPT ![g].rooms = @ \ {room}, ![g].steady = FALSE]
    BY <1>0, <2>2, <2>5 DEF Run
  <2>6. QED
    BY <2>1, <2>3, <2>4, <2>5
<1>7. CASE RefuseSlot(g) \/ FailToTell(g)
  <2>1. \E refused : run'[g] = TryAnother(run[g], refused)
    BY <1>7 DEF RefuseSlot, FailToTell, TypeOK
  <2>2. QED
    BY <1>0, <2>1 DEF TryAnother, Run
<1>8. QED
  BY <1>1, <1>2, <1>3, <1>4, <1>5, <1>6, <1>7

\* The jobs it has yet to begin.
JobsOf(new, own) ==
    \A r \in Requirements : new.jobs[r] # None => new.jobs[r] = own.jobs[r]

\* A run between two jobs knows what it knew, and of the jobs it reports.
LEMMA BetweenJobs ==
    ASSUME NEW own, NEW new, Honest(own), new.pc = "next", JobsOf(new, own),
           new.usedTeachers = own.usedTeachers, new.usedRooms = own.usedRooms, ReportsHold(new)
    PROVE  Honest(new)
<1>1. TeachersRead(new)
  BY DEF Honest, TeachersRead, JobsOf
<1>2. UsedIsTaken(new)
  BY DEF Honest, UsedIsTaken
<1>3. QED
  BY <1>1, <1>2 DEF Honest, TeacherAtWork, TimesTried, RoomsTried, SessionWritten, AtWork, Trying

\* A run that goes on with its job and its course, from a place to another.
GoesOn(new, own) ==
    /\ new.jobs = own.jobs /\ new.job = own.job /\ new.teacher = own.teacher
    /\ new.course = own.course /\ new.full = own.full
    /\ own.pc \in AtWork \cup {"linking"} /\ new.pc \in AtWork

LEMMA WorkGoesOn ==
    ASSUME NEW own, NEW new, Honest(own), GoesOn(new, own)
    PROVE  /\ TeachersRead(new) /\ TeacherAtWork(new) /\ ReportsHold(new)
           /\ new.usedTeachers = own.usedTeachers /\ new.usedRooms = own.usedRooms =>
                 UsedIsTaken(new)
           /\ new.time = own.time => TimesTried(new)
           /\ new.pc \in Trying /\ own.pc \in Trying /\ new.time = own.time
                 /\ own.rooms \subseteq new.rooms => RoomsTried(new)
<1>1. TeachersRead(new) /\ ReportsHold(new)
  BY DEF Honest, TeachersRead, ReportsHold, GoesOn
<1>2. TeacherAtWork(new)
  BY DEF Honest, TeacherAtWork, GoesOn
<1>3. new.usedTeachers = own.usedTeachers /\ new.usedRooms = own.usedRooms => UsedIsTaken(new)
  BY DEF Honest, UsedIsTaken
<1>4. new.time = own.time => TimesTried(new)
  BY DEF Honest, TimesTried, GoesOn
<1>5. new.pc \in Trying /\ own.pc \in Trying /\ new.time = own.time /\ own.rooms \subseteq new.rooms
         => RoomsTried(new)
  BY DEF Honest, RoomsTried, GoesOn
<1>6. QED
  BY <1>1, <1>2, <1>3, <1>4, <1>5

\* A run that passes a time which is unfit for its job.
LEMMA TimePassed ==
    ASSUME NEW own, NEW new, Honest(own), GoesOn(new, own), new.pc = "placing",
           own.time \in Times, new.time = own.time + 1, Unfit(own.job, own.time),
           UsedIsTaken(new)
    PROVE  Honest(new)
<1>1. TimesTried(new)
  <2> SUFFICES ASSUME NEW t \in Times, t < new.time
               PROVE  Unfit(new.job, t)
    BY DEF TimesTried
  <2>1. t < own.time \/ t = own.time
    BY DEF Times
  <2>2. QED
    BY <2>1 DEF Honest, TimesTried, GoesOn
<1>2. QED
  BY <1>1, WorkGoesOn DEF Honest, RoomsTried, SessionWritten, Trying

\* A run that passes a room which is taken, or whose teacher is.
LEMMA RoomPassed ==
    ASSUME NEW own, NEW new, NEW room, Honest(own), GoesOn(new, own), own.pc \in Trying,
           new.pc = "choosing", new.time = own.time, new.rooms = own.rooms \ {room},
           RoomTaken(room, own.time) \/ ~TeacherFree(own.teacher, own.time),
           UsedIsTaken(new)
    PROVE  Honest(new)
<1>1. own.teacher = assigned[own.job]
  BY DEF Honest, TeacherAtWork, Trying, AtWork
<1>2. RoomsTried(new)
  BY <1>1 DEF Honest, RoomsTried, GoesOn
<1>3. QED
  BY <1>2, WorkGoesOn DEF Honest, SessionWritten

\* Only its end makes a run idle.
LEMMA GoesToWork ==
    ASSUME TypeOK, NEW g \in Runs, RunStep(g), ~EndRun(g), ~Crash(g)
    PROVE  run'[g].pc # "idle"
<1>1. ASSUME NEW r \in Requirements, SkipJob(g, r)
      PROVE  run'[g].pc # "idle"
  BY <1>1, SkipJobEffect DEF SkipJob, IsNext
<1>2. ASSUME NEW r \in Requirements, BeginJob(g, r)
      PROVE  run'[g].pc # "idle"
  BY <1>2, BeginJobEffect
<1>3. ASSUME NEW c \in Courses, CreateCourse(g, c)
      PROVE  run'[g].pc # "idle"
  BY <1>3, CreateCourseEffect
<1>4. ASSUME NEW room \in Rooms, CheckRoom(g, room)
      PROVE  run'[g].pc # "idle"
  BY <1>4, CheckRoomEffect
<1>5. Start(g) \/ RefuseCourse(g) \/ LinkCourse(g) \/ FailToLink(g) \/ EndJob(g) =>
         run'[g].pc # "idle"
  BY StartEffect, RefuseCourseEffect, LinkCourseEffect, FailToLinkEffect, EndJobEffect
<1>6. TakeTime(g) \/ LeaveTime(g) \/ SkipTime(g) => run'[g].pc # "idle"
  BY TakeTimeEffect, LeaveTimeEffect, SkipTimeEffect DEF SkipTime
<1>7. WriteSlot(g) \/ RefuseSlot(g) \/ TellTeacher(g) \/ FailToTell(g) => run'[g].pc # "idle"
  BY WriteSlotEffect, RefuseSlotEffect, TellTeacherEffect, FailToTellEffect
<1>8. QED
  BY <1>1, <1>2, <1>3, <1>4, <1>5, <1>6, <1>7 DEF RunStep

\* What a run that nobody disturbs learns from a step of its own.
LEMMA OwnStep ==
    ASSUME IInv, [Next]_vars, NEW g \in Runs, RunStep(g), ~Start(g), ~EndRun(g), ~Crash(g),
           Honest(run[g]), NEW new, new = run'[g], new.steady
    PROVE  Honest(new)'
<1> USE DEF IInv
<1>1. PICK own : own = run[g]
  OBVIOUS
<1>2. /\ own \in Run /\ own.time \in RunTimes /\ own.jobs \in AllJobs
      /\ Honest(own) /\ JobKnown(g) /\ PlaceKnown(g)
  BY <1>1, RunFields DEF TypeOK, JobsKnown, PlacesKnown
<1>3. Grows
  BY RunsTakeNothing
<1>4. Honest(new) => Honest(new)'
  BY <1>3, HonestStays
<1>5. JobsOf(new, own)
  <2> SUFFICES ASSUME NEW r \in Requirements, new.jobs[r] # None
               PROVE  new.jobs[r] = own.jobs[r]
    BY DEF JobsOf
  <2>1. new.pc # "idle"
    BY GoesToWork
  <2>2. QED
    BY <1>1, <2>1, JobsLeft
\* Where the run tries a time, it is one of the week.
<1>6. own.pc = "placing" /\ More(g) =>
         own.time \in Times /\ own.job \in Requirements /\ own.teacher \in Teachers
  BY <1>1, <1>2, WeekAssumption DEF More, RunTimes, Times, JobKnown, HasJob, PlaceKnown, AtWork
<1>7. own.pc \in Trying => own.time \in Times
  BY <1>1, <1>2 DEF PlaceKnown, Trying
<1>8. ASSUME NEW r \in Requirements, SkipJob(g, r)
      PROVE  Honest(new)
  <2>1. new.pc = "next" /\ Memory(new, own)
    BY <1>1, <1>8, SkipJobEffect, MemoryKept DEF SkipJob, IsNext
  <2>2. ReportsHold(new)
    BY <1>2, <2>1 DEF Memory, Honest, ReportsHold
  <2>3. QED
    BY <1>2, <1>5, <2>1, <2>2, BetweenJobs DEF Memory
<1>9. ASSUME RefuseCourse(g) \/ FailToLink(g)
      PROVE  Honest(new)
  <2>1. new.pc = "next" /\ Memory(new, own)
    BY <1>1, <1>9, RefuseCourseEffect, FailToLinkEffect, MemoryKept
  <2>2. ReportsHold(new)
    BY <1>2, <2>1 DEF Memory, Honest, ReportsHold
  <2>3. QED
    BY <1>2, <1>5, <2>1, <2>2, BetweenJobs DEF Memory
<1>10. ASSUME EndJob(g)
       PROVE  Honest(new)
  <2>1. /\ new = Between(Reported(own)) /\ own.pc = "placing" /\ ~More(g)
    BY <1>1, <1>10 DEF EndJob, TypeOK
  <2>2. /\ new.pc = "next" /\ new.usedTeachers = own.usedTeachers
        /\ new.usedRooms = own.usedRooms
        /\ new.full = IF own.left > 0 THEN own.full \cup {own.job} ELSE own.full
    BY <1>2, <2>1 DEF Between, Reported, Run
  <2>3. own.left > 0 => \A t \in Times : Unfit(own.job, t)
    <3>1. own.left > 0 => \A t \in Times : t < own.time
      BY <1>1, <1>2, <2>1, WeekAssumption DEF More, Times, RunTimes
    <3>2. QED
      BY <1>2, <2>1, <3>1 DEF Honest, TimesTried, AtWork
  <2>4. ReportsHold(new)
    BY <1>2, <2>2, <2>3 DEF Honest, ReportsHold
  <2>5. QED
    BY <1>2, <1>5, <2>2, <2>4, BetweenJobs
<1>11. ASSUME NEW r \in Requirements, BeginJob(g, r)
       PROVE  Honest(new)
  <2>1. /\ new.pc = IF own.jobs[r].course = None THEN "creating" ELSE "placing"
        /\ new.job = r /\ new.teacher = own.jobs[r].teacher /\ new.course = own.jobs[r].course
        /\ new.time = 1 /\ own.jobs[r] # None
    <3>1. own.jobs[r] # None
      BY <1>1, <1>11 DEF BeginJob, IsNext
    <3>2. QED
      BY <1>1, <1>11, <3>1, BeginJobEffect
  <2>2. Memory(new, own)
    BY <1>1, <1>11, MemoryKept
  <2>3. TeachersRead(new)
    BY <1>2, <1>5 DEF Honest, TeachersRead, JobsOf
  <2>4. TeacherAtWork(new)
    BY <1>2, <2>1 DEF Honest, TeachersRead, TeacherAtWork, AtWork
  <2>5. TimesTried(new)
    BY <2>1 DEF TimesTried, Times
  <2>6. UsedIsTaken(new) /\ ReportsHold(new)
    BY <1>2, <2>2 DEF Honest, UsedIsTaken, ReportsHold, Memory
  <2>7. RoomsTried(new) /\ SessionWritten(new)
    BY <2>1 DEF RoomsTried, SessionWritten, Trying
  <2>8. QED
    BY <2>3, <2>4, <2>5, <2>6, <2>7 DEF Honest
<1>12. ASSUME NEW c \in Courses, CreateCourse(g, c)
       PROVE  Honest(new)'
  <2>1. /\ new.pc = "linking" /\ new.jobs = own.jobs /\ new.job = own.job
        /\ new.teacher = own.teacher /\ new.course = c /\ new.time = own.time
        /\ own.pc = "creating"
    <3>1. own.pc = "creating"
      BY <1>1, <1>12 DEF CreateCourse
    <3>2. QED
      BY <1>1, <1>12, <3>1, CreateCourseEffect
  <2>2. Memory(new, own)
    BY <1>1, <1>12, MemoryKept
  <2>3. TeachersRead(new) /\ UsedIsTaken(new) /\ ReportsHold(new)
    BY <1>2, <2>1, <2>2 DEF Honest, TeachersRead, UsedIsTaken, ReportsHold, Memory
  <2>4. TimesTried(new) /\ RoomsTried(new) /\ SessionWritten(new)
    BY <1>2, <2>1 DEF Honest, TimesTried, RoomsTried, SessionWritten, Trying
  <2>5. TeacherAtWork(new)'
    <3>1. own.job \in Requirements /\ own.teacher = assigned[own.job]
      BY <1>2, <2>1 DEF Honest, TeacherAtWork
    <3>2. /\ assigned' = assigned
          /\ course'[c] = [teacher |-> own.teacher, requirement |-> None]
      BY <1>1, <1>12 DEF CreateCourse, TypeOK
    <3>3. c \in Present'
      BY <1>1, <1>2, <2>1, <3>2, NoneAssumption DEF Present, JobKnown, HasJob
    <3>4. QED
      BY <2>1, <3>1, <3>2, <3>3 DEF TeacherAtWork
  <2>6. QED
    BY <1>3, <2>3, <2>4, <2>5, KnowledgeStays DEF Honest
<1>13. ASSUME LinkCourse(g)
       PROVE  Honest(new)
  <2>0. own.pc = "linking"
    BY <1>1, <1>13 DEF LinkCourse
  <2>m. Memory(new, own)
    BY <1>1, <1>13, MemoryKept
  <2>1. GoesOn(new, own) /\ new.time = own.time /\ new.pc = "placing" /\ Memory(new, own)
    BY <1>1, <1>13, <2>0, <2>m, LinkCourseEffect DEF GoesOn, Memory, AtWork
  <2>2. QED
    BY <1>2, <2>1, WorkGoesOn DEF Memory, Honest, RoomsTried, SessionWritten, Trying
<1>14. ASSUME SkipTime(g)
       PROVE  Honest(new)
  <2>0. own.pc = "placing"
    BY <1>1, <1>14 DEF SkipTime
  <2>m. Memory(new, own)
    BY <1>1, <1>14, MemoryKept
  <2>1. GoesOn(new, own) /\ new.time = own.time + 1 /\ new.pc = "placing" /\ Memory(new, own)
    BY <1>1, <1>14, <2>0, <2>m, SkipTimeEffect DEF GoesOn, Memory, AtWork
  <2>2. own.pc = "placing" /\ More(g) /\ Passes(g)
    BY <1>1, <1>14 DEF SkipTime
  <2>3. Unfit(own.job, own.time)
    <3>1. own.teacher = assigned[own.job]
      BY <1>2, <2>2 DEF Honest, TeacherAtWork, AtWork
    <3>2. CASE <<own.teacher, own.time>> \in own.usedTeachers
      BY <1>2, <1>6, <2>2, <3>1, <3>2 DEF Honest, UsedIsTaken, Unfit, TeacherFree
    <3>3. CASE IsClassBusy(ClassOf[own.job], own.time)
      BY <3>3 DEF Unfit
    <3>4. QED
      BY <1>1, <2>2, <3>2, <3>3 DEF Passes
  <2>4. UsedIsTaken(new)
    BY <1>2, <2>1, WorkGoesOn DEF Memory
  <2>5. QED
    BY <1>2, <1>6, <2>1, <2>2, <2>3, <2>4, TimePassed
<1>15. ASSUME TakeTime(g)
       PROVE  Honest(new)
  <2>0. own.pc = "placing" /\ More(g)
    BY <1>1, <1>15 DEF TakeTime
  <2>m. Memory(new, own)
    BY <1>1, <1>15, MemoryKept
  <2>1. /\ GoesOn(new, own) /\ new.time = own.time /\ new.pc = "choosing" /\ Memory(new, own)
        /\ own.pc = "placing" /\ More(g)
    BY <1>1, <1>15, <2>0, <2>m, TakeTimeEffect DEF GoesOn, Memory, AtWork
  <2>2. new.rooms = {room \in Rooms : <<room, own.time>> \notin own.usedRooms}
    BY <1>1, <1>15, TakeTimeEffect DEF RoomsToTry
  <2>3. RoomsTried(new)
    BY <1>2, <1>6, <2>1, <2>2 DEF Honest, UsedIsTaken, RoomsTried
  <2>4. QED
    BY <1>2, <2>1, <2>3, WorkGoesOn DEF Memory, Honest, SessionWritten
<1>16. ASSUME LeaveTime(g)
       PROVE  Honest(new)
  <2>0. own.pc = "choosing"
    BY <1>1, <1>16 DEF LeaveTime
  <2>m. Memory(new, own)
    BY <1>1, <1>16, MemoryKept
  <2>1. GoesOn(new, own) /\ new.time = own.time + 1 /\ new.pc = "placing" /\ Memory(new, own)
    BY <1>1, <1>16, <2>0, <2>m, LeaveTimeEffect DEF GoesOn, Memory, AtWork
  <2>2. own.pc = "choosing" /\ own.rooms = {}
    BY <1>1, <1>16 DEF LeaveTime
  <2>3. Unfit(own.job, own.time)
    BY <1>2, <2>2 DEF Honest, RoomsTried, Unfit, Trying
  <2>4. UsedIsTaken(new)
    BY <1>2, <2>1, WorkGoesOn DEF Memory
  <2>5. QED
    BY <1>2, <1>7, <2>1, <2>2, <2>3, <2>4, TimePassed DEF Trying
<1>17. ASSUME NEW room \in Rooms, CheckRoom(g, room)
       PROVE  Honest(new)
  <2>1. /\ GoesOn(new, own) /\ new.time = own.time /\ Memory(new, own)
        /\ own.pc = "choosing"
    BY <1>1, <1>17, CheckRoomEffect, MemoryKept DEF CheckRoom, GoesOn, Memory, AtWork
  <2>2. UsedIsTaken(new)
    BY <1>2, <2>1, WorkGoesOn DEF Memory
  <2>3. CASE new = [own EXCEPT !.pc = "writing", !.room = room]
    <3>1. new.pc = "writing" /\ new.rooms = own.rooms
      BY <1>2, <2>3 DEF Run
    <3>2. QED
      BY <1>2, <2>1, <2>2, <3>1, WorkGoesOn DEF Honest, SessionWritten, Trying
  <2>4. CASE /\ new = [own EXCEPT !.rooms = own.rooms \ {room}]
             /\ \/ RoomTaken(room, own.time)
                \/ ~TeacherFree(course[own.course].teacher, own.time)
    <3>1. new.pc = "choosing" /\ new.rooms = own.rooms \ {room}
      BY <1>2, <2>1, <2>4 DEF Run
    <3>2. course[own.course].teacher = own.teacher
      BY <1>2, <2>1 DEF Honest, TeacherAtWork, AtWork
    <3>3. QED
      BY <1>2, <2>1, <2>2, <2>4, <3>1, <3>2, RoomPassed DEF Trying
  <2>5. new # [own EXCEPT !.rooms = own.rooms \ {room}, !.steady = FALSE]
    BY <1>2 DEF Run
  <2>6. QED
    BY <1>1, <1>17, <2>3, <2>4, <2>5 DEF CheckRoom, TypeOK
<1>18. ASSUME WriteSlot(g)
       PROVE  Honest(new)'
  <2>0. own.pc = "writing"
    BY <1>1, <1>18 DEF WriteSlot
  <2>m. Memory(new, own)
    BY <1>1, <1>18, MemoryKept
  <2>1. /\ GoesOn(new, own) /\ new.time = own.time /\ new.pc = "telling" /\ Memory(new, own)
        /\ new.rooms = own.rooms /\ new.room = own.room /\ own.pc = "writing"
    BY <1>1, <1>18, <2>0, <2>m, WriteSlotEffect DEF GoesOn, Memory, AtWork
  <2>2. /\ TeachersRead(new) /\ TeacherAtWork(new) /\ UsedIsTaken(new) /\ TimesTried(new)
        /\ RoomsTried(new) /\ ReportsHold(new)
    BY <1>2, <2>1, WorkGoesOn DEF Memory, Trying
  <2>3. SessionWritten(new)'
    <3>1. course[own.course].teacher = own.teacher
      BY <1>2, <2>1 DEF Honest, TeacherAtWork, AtWork
    <3>2. /\ [course |-> own.course, time |-> own.time, room |-> own.room, byRun |-> TRUE]
                 \in slots'
          /\ course' = course
      BY <1>1, <1>18 DEF WriteSlot
    <3>3. TeacherBusy(own.teacher, own.time)' /\ RoomTaken(own.room, own.time)'
      BY <3>1, <3>2 DEF TeacherBusy, RoomTaken
    <3>4. new.teacher = own.teacher
      BY <2>1 DEF GoesOn
    <3>5. QED
      BY <2>1, <3>3, <3>4 DEF SessionWritten
  <2>4. QED
    BY <1>3, <2>2, <2>3, KnowledgeStays DEF Honest
<1>19. ASSUME RefuseSlot(g) \/ FailToTell(g)
       PROVE  Honest(new)
  <2>1. /\ GoesOn(new, own) /\ new.time = own.time /\ new.pc = "choosing" /\ Memory(new, own)
        /\ new.rooms = own.rooms \ {own.room} /\ own.pc \in {"writing", "telling"}
    BY <1>1, <1>19, RefuseSlotEffect, FailToTellEffect, MemoryKept
       DEF RefuseSlot, FailToTell, GoesOn, Memory, AtWork
  <2>2. ~TeacherFree(own.teacher, own.time)
    <3>1. CASE RefuseSlot(g)
      <4>0. new = TryAnother(own, TeacherBusy(course[own.course].teacher, own.time))
        BY <1>1, <3>1 DEF RefuseSlot, TypeOK
      <4>1. own.pc = "writing" /\ TeacherBusy(course[own.course].teacher, own.time)
        BY <1>1, <1>2, <3>1, <4>0 DEF RefuseSlot, TryAnother, Run
      <4>2. QED
        BY <1>2, <4>1 DEF Honest, TeacherAtWork, TeacherFree, AtWork
    <3>2. CASE FailToTell(g)
      <4>1. own.pc = "telling"
        BY <1>1, <3>2 DEF FailToTell
      <4>2. QED
        BY <1>2, <4>1 DEF Honest, SessionWritten, TeacherFree
    <3>3. QED
      BY <1>19, <3>1, <3>2
  <2>3. UsedIsTaken(new)
    BY <1>2, <2>1, WorkGoesOn DEF Memory
  <2>4. QED
    BY <1>2, <2>1, <2>2, <2>3, RoomPassed DEF Trying
<1>20. ASSUME TellTeacher(g)
       PROVE  Honest(new)
  <2>1. new = Counted(own) /\ own.pc = "telling"
    BY <1>1, <1>20 DEF TellTeacher, TypeOK
  <2>2. /\ new.pc = "placing" /\ new.time = own.time + 1 /\ new.full = own.full
        /\ new.usedTeachers = own.usedTeachers \cup {<<own.teacher, own.time>>}
        /\ new.usedRooms = own.usedRooms \cup {<<own.room, own.time>>}
        /\ new.jobs = own.jobs /\ new.job = own.job /\ new.teacher = own.teacher
        /\ new.course = own.course
    BY <1>2, <2>1 DEF Counted, Run
  <2>3. TeacherBusy(own.teacher, own.time) /\ RoomTaken(own.room, own.time)
    BY <1>2, <2>1 DEF Honest, SessionWritten
  <2>4. Unfit(own.job, own.time)
    BY <1>2, <2>1, <2>3 DEF Honest, TeacherAtWork, Unfit, TeacherFree, AtWork
  <2>5. UsedIsTaken(new)
    BY <1>2, <2>2, <2>3 DEF Honest, UsedIsTaken
  <2>6. GoesOn(new, own)
    BY <2>1, <2>2 DEF GoesOn, AtWork
  <2>7. own.time \in Times
    BY <1>7, <2>1 DEF Trying
  <2>8. QED
    BY <1>2, <2>2, <2>4, <2>5, <2>6, <2>7, TimePassed
<1>21. QED
  BY <1>4, <1>8, <1>9, <1>10, <1>11, <1>12, <1>13, <1>14, <1>15, <1>16, <1>17, <1>18, <1>19, <1>20
     DEF RunStep

\* A run does not disturb itself, nor forget that it was disturbed.
LEMMA SteadyKept ==
    ASSUME TypeOK, NEW g \in Runs, RunStep(g), ~Start(g), ~EndRun(g), ~Crash(g)
    PROVE  run'[g].steady => run[g].steady
<1>1. CASE EndJob(g)
  <2>1. run[g] \in Run /\ run'[g] = Between(Reported(run[g]))
    BY <1>1 DEF EndJob, TypeOK
  <2>2. QED
    BY <2>1 DEF Between, Reported, Run
<1>2. CASE TellTeacher(g)
  <2>1. run[g] \in Run /\ run'[g] = Counted(run[g])
    BY <1>2 DEF TellTeacher, TypeOK
  <2>2. QED
    BY <2>1 DEF Counted, Run
<1>3. CASE ~EndJob(g) /\ ~TellTeacher(g)
  BY <1>3, MemoryKept DEF RunStep, Memory
<1>4. QED
  BY <1>1, <1>2, <1>3

\* A run that starts knows what it has read.
LEMMA StartHonest ==
    ASSUME TypeOK, NEW g \in Runs, Start(g), NEW new, new = run'[g], new.steady
    PROVE  Honest(new)
<1>0. Disturbed({}) \in [Runs -> Run]
  BY DisturbedEffect
<1> DEFINE jobs == [r \in Requirements |-> IF state[r] = "present" THEN Read(r) ELSE None]
           calm == (Underway = {} /\ Consistent)
<1>1. new = [Idle EXCEPT !.pc = "next", !.jobs = jobs, !.steady = calm]
  BY <1>0 DEF Start
<1>2. /\ new.pc = "next" /\ new.usedTeachers = {} /\ new.usedRooms = {} /\ new.full = {}
      /\ new.jobs = [r \in Requirements |-> IF state[r] = "present" THEN Read(r) ELSE None]
      /\ Consistent
  <2> HIDE DEF jobs, calm
  <2>1. /\ new.pc = "next" /\ new.usedTeachers = {} /\ new.usedRooms = {} /\ new.full = {}
        /\ new.jobs = jobs /\ new.steady = calm
    BY <1>1 DEF Idle
  <2>2. calm => Consistent
    BY DEF calm
  <2>3. QED
    BY <2>1, <2>2 DEF jobs
<1>3. TeachersRead(new)
  <2> SUFFICES ASSUME NEW r \in Requirements, new.jobs[r] # None
               PROVE  /\ Read(r).teacher = assigned[r]
                      /\ Read(r).course # None =>
                            Read(r).course \in Present /\ course[Read(r).course].teacher = assigned[r]
    BY <1>2 DEF TeachersRead
  <2>1. Read(r).teacher = assigned[r]
    BY DEF Read
  <2>2. ASSUME Read(r).course # None
        PROVE  Read(r).course \in LinkedTo(r)
    BY <2>2 DEF Read
  <2>3. \A c \in LinkedTo(r) : c \in Present /\ course[c].teacher = assigned[r]
    BY <1>2, NoneAssumption DEF Consistent, LinkedTo
  <2>4. QED
    BY <2>1, <2>2, <2>3
<1>4. UsedIsTaken(new) /\ ReportsHold(new)
  BY <1>2 DEF UsedIsTaken, ReportsHold
<1>5. QED
  BY <1>2, <1>3, <1>4 DEF Honest, TeacherAtWork, TimesTried, RoomsTried, SessionWritten, AtWork, Trying

\* Runs that nobody disturbs stay honest.
LEMMA SteadyStep == IInv /\ SteadyRunsHonest /\ [Next]_vars => SteadyRunsHonest'
<1> SUFFICES ASSUME IInv, SteadyRunsHonest, [Next]_vars, NEW h \in Runs
             PROVE  SteadyRun(run[h])'
  BY DEF SteadyRunsHonest
<1> USE DEF IInv
<1>1. SteadyRun(run[h])
  BY DEF SteadyRunsHonest
<1>2. PICK new : new = run'[h]
  OBVIOUS
<1>3. PICK own : own = run[h]
  OBVIOUS
<1> SUFFICES /\ new.pc = "idle" => new.full = {}
             /\ new.pc # "idle" /\ new.steady => Honest(new)'
  BY <1>2 DEF SteadyRun, Honest, TeachersRead, TeacherAtWork, UsedIsTaken, TimesTried, RoomsTried,
     SessionWritten, ReportsHold
<1>4. CASE ~RunStep(h)
  <2>1. CASE new = own /\ (own.pc = "idle" \/ Grows)
    BY <1>1, <1>3, <2>1, HonestStays DEF SteadyRun
  <2>2. CASE new.pc # "idle" /\ ~new.steady
    BY <2>2
  <2>3. QED
    BY <1>2, <1>3, <1>4, <2>1, <2>2, OthersKnow
<1>5. CASE Start(h)
  <2>1. new.pc = "next" /\ RunStep(h)
    BY <1>2, <1>5, StartEffect DEF RunStep
  <2>2. new.steady => Honest(new)
    BY <1>2, <1>5, StartHonest
  <2>3. Grows
    BY <2>1, RunsTakeNothing
  <2>4. QED
    BY <2>1, <2>2, <2>3, HonestStays
<1>6. CASE EndRun(h) \/ Crash(h)
  <2>1. new = Idle
    BY <1>2, <1>6 DEF EndRun, Crash, TypeOK
  <2>2. QED
    BY <2>1 DEF Idle
<1>7. CASE RunStep(h) /\ ~Start(h) /\ ~EndRun(h) /\ ~Crash(h)
  <2>1. new.pc # "idle"
    BY <1>2, <1>7, GoesToWork
  <2>2. new.steady => own.pc # "idle" /\ own.steady
    <3>1. own.pc # "idle"
      BY <1>2, <1>3, <1>7, <2>1, Awake
    <3>2. new.steady => own.steady
      BY <1>2, <1>3, <1>7, SteadyKept
    <3>3. QED
      BY <3>1, <3>2
  <2>3. new.steady => Honest(run[h])
    BY <1>1, <1>3, <2>2 DEF SteadyRun
  <2>4. QED
    BY <1>2, <1>7, <2>1, <2>3, OwnStep
<1>8. QED
  BY <1>4, <1>5, <1>6, <1>7

\* A job that a run reports for want of a free time has none, provided that
\* nobody else wrote meanwhile, that the courses had the teachers assigned, and
\* that no error of the database was taken for a refusal.
THEOREM ReportsAreReal == Spec => []UnresolvedIsReal
<1>1. Init => SteadyRunsHonest
  BY DEF Init, Idle, SteadyRunsHonest, SteadyRun
<1>2. SteadyRunsHonest => UnresolvedIsReal
  <2> SUFFICES ASSUME SteadyRunsHonest, NEW g \in Runs, run[g].steady, NEW r \in run[g].full,
                      NEW t \in Times
               PROVE  Unfit(r, t)
    BY DEF UnresolvedIsReal, Unfit
  <2>1. SteadyRun(run[g])
    BY DEF SteadyRunsHonest
  <2>2. QED
    BY <2>1 DEF SteadyRun, Honest, ReportsHold
<1>3. QED
  BY <1>1, <1>2, SteadyStep, GenerationInductive, PTL DEF Spec
=============================================================================
