-------------------------- MODULE GenerationProofs --------------------------
(***************************************************************************)
(* Proofs about Generation, for any requirements, classes, teachers, week, *)
(* rooms, courses and runs, and for any bounds.                            *)
(***************************************************************************)
EXTENDS Generation, FiniteSetTheorems, TLAPS

\* The same run, disturbed or not.
Same(a, b) ==
    /\ a.pc = b.pc /\ a.jobs = b.jobs /\ a.job = b.job /\ a.teacher = b.teacher
    /\ a.course = b.course /\ a.left = b.left /\ a.time = b.time /\ a.rooms = b.rooms
    /\ a.room = b.room

\* A run that has a job and its course.
AtWork == {"placing", "choosing", "writing", "telling"}

\* A course linked to a requirement, or one that a deletion has unlinked.
Serves(c, r) ==
    /\ c \in Present
    /\ madeFor[c] = r
    /\ course[c].requirement = r \/ state[r] = "deleted"

\* A run at work has a job, which is no longer to do.
HasJob(g) ==
    run[g].pc \in AtWork \cup {"creating", "linking"} =>
        /\ run[g].job \in Requirements
        /\ run[g].jobs[run[g].job] = None
        /\ run[g].teacher \in Teachers

\* The course that a run is about to link.
LinksOne(g) ==
    run[g].pc = "linking" =>
        /\ run[g].course \in Present
        /\ madeFor[run[g].course] = run[g].job
        /\ course[run[g].course].requirement = None

\* The course of the job at work.
ServesJob(g) ==
    run[g].pc \in AtWork =>
        /\ run[g].course \in Courses
        /\ \A c \in Courses, r \in Requirements :
              run[g].course = c /\ run[g].job = r => Serves(c, r)

\* The courses read for the jobs to come.
ServesRead(g) ==
    \A r \in Requirements, c \in Courses :
        run[g].jobs[r] # None /\ run[g].jobs[r].course = c => Serves(c, r)

\* What a run works from.
JobKnown(g) == HasJob(g) /\ LinksOne(g) /\ ServesJob(g) /\ ServesRead(g)

JobsKnown == \A g \in Runs : JobKnown(g)

\* Two runs never link one course.
LinksApart ==
    \A g, h \in Runs :
        run[g].pc = "linking" /\ run[h].pc = "linking" /\ run[g].course = run[h].course => g = h

\* Where a run stands.
PlaceKnown(g) ==
    /\ run[g].pc \in {"creating", "linking", "placing"} => run[g].time # 0
    /\ run[g].pc \in {"choosing", "writing", "telling"} =>
          run[g].time \in Times /\ run[g].left # 0
    /\ run[g].pc \in {"writing", "telling"} => run[g].room \in Rooms

PlacesKnown == \A g \in Runs : PlaceKnown(g)

\* A course was made for a requirement and is linked to no other.
MadeWell(c) ==
    c \in Present => madeFor[c] \in Requirements /\ course[c].requirement \in {None, madeFor[c]}

\* The course of a session of a run was linked.
SessionKnown(x) ==
    /\ x.course \in Present
    /\ x.byRun => \/ course[x.course].requirement = madeFor[x.course]
                  \/ state[madeFor[x.course]] = "deleted"

CoursesKnown == (\A c \in Courses : MadeWell(c)) /\ (\A x \in slots : SessionKnown(x))

\* Until two runs cross there is one.
OneRun ==
    ~crossed => \A g, h \in Runs : run[g].pc # "idle" /\ run[h].pc # "idle" => g = h

\* A run that tries a time.
Trying == {"choosing", "writing", "telling"}

\* Until two runs cross, a class has no session at the time that a run tries for
\* it, but one of the course at hand whose notification failed.
FreeFor(g, y) ==
    /\ ~crossed /\ run[g].pc \in Trying /\ state[run[g].job] # "deleted"
    /\ y.byRun /\ y.time = run[g].time
    /\ ClassOf[madeFor[y.course]] = ClassOf[run[g].job]
    /\ state[madeFor[y.course]] # "deleted"
    => y.course = run[g].course

ClassFree == \A g \in Runs, y \in slots : FreeFor(g, y)

\* A requirement that has no course, if it is still there.
Unserved(r) ==
    \/ state[r] = "deleted"
    \/ state[r] = "present" /\ \A c \in Courses : c \in Present => course[c].requirement # r

\* Until two runs cross, a requirement read without a course has none yet.
UnlinkedFor(g, r) ==
    ~crossed =>
        /\ run[g].pc \in {"creating", "linking"} /\ run[g].job = r => Unserved(r)
        /\ run[g].pc # "idle" /\ run[g].jobs[r] # None =>
              /\ state[r] # "absent"
              /\ run[g].jobs[r].course = None => Unserved(r)

NothingLinked == \A g \in Runs, r \in Requirements : UnlinkedFor(g, r)

\* The parts of Run, named.
AllJobs == [Requirements -> Job \cup {None}]
RunTimes == 0 .. LastTime + 1
TeacherTimes == SUBSET (Teachers \X Times)
RoomTimes == SUBSET (Rooms \X Times)

RunsTyped == run \in [Runs -> Run]

RestTyped ==
    /\ state \in [Requirements -> {"absent", "present", "deleted"}]
    /\ assigned \in [Requirements -> Teachers \cup {None}]
    /\ course \in [Courses -> Course \cup {None}]
    /\ slots \subseteq Slot /\ IsFiniteSet(slots)
    /\ madeFor \in [Courses -> Requirements \cup {None}]
    /\ crossed \in BOOLEAN
    /\ orphaned \subseteq Courses /\ untold \subseteq Requirements
    /\ starts \in 0 .. MaxStarts /\ edits \in 0 .. MaxEdits

\* A course that nobody knows has a cause.
Caused(d) ==
    \/ d \notin Present
    \/ course[d].requirement # None
    \/ \E g \in Runs : run[g].pc = "linking" /\ run[g].course = d
    \/ d \in orphaned
    \/ crossed
    \/ state[madeFor[d]] = "deleted"

\* Two sessions do not meet in a class.
Apart(x, y) ==
    /\ x # y /\ x.byRun /\ y.byRun /\ x.time = y.time
    /\ ClassOf[madeFor[x.course]] = ClassOf[madeFor[y.course]]
    => \/ crossed
       \/ state[madeFor[x.course]] = "deleted"
       \/ state[madeFor[y.course]] = "deleted"

\* A step that leaves the rows alone.
Quiet ==
    /\ UNCHANGED <<rows, madeFor>>
    /\ crossed => crossed'
    /\ orphaned \subseteq orphaned'

\* A requirement deleted stays deleted, and one that was there is not absent.
StateKept(q) ==
    /\ state[q] = "deleted" => state'[q] = "deleted"
    /\ state[q] # "absent" => state'[q] # "absent"

\* The strengthening.
IInv ==
    /\ TypeOK
    /\ IsFiniteSet(slots)
    /\ JobsKnown
    /\ LinksApart
    /\ PlacesKnown
    /\ CoursesKnown
    /\ OneRun
    /\ ClassFree
    /\ NothingLinked
    /\ ClassNeverTwice
    /\ OrphansHaveACause

\* The fields of a run, by name.
LEMMA RunFields ==
    Run = [pc : Steps, jobs : AllJobs, job : Requirements \cup {None}, teacher : Teachers \cup
        {None},
           course : Courses \cup {None}, left : Nat, time : RunTimes, rooms : SUBSET Rooms,
           room : Rooms \cup {None}, usedTeachers : TeacherTimes, usedRooms : RoomTimes,
           full : SUBSET Requirements, steady : BOOLEAN]
BY DEF Run, AllJobs, RunTimes, TeacherTimes, RoomTimes

\* A step of one keeps the others in their place.
LEMMA DisturbedEffect ==
    ASSUME TypeOK, NEW own
    PROVE  /\ Disturbed(own) \in [Runs -> Run]
           /\ \A h \in Runs : Same(Disturbed(own)[h], run[h])
           /\ \A h \in Runs : h \in own => Disturbed(own)[h] = run[h]
<1>0. \A one \in Run : [one EXCEPT !.steady = FALSE] \in Run
  BY RunFields
<1>1. \A h \in Runs : run[h] \in Run /\ [run[h] EXCEPT !.steady = FALSE] \in Run
  BY <1>0 DEF TypeOK
<1>2. \A h \in Runs : Disturbed(own)[h] \in {run[h], [run[h] EXCEPT !.steady = FALSE]}
  BY DEF Disturbed
<1>3. \A h \in Runs : Same([run[h] EXCEPT !.steady = FALSE], run[h])
  BY <1>1 DEF Same, Run
<1>4. \A h \in Runs : h \in own => Disturbed(own)[h] = run[h]
  BY DEF Disturbed
<1>5. Disturbed(own) \in [Runs -> Run]
  BY <1>1 DEF Disturbed
<1>6. \A h \in Runs : Same(Disturbed(own)[h], run[h])
  BY <1>2, <1>3 DEF Same
<1>7. QED
  BY <1>4, <1>5, <1>6

\* An edit by hand moves no run.
LEMMA EditsEffect ==
    ASSUME TypeOK, Edits
    PROVE  run' \in [Runs -> Run] /\ \A h \in Runs : Same(run'[h], run[h])
BY DisturbedEffect DEF Edits

\* What Start(g) does to the runs.
LEMMA StartEffect ==
    ASSUME TypeOK, NEW g \in Runs, Start(g)
    PROVE  /\ run'[g].pc = "next"
           /\ run'[g].jobs = [q \in Requirements |-> IF state[q] = "present" THEN Read(q) ELSE None]
           /\ run'[g].job = None
           /\ run'[g].teacher = None
           /\ run'[g].course = None
           /\ run'[g].left = 0
           /\ run'[g].time = 0
           /\ run'[g].rooms = {}
           /\ run'[g].room = None
           /\ \A h \in Runs \ {g} : Same(run'[h], run[h])
<1>1. \A h \in Runs \ {g} : Same(run'[h], run[h])
  BY DisturbedEffect DEF Start
<1>2. run'[g] = [Idle EXCEPT !.pc = "next",
                            !.jobs = [q \in Requirements |->
                                        IF state[q] = "present" THEN Read(q) ELSE None],
                            !.steady = (Underway = {} /\ Consistent)]
  <2>1. Disturbed({}) \in [Runs -> Run]
    BY DisturbedEffect
  <2>2. QED
    BY <2>1 DEF Start
<1>3. QED
  BY <1>1, <1>2 DEF Idle

\* What SkipJob(g, r) does to the runs.
LEMMA SkipJobEffect ==
    ASSUME TypeOK, NEW g \in Runs, NEW r \in Requirements, SkipJob(g, r)
    PROVE  /\ run'[g].pc = run[g].pc
           /\ run'[g].jobs = [run[g].jobs EXCEPT ![r] = None]
           /\ run'[g].job = run[g].job
           /\ run'[g].teacher = run[g].teacher
           /\ run'[g].course = run[g].course
           /\ run'[g].left = run[g].left
           /\ run'[g].time = run[g].time
           /\ run'[g].rooms = run[g].rooms
           /\ run'[g].room = run[g].room
           /\ \A h \in Runs \ {g} : Same(run'[h], run[h])
<1>1. run[g] \in Run /\ \A h \in Runs \ {g} : run'[h] = run[h]
  BY DEF SkipJob, TypeOK
<1>2. QED
  BY <1>1 DEF SkipJob, TypeOK, Run, Same

\* What BeginJob(g, r) does to the runs.
LEMMA BeginJobEffect ==
    ASSUME TypeOK, NEW g \in Runs, NEW r \in Requirements, BeginJob(g, r)
    PROVE  /\ run'[g].pc = (IF run[g].jobs[r].course = None THEN "creating" ELSE "placing")
           /\ run'[g].jobs = [run[g].jobs EXCEPT ![r] = None]
           /\ run'[g].job = r
           /\ run'[g].teacher = run[g].jobs[r].teacher
           /\ run'[g].course = run[g].jobs[r].course
           /\ run'[g].left = Missing(g, r)
           /\ run'[g].time = 1
           /\ run'[g].rooms = run[g].rooms
           /\ run'[g].room = run[g].room
           /\ \A h \in Runs \ {g} : Same(run'[h], run[h])
<1>1. run[g] \in Run /\ \A h \in Runs \ {g} : run'[h] = run[h]
  BY DEF BeginJob, TypeOK
<1>2. QED
  BY <1>1 DEF BeginJob, TypeOK, Run, Same

\* What CreateCourse(g, c) does to the runs.
LEMMA CreateCourseEffect ==
    ASSUME TypeOK, NEW g \in Runs, NEW c \in Courses, CreateCourse(g, c)
    PROVE  /\ run'[g].pc = "linking"
           /\ run'[g].jobs = run[g].jobs
           /\ run'[g].job = run[g].job
           /\ run'[g].teacher = run[g].teacher
           /\ run'[g].course = c
           /\ run'[g].left = run[g].left
           /\ run'[g].time = run[g].time
           /\ run'[g].rooms = run[g].rooms
           /\ run'[g].room = run[g].room
           /\ \A h \in Runs \ {g} : Same(run'[h], run[h])
<1> DEFINE old == Disturbed({g})
<1>1. /\ old \in [Runs -> Run] /\ old[g] = run[g]
      /\ \A h \in Runs : Same(old[h], run[h])
  BY DisturbedEffect
<1>2. run[g] \in Run
  BY DEF TypeOK
<1>3. /\ run'[g] = [old[g] EXCEPT !.pc = "linking", !.course = c]
      /\ \A h \in Runs \ {g} : run'[h] = old[h]
  BY <1>1 DEF CreateCourse
<1> HIDE DEF old
<1>4. \A h \in Runs \ {g} : Same(run'[h], run[h])
  BY <1>1, <1>3
<1>5. QED
  BY <1>1, <1>2, <1>3, <1>4 DEF Run

\* What RefuseCourse(g) does to the runs.
LEMMA RefuseCourseEffect ==
    ASSUME TypeOK, NEW g \in Runs, RefuseCourse(g)
    PROVE  /\ run'[g].pc = "next"
           /\ run'[g].job = None
           /\ run'[g].teacher = None
           /\ run'[g].course = None
           /\ run'[g].left = 0
           /\ run'[g].time = 0
           /\ run'[g].rooms = {}
           /\ run'[g].room = None
           /\ run'[g].jobs = run[g].jobs
           /\ \A h \in Runs \ {g} : Same(run'[h], run[h])
<1>1. run[g] \in Run /\ \A h \in Runs \ {g} : run'[h] = run[h]
  BY DEF RefuseCourse, TypeOK
<1>2. QED
  BY <1>1 DEF RefuseCourse, Between, TypeOK, Run, Same

\* What LinkCourse(g) does to the runs.
LEMMA LinkCourseEffect ==
    ASSUME TypeOK, NEW g \in Runs, LinkCourse(g)
    PROVE  /\ run'[g].pc = "placing"
           /\ run'[g].jobs = run[g].jobs
           /\ run'[g].job = run[g].job
           /\ run'[g].teacher = run[g].teacher
           /\ run'[g].course = run[g].course
           /\ run'[g].left = run[g].left
           /\ run'[g].time = run[g].time
           /\ run'[g].rooms = run[g].rooms
           /\ run'[g].room = run[g].room
           /\ \A h \in Runs \ {g} : Same(run'[h], run[h])
<1> DEFINE old == Disturbed({g})
<1>1. /\ old \in [Runs -> Run] /\ old[g] = run[g]
      /\ \A h \in Runs : Same(old[h], run[h])
  BY DisturbedEffect
<1>2. run[g] \in Run
  BY DEF TypeOK
<1>3. /\ run'[g] = [old[g] EXCEPT !.pc = "placing"]
      /\ \A h \in Runs \ {g} : run'[h] = old[h]
  BY <1>1 DEF LinkCourse
<1> HIDE DEF old
<1>4. \A h \in Runs \ {g} : Same(run'[h], run[h])
  BY <1>1, <1>3
<1>5. QED
  BY <1>1, <1>2, <1>3, <1>4 DEF Run

\* What FailToLink(g) does to the runs.
LEMMA FailToLinkEffect ==
    ASSUME TypeOK, NEW g \in Runs, FailToLink(g)
    PROVE  /\ run'[g].pc = "next"
           /\ run'[g].job = None
           /\ run'[g].teacher = None
           /\ run'[g].course = None
           /\ run'[g].left = 0
           /\ run'[g].time = 0
           /\ run'[g].rooms = {}
           /\ run'[g].room = None
           /\ run'[g].jobs = run[g].jobs
           /\ \A h \in Runs \ {g} : Same(run'[h], run[h])
<1>1. run[g] \in Run /\ \A h \in Runs \ {g} : run'[h] = run[h]
  BY DEF FailToLink, TypeOK
<1>2. QED
  BY <1>1 DEF FailToLink, Between, TypeOK, Run, Same

\* What EndJob(g) does to the runs.
LEMMA EndJobEffect ==
    ASSUME TypeOK, NEW g \in Runs, EndJob(g)
    PROVE  /\ run'[g].pc = "next"
           /\ run'[g].job = None
           /\ run'[g].teacher = None
           /\ run'[g].course = None
           /\ run'[g].left = 0
           /\ run'[g].time = 0
           /\ run'[g].rooms = {}
           /\ run'[g].room = None
           /\ run'[g].jobs = run[g].jobs
           /\ \A h \in Runs \ {g} : Same(run'[h], run[h])
<1>1. run[g] \in Run /\ \A h \in Runs \ {g} : run'[h] = run[h]
  BY DEF EndJob, TypeOK
<1>2. QED
  BY <1>1 DEF EndJob, Between, Reported, TypeOK, Run, Same

\* What SkipTime(g) does to the runs.
LEMMA SkipTimeEffect ==
    ASSUME TypeOK, NEW g \in Runs, SkipTime(g)
    PROVE  /\ run'[g].pc = run[g].pc
           /\ run'[g].jobs = run[g].jobs
           /\ run'[g].job = run[g].job
           /\ run'[g].teacher = run[g].teacher
           /\ run'[g].course = run[g].course
           /\ run'[g].left = run[g].left
           /\ run'[g].time = run[g].time + 1
           /\ run'[g].rooms = run[g].rooms
           /\ run'[g].room = run[g].room
           /\ \A h \in Runs \ {g} : Same(run'[h], run[h])
<1>1. run[g] \in Run /\ \A h \in Runs \ {g} : run'[h] = run[h]
  BY DEF SkipTime, TypeOK
<1>2. QED
  BY <1>1 DEF SkipTime, TypeOK, Run, Same

\* What TakeTime(g) does to the runs.
LEMMA TakeTimeEffect ==
    ASSUME TypeOK, NEW g \in Runs, TakeTime(g)
    PROVE  /\ run'[g].pc = "choosing"
           /\ run'[g].jobs = run[g].jobs
           /\ run'[g].job = run[g].job
           /\ run'[g].teacher = run[g].teacher
           /\ run'[g].course = run[g].course
           /\ run'[g].left = run[g].left
           /\ run'[g].time = run[g].time
           /\ run'[g].rooms = RoomsToTry(g)
           /\ run'[g].room = run[g].room
           /\ \A h \in Runs \ {g} : Same(run'[h], run[h])
<1>1. run[g] \in Run /\ \A h \in Runs \ {g} : run'[h] = run[h]
  BY DEF TakeTime, TypeOK
<1>2. QED
  BY <1>1 DEF TakeTime, TypeOK, Run, Same

\* What LeaveTime(g) does to the runs.
LEMMA LeaveTimeEffect ==
    ASSUME TypeOK, NEW g \in Runs, LeaveTime(g)
    PROVE  /\ run'[g].pc = "placing"
           /\ run'[g].jobs = run[g].jobs
           /\ run'[g].job = run[g].job
           /\ run'[g].teacher = run[g].teacher
           /\ run'[g].course = run[g].course
           /\ run'[g].left = run[g].left
           /\ run'[g].time = run[g].time + 1
           /\ run'[g].rooms = run[g].rooms
           /\ run'[g].room = run[g].room
           /\ \A h \in Runs \ {g} : Same(run'[h], run[h])
<1>1. run[g] \in Run /\ \A h \in Runs \ {g} : run'[h] = run[h]
  BY DEF LeaveTime, TypeOK
<1>2. QED
  BY <1>1 DEF LeaveTime, TypeOK, Run, Same

\* What WriteSlot(g) does to the runs.
LEMMA WriteSlotEffect ==
    ASSUME TypeOK, NEW g \in Runs, WriteSlot(g)
    PROVE  /\ run'[g].pc = "telling"
           /\ run'[g].jobs = run[g].jobs
           /\ run'[g].job = run[g].job
           /\ run'[g].teacher = run[g].teacher
           /\ run'[g].course = run[g].course
           /\ run'[g].left = run[g].left
           /\ run'[g].time = run[g].time
           /\ run'[g].rooms = run[g].rooms
           /\ run'[g].room = run[g].room
           /\ \A h \in Runs \ {g} : Same(run'[h], run[h])
<1> DEFINE old == Disturbed({g})
<1>1. /\ old \in [Runs -> Run] /\ old[g] = run[g]
      /\ \A h \in Runs : Same(old[h], run[h])
  BY DisturbedEffect
<1>2. run[g] \in Run
  BY DEF TypeOK
<1>3. /\ run'[g] = [old[g] EXCEPT !.pc = "telling"]
      /\ \A h \in Runs \ {g} : run'[h] = old[h]
  BY <1>1 DEF WriteSlot
<1> HIDE DEF old
<1>4. \A h \in Runs \ {g} : Same(run'[h], run[h])
  BY <1>1, <1>3
<1>5. QED
  BY <1>1, <1>2, <1>3, <1>4 DEF Run

\* What RefuseSlot(g) does to the runs.
LEMMA RefuseSlotEffect ==
    ASSUME TypeOK, NEW g \in Runs, RefuseSlot(g)
    PROVE  /\ run'[g].pc = "choosing"
           /\ run'[g].jobs = run[g].jobs
           /\ run'[g].job = run[g].job
           /\ run'[g].teacher = run[g].teacher
           /\ run'[g].course = run[g].course
           /\ run'[g].left = run[g].left
           /\ run'[g].time = run[g].time
           /\ run'[g].rooms = run[g].rooms \ {run[g].room}
           /\ run'[g].room = None
           /\ \A h \in Runs \ {g} : Same(run'[h], run[h])
<1>1. run[g] \in Run /\ \A h \in Runs \ {g} : run'[h] = run[h]
  BY DEF RefuseSlot, TypeOK
<1>2. QED
  BY <1>1 DEF RefuseSlot, TryAnother, TypeOK, Run, Same

\* What TellTeacher(g) does to the runs.
LEMMA TellTeacherEffect ==
    ASSUME TypeOK, NEW g \in Runs, TellTeacher(g)
    PROVE  /\ run'[g].pc = "placing"
           /\ run'[g].jobs = run[g].jobs
           /\ run'[g].job = run[g].job
           /\ run'[g].teacher = run[g].teacher
           /\ run'[g].course = run[g].course
           /\ run'[g].left = run[g].left - 1
           /\ run'[g].time = run[g].time + 1
           /\ run'[g].rooms = {}
           /\ run'[g].room = None
           /\ \A h \in Runs \ {g} : Same(run'[h], run[h])
<1>1. run[g] \in Run /\ \A h \in Runs \ {g} : run'[h] = run[h]
  BY DEF TellTeacher, TypeOK
<1>2. QED
  BY <1>1 DEF TellTeacher, Counted, TypeOK, Run, Same

\* What FailToTell(g) does to the runs.
LEMMA FailToTellEffect ==
    ASSUME TypeOK, NEW g \in Runs, FailToTell(g)
    PROVE  /\ run'[g].pc = "choosing"
           /\ run'[g].jobs = run[g].jobs
           /\ run'[g].job = run[g].job
           /\ run'[g].teacher = run[g].teacher
           /\ run'[g].course = run[g].course
           /\ run'[g].left = run[g].left
           /\ run'[g].time = run[g].time
           /\ run'[g].rooms = run[g].rooms \ {run[g].room}
           /\ run'[g].room = None
           /\ \A h \in Runs \ {g} : Same(run'[h], run[h])
<1>1. run[g] \in Run /\ \A h \in Runs \ {g} : run'[h] = run[h]
  BY DEF FailToTell, TypeOK
<1>2. QED
  BY <1>1 DEF FailToTell, TryAnother, TypeOK, Run, Same

\* What EndRun(g) does to the runs.
LEMMA EndRunEffect ==
    ASSUME TypeOK, NEW g \in Runs, EndRun(g)
    PROVE  /\ run'[g].pc = "idle"
           /\ run'[g].jobs = [q \in Requirements |-> None]
           /\ run'[g].job = None
           /\ run'[g].teacher = None
           /\ run'[g].course = None
           /\ run'[g].left = 0
           /\ run'[g].time = 0
           /\ run'[g].rooms = {}
           /\ run'[g].room = None
           /\ \A h \in Runs \ {g} : Same(run'[h], run[h])
<1>1. run'[g] = Idle /\ \A h \in Runs \ {g} : run'[h] = run[h]
  BY DEF EndRun, TypeOK
<1>2. QED
  BY <1>1 DEF Idle, Same

\* What Crash(g) does to the runs.
LEMMA CrashEffect ==
    ASSUME TypeOK, NEW g \in Runs, Crash(g)
    PROVE  /\ run'[g].pc = "idle"
           /\ run'[g].jobs = [q \in Requirements |-> None]
           /\ run'[g].job = None
           /\ run'[g].teacher = None
           /\ run'[g].course = None
           /\ run'[g].left = 0
           /\ run'[g].time = 0
           /\ run'[g].rooms = {}
           /\ run'[g].room = None
           /\ \A h \in Runs \ {g} : Same(run'[h], run[h])
<1>1. run'[g] = Idle /\ \A h \in Runs \ {g} : run'[h] = run[h]
  BY DEF Crash, TypeOK
<1>2. QED
  BY <1>1 DEF Idle, Same

\* What CheckRoom(g, room) does to the runs.
LEMMA CheckRoomEffect ==
    ASSUME TypeOK, NEW g \in Runs, NEW room \in Rooms, CheckRoom(g, room)
    PROVE  /\ (run'[g].pc = "writing" /\ run'[g].room = room) \/ run'[g].pc = "choosing"
           /\ run'[g].jobs = run[g].jobs /\ run'[g].job = run[g].job
           /\ run'[g].teacher = run[g].teacher /\ run'[g].course = run[g].course
           /\ run'[g].left = run[g].left /\ run'[g].time = run[g].time
           /\ \A h \in Runs \ {g} : Same(run'[h], run[h])
<1>1. run[g] \in Run /\ \A h \in Runs \ {g} : run'[h] = run[h]
  BY DEF CheckRoom, TypeOK
<1>2. \/ run'[g] = [run[g] EXCEPT !.pc = "writing", !.room = room]
      \/ run[g].pc = "choosing" /\ run'[g] = [run[g] EXCEPT !.rooms = @ \ {room}]
      \/ /\ run[g].pc = "choosing"
         /\ run'[g] = [run[g] EXCEPT !.rooms = @ \ {room}, !.steady = FALSE]
  BY DEF CheckRoom, TypeOK
<1>3. \A h \in Runs \ {g} : Same(run'[h], run[h])
  BY <1>1 DEF Same
<1>4. CASE run'[g] = [run[g] EXCEPT !.pc = "writing", !.room = room]
  BY <1>1, <1>3, <1>4 DEF Run
<1>5. CASE run[g].pc = "choosing" /\ run'[g] = [run[g] EXCEPT !.rooms = @ \ {room}]
  BY <1>1, <1>3, <1>5 DEF Run
<1>6. CASE /\ run[g].pc = "choosing"
           /\ run'[g] = [run[g] EXCEPT !.rooms = @ \ {room}, !.steady = FALSE]
  BY <1>1, <1>3, <1>6 DEF Run
<1>7. QED
  BY <1>2, <1>4, <1>5, <1>6

\* The values with which a run begins.
LEMMA BlankValues ==
    /\ 0 \in RunTimes /\ 1 \in RunTimes
    /\ {} \in TeacherTimes /\ {} \in RoomTimes
    /\ [q \in Requirements |-> None] \in AllJobs
    /\ \A name \in {"idle", "next", "creating", "linking", "placing", "choosing", "writing",
        "telling"} :
          name \in Steps
BY WeekAssumption DEF RunTimes, TeacherTimes, RoomTimes, AllJobs, Steps

\* An idle run, one between two jobs and one that tries another room are runs.
LEMMA IdleTyped ==
    /\ Idle \in Run
    /\ \A own \in Run : Between(own) \in Run
    /\ \A own \in Run, refused \in BOOLEAN : TryAnother(own, refused) \in Run
<1>1. Idle \in Run
  BY RunFields, BlankValues DEF Idle
<1>2. ASSUME NEW own \in Run PROVE Between(own) \in Run
  BY RunFields, BlankValues DEF Between
<1>3. ASSUME NEW own \in Run, NEW refused \in BOOLEAN PROVE TryAnother(own, refused) \in Run
  BY RunFields, BlankValues DEF TryAnother
<1>4. QED
  BY <1>1, <1>2, <1>3

\* What a run reads of a requirement.
LEMMA ReadTyped ==
    ASSUME TypeOK, IsFiniteSet(slots), NEW r \in Requirements
    PROVE  Read(r) \in Job /\ (Read(r).course = None <=> LinkedTo(r) = {})
<1>1. SessionsOf(r) \subseteq slots
  BY DEF SessionsOf
<1>2. Cardinality(SessionsOf(r)) \in Nat
  BY <1>1, FS_Subset, FS_CardinalityType
<1>3. LinkedTo(r) \subseteq Courses
  BY DEF LinkedTo, Present
<1>4. CASE LinkedTo(r) = {}
  BY <1>2, <1>4 DEF Read, Job, TypeOK
<1>5. CASE LinkedTo(r) # {}
  <2> DEFINE found == CHOOSE c \in LinkedTo(r) : TRUE
  <2>1. found \in Courses /\ found # None
    BY <1>3, <1>5, NoneAssumption
  <2>2. Read(r) = [teacher |-> assigned[r], course |-> found, sessions |->
      Cardinality(SessionsOf(r))]
    BY <1>5 DEF Read
  <2> HIDE DEF found
  <2>3. QED
    BY <1>2, <1>5, <2>1, <2>2 DEF Job, TypeOK
<1>6. QED
  BY <1>4, <1>5

\* Runs keep their type.
LEMMA RunsStep ==
    ASSUME TypeOK, IsFiniteSet(slots), JobsKnown, PlacesKnown, [Next]_vars
    PROVE  RunsTyped'
<1> USE DEF RunsTyped
<1>0. \A h \in Runs : JobKnown(h) /\ PlaceKnown(h)
  BY DEF JobsKnown, PlacesKnown
<1>1. ASSUME NEW r \in Requirements, CreateRequirement(r)
      PROVE  RunsTyped'
  BY <1>1, EditsEffect DEF CreateRequirement
<1>2. ASSUME NEW r \in Requirements, DeleteRequirement(r)
      PROVE  RunsTyped'
  BY <1>2, EditsEffect DEF DeleteRequirement
<1>3. ASSUME NEW r \in Requirements, NEW teacher \in Teachers \cup {None}, Assign(r, teacher)
      PROVE  RunsTyped'
  BY <1>3, EditsEffect DEF Assign
<1>4. ASSUME NEW c \in Courses, NEW t \in Times, NEW room \in Rooms, AddByHand(c, t, room)
      PROVE  RunsTyped'
  BY <1>4, EditsEffect DEF AddByHand
<1>5. ASSUME NEW x \in slots, DeleteSlot(x)
      PROVE  RunsTyped'
  BY <1>5, EditsEffect DEF DeleteSlot
<1>6. ASSUME NEW g \in Runs, Start(g)
      PROVE  RunsTyped'
  <2> DEFINE old == Disturbed({})
            jobs == [q \in Requirements |-> IF state[q] = "present" THEN Read(q) ELSE None]
            own == [Idle EXCEPT !.pc = "next", !.jobs = jobs,
                                !.steady = (Underway = {} /\ Consistent)]
  <2>1. old \in [Runs -> Run]
    BY DisturbedEffect
  <2>2. jobs \in AllJobs
    BY ReadTyped DEF AllJobs
  <2>3. (Underway = {} /\ Consistent) \in BOOLEAN
    BY DEF Consistent
  <2>4. run' = [old EXCEPT ![g] = own]
    BY <1>6 DEF Start
  <2> DEFINE calm == (Underway = {} /\ Consistent)
  <2> HIDE DEF jobs, calm
  <2>a. calm \in BOOLEAN
    BY <2>3 DEF calm
  <2>b. \A one \in Run : [one EXCEPT !.pc = "next", !.jobs = jobs, !.steady = calm] \in Run
    BY <2>2, <2>a, RunFields, BlankValues
  <2>5. own \in Run
    BY <2>b, IdleTyped DEF calm
  <2> HIDE DEF old, own
  <2>6. QED
    BY <2>1, <2>4, <2>5
<1>7. ASSUME NEW g \in Runs, NEW r \in Requirements, SkipJob(g, r)
      PROVE  RunsTyped'
  <2>1. run[g] \in Run
    BY DEF TypeOK
  <2>2. run[g].jobs \in AllJobs /\ [run[g].jobs EXCEPT ![r] = None] \in AllJobs
    BY <2>1, RunFields, <1>7 DEF AllJobs
  <2> DEFINE own == [run[g] EXCEPT !.jobs = [run[g].jobs EXCEPT ![r] = None]]
  <2>3. own \in Run
    BY <2>1, <2>2, RunFields, BlankValues
  <2>4. run' = [run EXCEPT ![g] = own]
    BY <1>7 DEF SkipJob, TypeOK
  <2> HIDE DEF own
  <2>5. QED
    BY <2>3, <2>4 DEF TypeOK
<1>8. ASSUME NEW g \in Runs, NEW r \in Requirements, BeginJob(g, r)
      PROVE  RunsTyped'
  <2>1. run[g] \in Run
    BY DEF TypeOK
  <2>2. /\ [run[g].jobs EXCEPT ![r] = None] \in AllJobs
        /\ run[g].jobs[r] \in Job /\ Missing(g, r) \in Nat
    BY <2>1, RunFields, <1>8, RequirementAssumption DEF AllJobs, BeginJob, IsNext, Job, Missing
  <2> DEFINE own == [run[g] EXCEPT !.pc = (IF run[g].jobs[r].course = None THEN "creating" ELSE
                           "placing"), !.jobs = [run[g].jobs EXCEPT ![r] = None], !.job = r,
                           !.teacher = run[g].jobs[r].teacher, !.course = run[g].jobs[r].course,
                           !.left = Missing(g, r), !.time = 1]
  <2>3. own \in Run
    BY <2>1, <2>2, RunFields, BlankValues DEF Job
  <2>4. run' = [run EXCEPT ![g] = own]
    BY <1>8 DEF BeginJob, TypeOK
  <2> HIDE DEF own
  <2>5. QED
    BY <2>3, <2>4 DEF TypeOK
<1>9. ASSUME NEW g \in Runs, NEW c \in Courses, CreateCourse(g, c)
      PROVE  RunsTyped'
  <2> DEFINE old == Disturbed({g})
  <2>0. old \in [Runs -> Run] /\ old[g] = run[g]
    BY DisturbedEffect
  <2>1. run[g] \in Run
    BY DEF TypeOK
  <2> DEFINE own == [run[g] EXCEPT !.pc = "linking", !.course = c]
  <2>2. own \in Run
    BY <2>1, RunFields, BlankValues
  <2>3. run' = [old EXCEPT ![g] = own]
    BY <1>9, <2>0 DEF CreateCourse, TypeOK
  <2> HIDE DEF own, old
  <2>4. QED
    BY <2>2, <2>3, <2>0 DEF TypeOK
<1>10. ASSUME NEW g \in Runs, RefuseCourse(g)
      PROVE  RunsTyped'
  BY <1>10, IdleTyped DEF TypeOK, RefuseCourse
<1>11. ASSUME NEW g \in Runs, LinkCourse(g)
      PROVE  RunsTyped'
  <2> DEFINE old == Disturbed({g})
  <2>0. old \in [Runs -> Run] /\ old[g] = run[g]
    BY DisturbedEffect
  <2>1. run[g] \in Run
    BY DEF TypeOK
  <2> DEFINE own == [run[g] EXCEPT !.pc = "placing"]
  <2>2. own \in Run
    BY <2>1, RunFields, BlankValues
  <2>3. run' = [old EXCEPT ![g] = own]
    BY <1>11, <2>0 DEF LinkCourse, TypeOK
  <2> HIDE DEF own, old
  <2>4. QED
    BY <2>2, <2>3, <2>0 DEF TypeOK
<1>12. ASSUME NEW g \in Runs, FailToLink(g)
      PROVE  RunsTyped'
  BY <1>12, IdleTyped DEF TypeOK, FailToLink
<1>13. ASSUME NEW g \in Runs, EndJob(g)
      PROVE  RunsTyped'
  <2>1. run[g] \in Run /\ run[g].job \in Requirements
    BY <1>13, <1>0 DEF TypeOK, EndJob, JobKnown, HasJob, LinksOne, AtWork
  <2>2. Reported(run[g]) \in Run
    <3>1. run[g].full \in SUBSET Requirements
      BY <2>1, RunFields
    <3>2. (IF run[g].left > 0 THEN run[g].full \cup {run[g].job} ELSE run[g].full) \in SUBSET
        Requirements
      BY <2>1, <3>1
    <3>3. QED
      BY <2>1, <3>2, RunFields DEF Reported
  <2>3. run' = [run EXCEPT ![g] = Between(Reported(run[g]))]
    BY <1>13 DEF EndJob
  <2>4. QED
    BY <2>2, <2>3, IdleTyped DEF TypeOK
<1>14. ASSUME NEW g \in Runs, SkipTime(g)
      PROVE  RunsTyped'
  <2>1. run[g] \in Run
    BY DEF TypeOK
  <2>2. run[g].time + 1 \in RunTimes
    BY <2>1, RunFields, <1>14, WeekAssumption DEF SkipTime, More, RunTimes
  <2> DEFINE own == [run[g] EXCEPT !.time = run[g].time + 1]
  <2>3. own \in Run
    BY <2>1, <2>2, RunFields, BlankValues
  <2>4. run' = [run EXCEPT ![g] = own]
    BY <1>14 DEF SkipTime, TypeOK
  <2> HIDE DEF own
  <2>5. QED
    BY <2>3, <2>4 DEF TypeOK
<1>15. ASSUME NEW g \in Runs, TakeTime(g)
      PROVE  RunsTyped'
  <2>1. run[g] \in Run
    BY DEF TypeOK
  <2>2. RoomsToTry(g) \in SUBSET Rooms
    BY <2>1, RunFields DEF RoomsToTry
  <2> DEFINE own == [run[g] EXCEPT !.pc = "choosing", !.rooms = RoomsToTry(g)]
  <2>3. own \in Run
    BY <2>1, <2>2, RunFields, BlankValues
  <2>4. run' = [run EXCEPT ![g] = own]
    BY <1>15 DEF TakeTime, TypeOK
  <2> HIDE DEF own
  <2>5. QED
    BY <2>3, <2>4 DEF TypeOK
<1>16. ASSUME NEW g \in Runs, LeaveTime(g)
      PROVE  RunsTyped'
  <2>1. run[g] \in Run
    BY DEF TypeOK
  <2>2. run[g].time + 1 \in RunTimes
    BY <2>1, RunFields, <1>16, <1>0, WeekAssumption DEF LeaveTime, PlaceKnown, Times, RunTimes
  <2> DEFINE own == [run[g] EXCEPT !.pc = "placing", !.time = run[g].time + 1]
  <2>3. own \in Run
    BY <2>1, <2>2, RunFields, BlankValues
  <2>4. run' = [run EXCEPT ![g] = own]
    BY <1>16 DEF LeaveTime, TypeOK
  <2> HIDE DEF own
  <2>5. QED
    BY <2>3, <2>4 DEF TypeOK
<1>17. ASSUME NEW g \in Runs, NEW room \in Rooms, CheckRoom(g, room)
      PROVE  RunsTyped'
  <2>1. run[g] \in Run
    BY DEF TypeOK
  <2> DEFINE chosen == [run[g] EXCEPT !.pc = "writing", !.room = room]
            other == [run[g] EXCEPT !.rooms = run[g].rooms \ {room}]
            mistaken == [run[g] EXCEPT !.rooms = run[g].rooms \ {room}, !.steady = FALSE]
  <2>4. run[g].rooms \ {room} \in SUBSET Rooms
    BY <2>1, RunFields
  <2>2. chosen \in Run /\ other \in Run /\ mistaken \in Run
    BY <2>1, <2>4, RunFields, BlankValues
  <2>3. \/ run' = [run EXCEPT ![g] = chosen] \/ run' = [run EXCEPT ![g] = other]
        \/ run' = [run EXCEPT ![g] = mistaken]
    BY <1>17 DEF CheckRoom, TypeOK
  <2> HIDE DEF chosen, other, mistaken
  <2>5. QED
    BY <2>2, <2>3 DEF TypeOK
<1>18. ASSUME NEW g \in Runs, WriteSlot(g)
      PROVE  RunsTyped'
  <2> DEFINE old == Disturbed({g})
  <2>0. old \in [Runs -> Run] /\ old[g] = run[g]
    BY DisturbedEffect
  <2>1. run[g] \in Run
    BY DEF TypeOK
  <2> DEFINE own == [run[g] EXCEPT !.pc = "telling"]
  <2>2. own \in Run
    BY <2>1, RunFields, BlankValues
  <2>3. run' = [old EXCEPT ![g] = own]
    BY <1>18, <2>0 DEF WriteSlot, TypeOK
  <2> HIDE DEF own, old
  <2>4. QED
    BY <2>2, <2>3, <2>0 DEF TypeOK
<1>19. ASSUME NEW g \in Runs, RefuseSlot(g)
      PROVE  RunsTyped'
  <2>1. TeacherBusy(course[run[g].course].teacher, run[g].time) \in BOOLEAN
    BY DEF TeacherBusy
  <2>2. QED
    BY <1>19, <2>1, IdleTyped DEF TypeOK, RefuseSlot
<1>20. ASSUME NEW g \in Runs, TellTeacher(g)
      PROVE  RunsTyped'
  <2>1. run[g] \in Run
    BY DEF TypeOK
  <2>2. /\ run[g].teacher \in Teachers /\ run[g].time \in Times /\ run[g].room \in Rooms
        /\ run[g].left - 1 \in Nat
    BY <1>20, <1>0, <2>1, RunFields DEF TellTeacher, JobKnown, HasJob, ServesJob, PlaceKnown, AtWork
  <2>3. /\ run[g].time + 1 \in RunTimes
        /\ run[g].usedTeachers \cup {<<run[g].teacher, run[g].time>>} \in TeacherTimes
        /\ run[g].usedRooms \cup {<<run[g].room, run[g].time>>} \in RoomTimes
    BY <2>1, <2>2, WeekAssumption, RunFields DEF RunTimes, TeacherTimes, RoomTimes, Times
  <2> DEFINE own == Counted(run[g])
  <2>4. own \in Run
    BY <2>1, <2>2, <2>3, RunFields, BlankValues DEF Counted
  <2>5. run' = [run EXCEPT ![g] = own]
    BY <1>20 DEF TellTeacher
  <2> HIDE DEF own
  <2>6. QED
    BY <2>4, <2>5 DEF TypeOK
<1>21. ASSUME NEW g \in Runs, FailToTell(g)
      PROVE  RunsTyped'
  BY <1>21, IdleTyped DEF TypeOK, FailToTell
<1>22. ASSUME NEW g \in Runs, EndRun(g)
      PROVE  RunsTyped'
  BY <1>22, IdleTyped DEF TypeOK, EndRun
<1>23. ASSUME NEW g \in Runs, Crash(g)
      PROVE  RunsTyped'
  BY <1>23, IdleTyped DEF TypeOK, Crash
<1>24. CASE UNCHANGED vars
  BY <1>24, <1>0 DEF vars, TypeOK
<1> HIDE DEF RunsTyped
<1>25. QED
  BY <1>1, <1>2, <1>3, <1>4, <1>5, <1>6, <1>7, <1>8, <1>9, <1>10, <1>11, <1>12, <1>13, <1>14,
     <1>15, <1>16, <1>17, <1>18, <1>19, <1>20, <1>21, <1>22, <1>23, <1>24 DEF Next, Edit, RunStep

\* Rows, histories and bounds keep their types.
LEMMA RestStep ==
    ASSUME TypeOK, IsFiniteSet(slots), JobsKnown, PlacesKnown, [Next]_vars
    PROVE  RestTyped'
<1> USE DEF RestTyped, TypeOK, rows, history, counts
<1>0. \A h \in Runs : JobKnown(h) /\ PlaceKnown(h)
  BY DEF JobsKnown, PlacesKnown
<1>1. ASSUME NEW r \in Requirements, CreateRequirement(r)
      PROVE  RestTyped'
  BY <1>1, BoundAssumption DEF CreateRequirement, Edits
<1>2. ASSUME NEW r \in Requirements, DeleteRequirement(r)
      PROVE  RestTyped'
  <2>1. \A c \in LinkedTo(r) : c \in Courses /\ course[c] \in Course
    BY DEF LinkedTo, Present
  <2>2. \A c \in LinkedTo(r) : [course[c] EXCEPT !.requirement = None] \in Course
    BY <2>1 DEF Course
  <2>3. course' \in [Courses -> Course \cup {None}]
    BY <1>2, <2>2 DEF DeleteRequirement
  <2>4. QED
    BY <1>2, <2>3, BoundAssumption DEF DeleteRequirement, Edits
<1>3. ASSUME NEW r \in Requirements, NEW teacher \in Teachers \cup {None}, Assign(r, teacher)
      PROVE  RestTyped'
  BY <1>3, BoundAssumption DEF Assign, Edits
<1>4. ASSUME NEW c \in Courses, NEW t \in Times, NEW room \in Rooms, AddByHand(c, t, room)
      PROVE  RestTyped'
  <2> DEFINE new == [course |-> c, time |-> t, room |-> room, byRun |-> FALSE]
  <2>1. new \in Slot
    BY DEF Slot
  <2>2. slots' = slots \cup {new}
    BY <1>4 DEF AddByHand
  <2> HIDE DEF new
  <2>3. QED
    BY <1>4, <2>1, <2>2, FS_AddElement, BoundAssumption DEF AddByHand, Edits
<1>5. ASSUME NEW x \in slots, DeleteSlot(x)
      PROVE  RestTyped'
  BY <1>5, FS_RemoveElement, BoundAssumption DEF DeleteSlot, Edits
<1>6. ASSUME NEW g \in Runs, Start(g)
      PROVE  RestTyped'
  BY <1>6, BoundAssumption DEF Start
<1>7. ASSUME NEW g \in Runs, NEW r \in Requirements, SkipJob(g, r)
      PROVE  RestTyped'
  BY <1>7 DEF SkipJob
<1>8. ASSUME NEW g \in Runs, NEW r \in Requirements, BeginJob(g, r)
      PROVE  RestTyped'
  BY <1>8 DEF BeginJob
<1>9. ASSUME NEW g \in Runs, NEW c \in Courses, CreateCourse(g, c)
      PROVE  RestTyped'
  <2>1. run[g].teacher \in Teachers /\ run[g].job \in Requirements
    BY <1>9, <1>0 DEF CreateCourse, JobKnown, HasJob, LinksOne, AtWork
  <2>2. QED
    BY <1>9, <2>1 DEF CreateCourse, Course
<1>10. ASSUME NEW g \in Runs, RefuseCourse(g)
      PROVE  RestTyped'
  BY <1>10 DEF RefuseCourse
<1>11. ASSUME NEW g \in Runs, LinkCourse(g)
      PROVE  RestTyped'
  <2>1. /\ run[g].job \in Requirements
        /\ run[g].course \in Courses /\ course[run[g].course] \in Course
    BY <1>11, <1>0 DEF LinkCourse, JobKnown, HasJob, LinksOne, AtWork, Present
  <2>2. [course[run[g].course] EXCEPT !.requirement = run[g].job] \in Course
    BY <2>1 DEF Course
  <2>3. course' = [course EXCEPT ![run[g].course] = [course[run[g].course] EXCEPT !.requirement =
                           run[g].job]]
    BY <1>11 DEF LinkCourse
  <2>4. QED
    BY <1>11, <2>2, <2>3 DEF LinkCourse
<1>12. ASSUME NEW g \in Runs, FailToLink(g)
      PROVE  RestTyped'
  <2>1. run[g].course \in Courses
    BY <1>12, <1>0 DEF FailToLink, JobKnown, LinksOne, Present
  <2>2. QED
    BY <1>12, <2>1 DEF FailToLink
<1>13. ASSUME NEW g \in Runs, EndJob(g)
      PROVE  RestTyped'
  BY <1>13 DEF EndJob
<1>14. ASSUME NEW g \in Runs, SkipTime(g)
      PROVE  RestTyped'
  BY <1>14 DEF SkipTime
<1>15. ASSUME NEW g \in Runs, TakeTime(g)
      PROVE  RestTyped'
  BY <1>15 DEF TakeTime
<1>16. ASSUME NEW g \in Runs, LeaveTime(g)
      PROVE  RestTyped'
  BY <1>16 DEF LeaveTime
<1>17. ASSUME NEW g \in Runs, NEW room \in Rooms, CheckRoom(g, room)
      PROVE  RestTyped'
  BY <1>17 DEF CheckRoom
<1>18. ASSUME NEW g \in Runs, WriteSlot(g)
      PROVE  RestTyped'
  <2> DEFINE new == [course |-> run[g].course, time |-> run[g].time, room |-> run[g].room, byRun
      |-> TRUE]
  <2>1. new \in Slot
    BY <1>18, <1>0 DEF WriteSlot, JobKnown, HasJob, ServesJob, PlaceKnown, AtWork, Serves,
       Present, Slot
  <2>2. slots' = slots \cup {new}
    BY <1>18 DEF WriteSlot
  <2> HIDE DEF new
  <2>3. QED
    BY <1>18, <2>1, <2>2, FS_AddElement DEF WriteSlot
<1>19. ASSUME NEW g \in Runs, RefuseSlot(g)
      PROVE  RestTyped'
  BY <1>19 DEF RefuseSlot
<1>20. ASSUME NEW g \in Runs, TellTeacher(g)
      PROVE  RestTyped'
  BY <1>20 DEF TellTeacher
<1>21. ASSUME NEW g \in Runs, FailToTell(g)
      PROVE  RestTyped'
  BY <1>21, <1>0 DEF FailToTell, JobKnown, HasJob, LinksOne, AtWork
<1>22. ASSUME NEW g \in Runs, EndRun(g)
      PROVE  RestTyped'
  BY <1>22 DEF EndRun
<1>23. ASSUME NEW g \in Runs, Crash(g)
      PROVE  RestTyped'
  BY <1>23, <1>0 DEF Crash, JobKnown, LinksOne, Present
<1>24. CASE UNCHANGED vars
  BY <1>24, <1>0 DEF vars, TypeOK
<1> HIDE DEF RestTyped
<1>25. QED
  BY <1>1, <1>2, <1>3, <1>4, <1>5, <1>6, <1>7, <1>8, <1>9, <1>10, <1>11, <1>12, <1>13, <1>14,
     <1>15, <1>16, <1>17, <1>18, <1>19, <1>20, <1>21, <1>22, <1>23, <1>24 DEF Next, Edit, RunStep

\* TypeOK and the finiteness of the slots go on.
LEMMA TypeStep ==
    ASSUME TypeOK, IsFiniteSet(slots), JobsKnown, PlacesKnown, [Next]_vars
    PROVE  TypeOK' /\ IsFiniteSet(slots)'
BY RunsStep, RestStep DEF RunsTyped, RestTyped, TypeOK

\* What a step does to the rows.
LEMMA RowKinds ==
    ASSUME TypeOK, [Next]_vars
    PROVE  \/ Quiet
           \/ \E r \in Requirements : CreateRequirement(r)
           \/ \E r \in Requirements : DeleteRequirement(r)
           \/ \E r \in Requirements, teacher \in Teachers \cup {None} : Assign(r, teacher)
           \/ \E c \in Courses, t \in Times, room \in Rooms : AddByHand(c, t, room)
           \/ \E x \in slots : DeleteSlot(x)
           \/ \E g \in Runs, c \in Courses : CreateCourse(g, c)
           \/ \E g \in Runs : LinkCourse(g)
           \/ \E g \in Runs : WriteSlot(g)
<1>1. ASSUME NEW g \in Runs, Start(g)
      PROVE  Quiet
  BY <1>1 DEF Start, Quiet, rows, history, TypeOK
<1>2. ASSUME NEW g \in Runs, NEW r \in Requirements, SkipJob(g, r)
      PROVE  Quiet
  BY <1>2 DEF SkipJob, Quiet, rows, history, TypeOK
<1>3. ASSUME NEW g \in Runs, NEW r \in Requirements, BeginJob(g, r)
      PROVE  Quiet
  BY <1>3 DEF BeginJob, Quiet, rows, history, TypeOK
<1>4. ASSUME NEW g \in Runs, RefuseCourse(g)
      PROVE  Quiet
  BY <1>4 DEF RefuseCourse, Quiet, rows, history, TypeOK
<1>5. ASSUME NEW g \in Runs, FailToLink(g)
      PROVE  Quiet
  BY <1>5 DEF FailToLink, Quiet, rows, history, TypeOK
<1>6. ASSUME NEW g \in Runs, EndJob(g)
      PROVE  Quiet
  BY <1>6 DEF EndJob, Quiet, rows, history, TypeOK
<1>7. ASSUME NEW g \in Runs, SkipTime(g)
      PROVE  Quiet
  BY <1>7 DEF SkipTime, Quiet, rows, history, TypeOK
<1>8. ASSUME NEW g \in Runs, TakeTime(g)
      PROVE  Quiet
  BY <1>8 DEF TakeTime, Quiet, rows, history, TypeOK
<1>9. ASSUME NEW g \in Runs, LeaveTime(g)
      PROVE  Quiet
  BY <1>9 DEF LeaveTime, Quiet, rows, history, TypeOK
<1>10. ASSUME NEW g \in Runs, NEW room \in Rooms, CheckRoom(g, room)
      PROVE  Quiet
  BY <1>10 DEF CheckRoom, Quiet, rows, history, TypeOK
<1>11. ASSUME NEW g \in Runs, RefuseSlot(g)
      PROVE  Quiet
  BY <1>11 DEF RefuseSlot, Quiet, rows, history, TypeOK
<1>12. ASSUME NEW g \in Runs, TellTeacher(g)
      PROVE  Quiet
  BY <1>12 DEF TellTeacher, Quiet, rows, history, TypeOK
<1>13. ASSUME NEW g \in Runs, FailToTell(g)
      PROVE  Quiet
  BY <1>13 DEF FailToTell, Quiet, rows, history, TypeOK
<1>14. ASSUME NEW g \in Runs, EndRun(g)
      PROVE  Quiet
  BY <1>14 DEF EndRun, Quiet, rows, history, TypeOK
<1>15. ASSUME NEW g \in Runs, Crash(g)
      PROVE  Quiet
  BY <1>15 DEF Crash, Quiet, rows, history, TypeOK
<1>16. CASE UNCHANGED vars
  BY <1>16 DEF vars, Quiet, rows, history, TypeOK
<1>17. QED
  BY <1>1, <1>2, <1>3, <1>4, <1>5, <1>6, <1>7, <1>8, <1>9, <1>10, <1>11, <1>12, <1>13, <1>14,
     <1>15, <1>16, SMTT(60) DEF Next, Edit, RunStep

\* A step moves one run at most.
LEMMA RunMoves ==
    ASSUME TypeOK, [Next]_vars, NEW h \in Runs
    PROVE  Same(run'[h], run[h]) \/ RunStep(h)
<1>1. CASE Edit
  BY <1>1, EditsEffect DEF Edit, CreateRequirement, DeleteRequirement, Assign, AddByHand, DeleteSlot
<1>2. CASE UNCHANGED vars
  BY <1>2 DEF vars, Same
<1>3. ASSUME NEW g \in Runs, RunStep(g), h # g
      PROVE  Same(run'[h], run[h])
  <2>1. CASE Start(g)
    BY <1>3, <2>1, StartEffect
  <2>2. ASSUME NEW r \in Requirements, SkipJob(g, r)
        PROVE  Same(run'[h], run[h])
    BY <1>3, <2>2, SkipJobEffect
  <2>3. ASSUME NEW r \in Requirements, BeginJob(g, r)
        PROVE  Same(run'[h], run[h])
    BY <1>3, <2>3, BeginJobEffect
  <2>4. ASSUME NEW c \in Courses, CreateCourse(g, c)
        PROVE  Same(run'[h], run[h])
    BY <1>3, <2>4, CreateCourseEffect
  <2>5. CASE RefuseCourse(g)
    BY <1>3, <2>5, RefuseCourseEffect
  <2>6. CASE LinkCourse(g)
    BY <1>3, <2>6, LinkCourseEffect
  <2>7. CASE FailToLink(g)
    BY <1>3, <2>7, FailToLinkEffect
  <2>8. CASE EndJob(g)
    BY <1>3, <2>8, EndJobEffect
  <2>9. CASE SkipTime(g)
    BY <1>3, <2>9, SkipTimeEffect
  <2>10. CASE TakeTime(g)
    BY <1>3, <2>10, TakeTimeEffect
  <2>11. CASE LeaveTime(g)
    BY <1>3, <2>11, LeaveTimeEffect
  <2>12. ASSUME NEW room \in Rooms, CheckRoom(g, room)
        PROVE  Same(run'[h], run[h])
    BY <1>3, <2>12, CheckRoomEffect
  <2>13. CASE WriteSlot(g)
    BY <1>3, <2>13, WriteSlotEffect
  <2>14. CASE RefuseSlot(g)
    BY <1>3, <2>14, RefuseSlotEffect
  <2>15. CASE TellTeacher(g)
    BY <1>3, <2>15, TellTeacherEffect
  <2>16. CASE FailToTell(g)
    BY <1>3, <2>16, FailToTellEffect
  <2>17. CASE EndRun(g)
    BY <1>3, <2>17, EndRunEffect
  <2>18. CASE Crash(g)
    BY <1>3, <2>18, CrashEffect
  <2>19. QED
    BY <1>3, <2>1, <2>2, <2>3, <2>4, <2>5, <2>6, <2>7, <2>8, <2>9, <2>10, <2>11, <2>12, <2>13,
       <2>14, <2>15, <2>16, <2>17, <2>18 DEF RunStep
<1>4. QED
  BY <1>1, <1>2, <1>3 DEF Next

\* A course goes on serving its requirement.
LEMMA ServesStep ==
    ASSUME TypeOK, JobsKnown, [Next]_vars, NEW d \in Courses, NEW q \in Requirements, Serves(d, q)
    PROVE  Serves(d, q)'
<1> USE DEF Serves, Present, rows, history
<1>0. \A k \in Runs : JobKnown(k)
  BY DEF JobsKnown
<1>1. ASSUME NEW r \in Requirements, CreateRequirement(r)
      PROVE  Serves(d, q)'
  BY <1>1 DEF CreateRequirement, Serves, Present, rows, history
<1>2. ASSUME NEW r \in Requirements, DeleteRequirement(r)
      PROVE  Serves(d, q)'
  <2>1. /\ state' = [state EXCEPT ![r] = "deleted"] /\ madeFor' = madeFor
        /\ state'[r] = "deleted" /\ \A p \in Requirements : state[p] = "deleted" => state'[p] =
            "deleted"
    BY <1>2 DEF DeleteRequirement, TypeOK
  <2>2. course'[d] = IF d \in LinkedTo(r) THEN [course[d] EXCEPT !.requirement = None] ELSE
                           course[d]
    BY <1>2 DEF DeleteRequirement
  <2>3. CASE d \in LinkedTo(r)
    <3>1. course[d] \in Course /\ course[d].requirement = r
      BY <2>3 DEF LinkedTo, TypeOK
    <3>2. course'[d] \in Course
      BY <2>2, <2>3, <3>1 DEF Course
    <3>3. course'[d] # None
      BY <3>2, NoneAssumption DEF Course
    <3>4. state'[q] = "deleted"
      BY <2>1, <3>1
    <3>5. QED
      BY <2>1, <3>3, <3>4
  <2>4. CASE d \notin LinkedTo(r)
    BY <2>1, <2>2, <2>4
  <2>5. QED
    BY <2>3, <2>4
<1>3. ASSUME NEW r \in Requirements, NEW teacher \in Teachers \cup {None}, Assign(r, teacher)
      PROVE  Serves(d, q)'
  BY <1>3 DEF Assign, Serves, Present, rows, history
<1>4. ASSUME NEW c \in Courses, NEW t \in Times, NEW room \in Rooms, AddByHand(c, t, room)
      PROVE  Serves(d, q)'
  BY <1>4 DEF AddByHand, Serves, Present, rows, history
<1>5. ASSUME NEW x \in slots, DeleteSlot(x)
      PROVE  Serves(d, q)'
  BY <1>5 DEF DeleteSlot, Serves, Present, rows, history
<1>6. ASSUME NEW g \in Runs, NEW c \in Courses, CreateCourse(g, c)
      PROVE  Serves(d, q)'
  BY <1>6 DEF CreateCourse, Serves, Present, rows, history
<1>7. ASSUME NEW g \in Runs, LinkCourse(g)
      PROVE  Serves(d, q)'
  <2>1. /\ run[g].course \in Courses /\ course[run[g].course] # None
        /\ madeFor[run[g].course] = run[g].job /\ run[g].job \in Requirements
    BY <1>7, <1>0 DEF LinkCourse, JobKnown, HasJob, LinksOne
  <2>2. course[run[g].course] \in Course
    BY <2>1 DEF TypeOK
  <2>3. /\ course' = [course EXCEPT ![run[g].course] = [course[run[g].course] EXCEPT !.requirement
                           = run[g].job]]
        /\ madeFor' = madeFor /\ state' = state
    BY <1>7 DEF LinkCourse
  <2>4. CASE d = run[g].course
    <3>1. course'[d] = [course[d] EXCEPT !.requirement = q]
      BY <2>1, <2>3, <2>4 DEF TypeOK
    <3>2. course'[d] \in Course /\ course'[d].requirement = q
      BY <2>2, <2>4, <3>1 DEF Course
    <3>3. course'[d] # None
      BY <3>2, NoneAssumption DEF Course
    <3>4. QED
      BY <2>3, <3>2, <3>3
  <2>5. CASE d # run[g].course
    BY <2>3, <2>5 DEF TypeOK
  <2>6. QED
    BY <2>4, <2>5
<1>8. ASSUME NEW g \in Runs, WriteSlot(g)
      PROVE  Serves(d, q)'
  BY <1>8 DEF WriteSlot, Serves, Present, rows, history
<1>9. CASE Quiet
  BY <1>9 DEF Quiet, rows
<1> HIDE DEF Serves, Present, rows, history
<1>10. QED
  BY <1>1, <1>2, <1>3, <1>4, <1>5, <1>6, <1>7, <1>8, <1>9, RowKinds

\* Courses are there to stay, made for the same requirement.
LEMMA PresentStays ==
    ASSUME TypeOK, JobsKnown, [Next]_vars, NEW d \in Present
    PROVE  d \in Present' /\ madeFor'[d] = madeFor[d]
<1>0. \A k \in Runs : JobKnown(k)
  BY DEF JobsKnown
<1>1. ASSUME NEW r \in Requirements, CreateRequirement(r)
      PROVE  d \in Present' /\ madeFor'[d] = madeFor[d]
  BY <1>1 DEF CreateRequirement, Present, history
<1>2. ASSUME NEW r \in Requirements, DeleteRequirement(r)
      PROVE  d \in Present' /\ madeFor'[d] = madeFor[d]
  <2>1. course'[d] = IF d \in LinkedTo(r) THEN [course[d] EXCEPT !.requirement = None] ELSE
                           course[d]
    BY <1>2 DEF DeleteRequirement, Present
  <2>2. course[d] \in Course
    BY DEF TypeOK, Present
  <2>3. [course[d] EXCEPT !.requirement = None] \in Course
    BY <2>2 DEF Course
  <2>4. QED
    BY <1>2, <2>1, <2>2, <2>3, NoneAssumption DEF DeleteRequirement, Course, Present, history
<1>3. ASSUME NEW r \in Requirements, NEW teacher \in Teachers \cup {None}, Assign(r, teacher)
      PROVE  d \in Present' /\ madeFor'[d] = madeFor[d]
  BY <1>3 DEF Assign, Present, history
<1>4. ASSUME NEW c \in Courses, NEW t \in Times, NEW room \in Rooms, AddByHand(c, t, room)
      PROVE  d \in Present' /\ madeFor'[d] = madeFor[d]
  BY <1>4 DEF AddByHand, Present, history
<1>5. ASSUME NEW x \in slots, DeleteSlot(x)
      PROVE  d \in Present' /\ madeFor'[d] = madeFor[d]
  BY <1>5 DEF DeleteSlot, Present, history
<1>6. ASSUME NEW g \in Runs, NEW c \in Courses, CreateCourse(g, c)
      PROVE  d \in Present' /\ madeFor'[d] = madeFor[d]
  BY <1>6 DEF CreateCourse, TypeOK, Present
<1>7. ASSUME NEW g \in Runs, LinkCourse(g)
      PROVE  d \in Present' /\ madeFor'[d] = madeFor[d]
  <2>1. course'[d] = IF d = run[g].course THEN [course[d] EXCEPT !.requirement = run[g].job] ELSE
                           course[d]
    BY <1>7 DEF LinkCourse, TypeOK, Present
  <2>2. course[d] \in Course /\ run[g].job \in Requirements
    BY <1>7, <1>0 DEF TypeOK, LinkCourse, JobKnown, HasJob, Present
  <2>3. [course[d] EXCEPT !.requirement = run[g].job] \in Course
    BY <2>2 DEF Course
  <2>4. QED
    BY <1>7, <2>1, <2>2, <2>3, NoneAssumption DEF LinkCourse, Course, Present, history
<1>8. ASSUME NEW g \in Runs, WriteSlot(g)
      PROVE  d \in Present' /\ madeFor'[d] = madeFor[d]
  BY <1>8 DEF WriteSlot, Present, history
<1>9. CASE Quiet
  BY <1>9 DEF Quiet, rows, Present
<1>10. QED
  BY <1>1, <1>2, <1>3, <1>4, <1>5, <1>6, <1>7, <1>8, <1>9, RowKinds

\* A requirement that was there, or deleted, is not absent again, or stays deleted.
LEMMA StateStays ==
    ASSUME TypeOK, [Next]_vars, NEW q \in Requirements
    PROVE  StateKept(q)
<1>1. ASSUME NEW r \in Requirements, CreateRequirement(r)
      PROVE  StateKept(q)
  BY <1>1 DEF CreateRequirement, rows, TypeOK, StateKept
<1>2. ASSUME NEW r \in Requirements, DeleteRequirement(r)
      PROVE  StateKept(q)
  BY <1>2 DEF DeleteRequirement, rows, TypeOK, StateKept
<1>3. ASSUME NEW r \in Requirements, NEW teacher \in Teachers \cup {None}, Assign(r, teacher)
      PROVE  StateKept(q)
  BY <1>3 DEF Assign, rows, TypeOK, StateKept
<1>4. ASSUME NEW c \in Courses, NEW t \in Times, NEW room \in Rooms, AddByHand(c, t, room)
      PROVE  StateKept(q)
  BY <1>4 DEF AddByHand, rows, TypeOK, StateKept
<1>5. ASSUME NEW x \in slots, DeleteSlot(x)
      PROVE  StateKept(q)
  BY <1>5 DEF DeleteSlot, rows, TypeOK, StateKept
<1>6. ASSUME NEW g \in Runs, NEW c \in Courses, CreateCourse(g, c)
      PROVE  StateKept(q)
  BY <1>6 DEF CreateCourse, rows, TypeOK, StateKept
<1>7. ASSUME NEW g \in Runs, LinkCourse(g)
      PROVE  StateKept(q)
  BY <1>7 DEF LinkCourse, rows, TypeOK, StateKept
<1>8. ASSUME NEW g \in Runs, WriteSlot(g)
      PROVE  StateKept(q)
  BY <1>8 DEF WriteSlot, rows, TypeOK, StateKept
<1>9. CASE Quiet
  BY <1>9 DEF Quiet, rows, StateKept
<1>10. QED
  BY <1>1, <1>2, <1>3, <1>4, <1>5, <1>6, <1>7, <1>8, <1>9, RowKinds

\* Runs that crossed have crossed, and orphans stay orphans.
LEMMA HistoryStays ==
    ASSUME TypeOK, [Next]_vars
    PROVE  (crossed => crossed') /\ orphaned \subseteq orphaned'
<1>1. ASSUME NEW r \in Requirements, CreateRequirement(r)
      PROVE  (crossed => crossed') /\ orphaned \subseteq orphaned'
  BY <1>1 DEF CreateRequirement, history
<1>2. ASSUME NEW r \in Requirements, DeleteRequirement(r)
      PROVE  (crossed => crossed') /\ orphaned \subseteq orphaned'
  BY <1>2 DEF DeleteRequirement, history
<1>3. ASSUME NEW r \in Requirements, NEW teacher \in Teachers \cup {None}, Assign(r, teacher)
      PROVE  (crossed => crossed') /\ orphaned \subseteq orphaned'
  BY <1>3 DEF Assign, history
<1>4. ASSUME NEW c \in Courses, NEW t \in Times, NEW room \in Rooms, AddByHand(c, t, room)
      PROVE  (crossed => crossed') /\ orphaned \subseteq orphaned'
  BY <1>4 DEF AddByHand, history
<1>5. ASSUME NEW x \in slots, DeleteSlot(x)
      PROVE  (crossed => crossed') /\ orphaned \subseteq orphaned'
  BY <1>5 DEF DeleteSlot, history
<1>6. ASSUME NEW g \in Runs, NEW c \in Courses, CreateCourse(g, c)
      PROVE  (crossed => crossed') /\ orphaned \subseteq orphaned'
  BY <1>6 DEF CreateCourse, history
<1>7. ASSUME NEW g \in Runs, LinkCourse(g)
      PROVE  (crossed => crossed') /\ orphaned \subseteq orphaned'
  BY <1>7 DEF LinkCourse, history
<1>8. ASSUME NEW g \in Runs, WriteSlot(g)
      PROVE  (crossed => crossed') /\ orphaned \subseteq orphaned'
  BY <1>8 DEF WriteSlot, history
<1>9. CASE Quiet
  BY <1>9 DEF Quiet
<1>10. QED
  BY <1>1, <1>2, <1>3, <1>4, <1>5, <1>6, <1>7, <1>8, <1>9, RowKinds

\* Sessions come by hand or from a run.
LEMMA SlotsGrow ==
    ASSUME TypeOK, [Next]_vars
    PROVE  \/ slots' \subseteq slots
           \/ \E c \in Courses, t \in Times, room \in Rooms : AddByHand(c, t, room)
           \/ \E g \in Runs : WriteSlot(g)
<1>1. Quiet => slots' = slots
  BY DEF Quiet, rows
<1>2. \A r \in Requirements : CreateRequirement(r) \/ DeleteRequirement(r) => slots' = slots
  BY DEF CreateRequirement, DeleteRequirement
<1>3. \A r \in Requirements, teacher \in Teachers \cup {None} : Assign(r, teacher) => slots' = slots
  BY DEF Assign
<1>4. \A x \in slots : DeleteSlot(x) => slots' \subseteq slots
  BY DEF DeleteSlot
<1>5. \A g \in Runs, c \in Courses : CreateCourse(g, c) => slots' = slots
  BY DEF CreateCourse
<1>6. \A g \in Runs : LinkCourse(g) => slots' = slots
  BY DEF LinkCourse
<1>7. QED
  BY <1>1, <1>2, <1>3, <1>4, <1>5, <1>6, RowKinds

\* A run that nobody moves keeps its job and its courses.
LEMMA Kept ==
    ASSUME TypeOK, JobsKnown, [Next]_vars, NEW h \in Runs, Same(run'[h], run[h])
    PROVE  HasJob(h)' /\ ServesJob(h)' /\ ServesRead(h)'
<1>1. HasJob(h) /\ ServesJob(h) /\ ServesRead(h)
  BY DEF JobsKnown, JobKnown
<1>2. \A d \in Courses, q \in Requirements : Serves(d, q) => Serves(d, q)'
  BY ServesStep
<1>3. HasJob(h)'
  BY <1>1 DEF Same, HasJob
<1>4. ServesJob(h)'
  BY <1>1, <1>2 DEF Same, ServesJob
<1>5. ServesRead(h)'
  BY <1>1, <1>2 DEF Same, ServesRead
<1>6. QED
  BY <1>3, <1>4, <1>5

\* A run at work keeps its job.
LEMMA HasJobStep ==
    ASSUME TypeOK, JobsKnown, [Next]_vars, NEW h \in Runs
    PROVE  HasJob(h)'
<1>0. JobKnown(h)
  BY DEF JobsKnown
<1>1. CASE Same(run'[h], run[h])
  BY <1>1, Kept
<1>2. ASSUME RunStep(h)
      PROVE  HasJob(h)'
  <2>1. CASE Start(h)
    BY <2>1, <1>0, StartEffect DEF Start, JobKnown, HasJob, AtWork
  <2>2. ASSUME NEW r \in Requirements, SkipJob(h, r)
        PROVE  HasJob(h)'
    <3>1. /\ run[h].jobs \in AllJobs /\ run[h].pc = "next" /\ run[h].jobs[r] # None
      BY <2>2, RunFields DEF SkipJob, IsNext, TypeOK
    <3>2. run[h].jobs[r] \in Job /\ [run[h].jobs EXCEPT ![r] = None][r] = None
      BY <3>1 DEF AllJobs
    <3>3. QED
      BY <2>2, <3>1, SkipJobEffect DEF HasJob, AtWork
  <2>3. ASSUME NEW r \in Requirements, BeginJob(h, r)
        PROVE  HasJob(h)'
    <3>1. /\ run[h].jobs \in AllJobs /\ run[h].pc = "next" /\ run[h].jobs[r] # None
      BY <2>3, RunFields DEF BeginJob, IsNext, TypeOK
    <3>2. run[h].jobs[r] \in Job /\ [run[h].jobs EXCEPT ![r] = None][r] = None
      BY <3>1 DEF AllJobs
    <3>3. /\ run'[h].jobs = [run[h].jobs EXCEPT ![r] = None]
          /\ run'[h].job = r /\ run'[h].teacher = run[h].jobs[r].teacher
      BY <2>3, BeginJobEffect
    <3>4. run[h].jobs[r].teacher \in Teachers
      BY <2>3, <3>2 DEF BeginJob, Job
    <3>5. QED
      BY <3>2, <3>3, <3>4 DEF HasJob
  <2>4. ASSUME NEW c \in Courses, CreateCourse(h, c)
        PROVE  HasJob(h)'
    BY <2>4, <1>0, CreateCourseEffect DEF CreateCourse, JobKnown, HasJob, AtWork
  <2>5. CASE RefuseCourse(h)
    BY <2>5, <1>0, RefuseCourseEffect DEF RefuseCourse, JobKnown, HasJob, AtWork
  <2>6. CASE LinkCourse(h)
    BY <2>6, <1>0, LinkCourseEffect DEF LinkCourse, JobKnown, HasJob, AtWork
  <2>7. CASE FailToLink(h)
    BY <2>7, <1>0, FailToLinkEffect DEF FailToLink, JobKnown, HasJob, AtWork
  <2>8. CASE EndJob(h)
    BY <2>8, <1>0, EndJobEffect DEF EndJob, JobKnown, HasJob, AtWork
  <2>9. CASE SkipTime(h)
    BY <2>9, <1>0, SkipTimeEffect DEF SkipTime, JobKnown, HasJob, AtWork
  <2>10. CASE TakeTime(h)
    BY <2>10, <1>0, TakeTimeEffect DEF TakeTime, JobKnown, HasJob, AtWork
  <2>11. CASE LeaveTime(h)
    BY <2>11, <1>0, LeaveTimeEffect DEF LeaveTime, JobKnown, HasJob, AtWork
  <2>12. ASSUME NEW room \in Rooms, CheckRoom(h, room)
        PROVE  HasJob(h)'
    BY <2>12, <1>0, CheckRoomEffect DEF CheckRoom, JobKnown, HasJob, AtWork
  <2>13. CASE WriteSlot(h)
    BY <2>13, <1>0, WriteSlotEffect DEF WriteSlot, JobKnown, HasJob, AtWork
  <2>14. CASE RefuseSlot(h)
    BY <2>14, <1>0, RefuseSlotEffect DEF RefuseSlot, JobKnown, HasJob, AtWork
  <2>15. CASE TellTeacher(h)
    BY <2>15, <1>0, TellTeacherEffect DEF TellTeacher, JobKnown, HasJob, AtWork
  <2>16. CASE FailToTell(h)
    BY <2>16, <1>0, FailToTellEffect DEF FailToTell, JobKnown, HasJob, AtWork
  <2>17. CASE EndRun(h)
    BY <2>17, <1>0, EndRunEffect DEF EndRun, JobKnown, HasJob, AtWork
  <2>18. CASE Crash(h)
    BY <2>18, <1>0, CrashEffect DEF Crash, JobKnown, HasJob, AtWork
  <2>19. QED
    BY <1>2, <2>1, <2>2, <2>3, <2>4, <2>5, <2>6, <2>7, <2>8, <2>9, <2>10, <2>11, <2>12, <2>13,
       <2>14, <2>15, <2>16, <2>17, <2>18 DEF RunStep
<1>3. QED
  BY <1>1, <1>2, RunMoves

\* Nobody touches the course that a run is about to link.
LEMMA LinkKept ==
    ASSUME TypeOK, JobsKnown, LinksApart, [Next]_vars, NEW h \in Runs, Same(run'[h], run[h]),
           run[h].pc = "linking"
    PROVE  /\ course'[run[h].course] = course[run[h].course]
           /\ madeFor'[run[h].course] = madeFor[run[h].course]
<1>0. \A k \in Runs : JobKnown(k)
  BY DEF JobsKnown
<1>1. ASSUME NEW r \in Requirements, CreateRequirement(r)
      PROVE  /\ course'[run[h].course] = course[run[h].course]
           /\ madeFor'[run[h].course] = madeFor[run[h].course]
  BY <1>1 DEF CreateRequirement, rows, history
<1>2. ASSUME NEW r \in Requirements, DeleteRequirement(r)
      PROVE  /\ course'[run[h].course] = course[run[h].course]
           /\ madeFor'[run[h].course] = madeFor[run[h].course]
  BY <1>2, <1>0, NoneAssumption DEF DeleteRequirement, JobKnown, LinksOne, LinkedTo, Present,
     history
<1>3. ASSUME NEW r \in Requirements, NEW teacher \in Teachers \cup {None}, Assign(r, teacher)
      PROVE  /\ course'[run[h].course] = course[run[h].course]
           /\ madeFor'[run[h].course] = madeFor[run[h].course]
  BY <1>3 DEF Assign, rows, history
<1>4. ASSUME NEW c \in Courses, NEW t \in Times, NEW room \in Rooms, AddByHand(c, t, room)
      PROVE  /\ course'[run[h].course] = course[run[h].course]
           /\ madeFor'[run[h].course] = madeFor[run[h].course]
  BY <1>4 DEF AddByHand, rows, history
<1>5. ASSUME NEW x \in slots, DeleteSlot(x)
      PROVE  /\ course'[run[h].course] = course[run[h].course]
           /\ madeFor'[run[h].course] = madeFor[run[h].course]
  BY <1>5 DEF DeleteSlot, rows, history
<1>6. ASSUME NEW g \in Runs, NEW c \in Courses, CreateCourse(g, c)
      PROVE  /\ course'[run[h].course] = course[run[h].course]
           /\ madeFor'[run[h].course] = madeFor[run[h].course]
  BY <1>6, <1>0 DEF CreateCourse, JobKnown, LinksOne, Present
<1>7. ASSUME NEW g \in Runs, LinkCourse(g)
      PROVE  /\ course'[run[h].course] = course[run[h].course]
           /\ madeFor'[run[h].course] = madeFor[run[h].course]
  <2>1. run'[g].pc = "placing"
    BY <1>7, LinkCourseEffect
  <2>2. run[g].pc = "linking" /\ madeFor' = madeFor
    BY <1>7 DEF LinkCourse, history
  <2>3. g # h /\ run[g].course # run[h].course
    BY <2>1, <2>2 DEF Same, LinksApart
  <2>4. QED
    BY <1>7, <2>2, <2>3 DEF LinkCourse
<1>8. ASSUME NEW g \in Runs, WriteSlot(g)
      PROVE  /\ course'[run[h].course] = course[run[h].course]
           /\ madeFor'[run[h].course] = madeFor[run[h].course]
  BY <1>8 DEF WriteSlot, rows, history
<1>9. CASE Quiet
  BY <1>9 DEF Quiet, rows
<1>10. QED
  BY <1>1, <1>2, <1>3, <1>4, <1>5, <1>6, <1>7, <1>8, <1>9, RowKinds

\* The course a run is about to link stays as it is.
LEMMA LinksOneStep ==
    ASSUME TypeOK, JobsKnown, LinksApart, [Next]_vars, NEW h \in Runs
    PROVE  LinksOne(h)'
<1>0. JobKnown(h)
  BY DEF JobsKnown
<1>1. CASE Same(run'[h], run[h])
  BY <1>1, <1>0, LinkKept DEF JobKnown, Same, LinksOne, Present
<1>2. ASSUME RunStep(h)
      PROVE  LinksOne(h)'
  <2>1. CASE Start(h)
    BY <2>1, StartEffect DEF Start, LinksOne
  <2>2. ASSUME NEW r \in Requirements, SkipJob(h, r)
        PROVE  LinksOne(h)'
    BY <2>2, SkipJobEffect DEF SkipJob, IsNext, LinksOne
  <2>3. ASSUME NEW r \in Requirements, BeginJob(h, r)
        PROVE  LinksOne(h)'
    BY <2>3, BeginJobEffect DEF LinksOne
  <2>4. ASSUME NEW c \in Courses, CreateCourse(h, c)
        PROVE  LinksOne(h)'
    <3>1. /\ course'[c] = [teacher |-> run[h].teacher, requirement |-> None]
          /\ madeFor'[c] = run[h].job /\ c \in Courses
      BY <2>4 DEF CreateCourse, TypeOK
    <3>2. run[h].teacher \in Teachers
      BY <2>4, <1>0 DEF CreateCourse, JobKnown, HasJob
    <3>3. course'[c] # None
      BY <3>1, <3>2, NoneAssumption
    <3>4. run'[h].course = c /\ run'[h].job = run[h].job
      BY <2>4, CreateCourseEffect
    <3>5. QED
      BY <3>1, <3>3, <3>4 DEF LinksOne, Present
  <2>5. CASE RefuseCourse(h)
    BY <2>5, RefuseCourseEffect DEF RefuseCourse, LinksOne
  <2>6. CASE LinkCourse(h)
    BY <2>6, LinkCourseEffect DEF LinkCourse, LinksOne
  <2>7. CASE FailToLink(h)
    BY <2>7, FailToLinkEffect DEF FailToLink, LinksOne
  <2>8. CASE EndJob(h)
    BY <2>8, EndJobEffect DEF EndJob, LinksOne
  <2>9. CASE SkipTime(h)
    BY <2>9, SkipTimeEffect DEF SkipTime, LinksOne
  <2>10. CASE TakeTime(h)
    BY <2>10, TakeTimeEffect DEF TakeTime, LinksOne
  <2>11. CASE LeaveTime(h)
    BY <2>11, LeaveTimeEffect DEF LeaveTime, LinksOne
  <2>12. ASSUME NEW room \in Rooms, CheckRoom(h, room)
        PROVE  LinksOne(h)'
    BY <2>12, CheckRoomEffect DEF CheckRoom, LinksOne
  <2>13. CASE WriteSlot(h)
    BY <2>13, WriteSlotEffect DEF WriteSlot, LinksOne
  <2>14. CASE RefuseSlot(h)
    BY <2>14, RefuseSlotEffect DEF RefuseSlot, LinksOne
  <2>15. CASE TellTeacher(h)
    BY <2>15, TellTeacherEffect DEF TellTeacher, LinksOne
  <2>16. CASE FailToTell(h)
    BY <2>16, FailToTellEffect DEF FailToTell, LinksOne
  <2>17. CASE EndRun(h)
    BY <2>17, EndRunEffect DEF EndRun, LinksOne
  <2>18. CASE Crash(h)
    BY <2>18, CrashEffect DEF Crash, LinksOne
  <2>19. QED
    BY <1>2, <2>1, <2>2, <2>3, <2>4, <2>5, <2>6, <2>7, <2>8, <2>9, <2>10, <2>11, <2>12, <2>13,
       <2>14, <2>15, <2>16, <2>17, <2>18 DEF RunStep
<1>3. QED
  BY <1>1, <1>2, RunMoves

\* The course of a job goes on serving it.
LEMMA ServesJobStep ==
    ASSUME TypeOK, JobsKnown, [Next]_vars, NEW h \in Runs
    PROVE  ServesJob(h)'
<1>0. JobKnown(h)
  BY DEF JobsKnown
<1>s. \A d \in Courses, q \in Requirements : Serves(d, q) => Serves(d, q)'
  BY ServesStep
\* A run that was at work and keeps its job and course, or stops working.
<1>k. ASSUME run[h].pc \in AtWork, run'[h].job = run[h].job, run'[h].course = run[h].course
      PROVE  ServesJob(h)'
  BY <1>0, <1>s, <1>k DEF JobKnown, ServesJob
<1>r. ASSUME run'[h].pc \notin AtWork
      PROVE  ServesJob(h)'
  BY <1>r DEF ServesJob
<1>1. CASE Same(run'[h], run[h])
  BY <1>1, Kept
<1>2. ASSUME RunStep(h)
      PROVE  ServesJob(h)'
  <2>1. CASE Start(h)
    BY <2>1, <1>r, StartEffect DEF AtWork
  <2>2. ASSUME NEW r \in Requirements, SkipJob(h, r)
        PROVE  ServesJob(h)'
    BY <2>2, <1>r, SkipJobEffect DEF SkipJob, IsNext, AtWork
  <2>3. ASSUME NEW r \in Requirements, BeginJob(h, r)
        PROVE  ServesJob(h)'
    <3>1. /\ run[h].jobs \in AllJobs /\ run[h].jobs[r] # None
      BY <2>3, RunFields DEF BeginJob, IsNext, TypeOK
    <3>2. run[h].jobs[r].course \in Courses \cup {None}
      BY <3>1 DEF AllJobs, Job
    <3>3. /\ run'[h].pc = IF run[h].jobs[r].course = None THEN "creating" ELSE "placing"
          /\ run'[h].job = r /\ run'[h].course = run[h].jobs[r].course
      BY <2>3, BeginJobEffect
    <3>4. \A d \in Courses : run[h].jobs[r].course = d => Serves(d, r)
      BY <1>0, <3>1 DEF JobKnown, ServesRead
    <3>5. QED
      BY <1>s, <3>2, <3>3, <3>4 DEF ServesJob, AtWork
  <2>4. ASSUME NEW c \in Courses, CreateCourse(h, c)
        PROVE  ServesJob(h)'
    BY <2>4, <1>r, CreateCourseEffect DEF AtWork
  <2>5. CASE RefuseCourse(h)
    BY <2>5, <1>r, RefuseCourseEffect DEF AtWork
  <2>6. CASE LinkCourse(h)
    <3>1. /\ run[h].course \in Present /\ run[h].job \in Requirements
          /\ madeFor[run[h].course] = run[h].job
      BY <2>6, <1>0 DEF LinkCourse, JobKnown, HasJob, LinksOne
    <3>2. /\ course'[run[h].course] = [course[run[h].course] EXCEPT !.requirement = run[h].job]
          /\ course[run[h].course] \in Course /\ run[h].course \in Courses /\ madeFor' = madeFor
      BY <2>6, <3>1 DEF LinkCourse, Present, TypeOK, history
    <3>3. course'[run[h].course] \in Course /\ course'[run[h].course].requirement = run[h].job
      BY <3>1, <3>2 DEF Course
    <3>4. run[h].course \in Present'
      BY <3>2, <3>3, NoneAssumption DEF Course, Present
    <3>5. run'[h].course = run[h].course /\ run'[h].job = run[h].job
      BY <2>6, LinkCourseEffect
    <3>6. QED
      BY <3>1, <3>2, <3>3, <3>4, <3>5 DEF Serves, ServesJob
  <2>7. CASE FailToLink(h)
    BY <2>7, <1>r, FailToLinkEffect DEF AtWork
  <2>8. CASE EndJob(h)
    BY <2>8, <1>r, EndJobEffect DEF AtWork
  <2>9. CASE SkipTime(h)
    BY <2>9, <1>k, SkipTimeEffect DEF SkipTime, AtWork
  <2>10. CASE TakeTime(h)
    BY <2>10, <1>k, TakeTimeEffect DEF TakeTime, AtWork
  <2>11. CASE LeaveTime(h)
    BY <2>11, <1>k, LeaveTimeEffect DEF LeaveTime, AtWork
  <2>12. ASSUME NEW room \in Rooms, CheckRoom(h, room)
        PROVE  ServesJob(h)'
    BY <2>12, <1>k, CheckRoomEffect DEF CheckRoom, AtWork
  <2>13. CASE WriteSlot(h)
    BY <2>13, <1>k, WriteSlotEffect DEF WriteSlot, AtWork
  <2>14. CASE RefuseSlot(h)
    BY <2>14, <1>k, RefuseSlotEffect DEF RefuseSlot, AtWork
  <2>15. CASE TellTeacher(h)
    BY <2>15, <1>k, TellTeacherEffect DEF TellTeacher, AtWork
  <2>16. CASE FailToTell(h)
    BY <2>16, <1>k, FailToTellEffect DEF FailToTell, AtWork
  <2>17. CASE EndRun(h)
    BY <2>17, <1>r, EndRunEffect DEF AtWork
  <2>18. CASE Crash(h)
    BY <2>18, <1>r, CrashEffect DEF AtWork
  <2>19. QED
    BY <1>2, <2>1, <2>2, <2>3, <2>4, <2>5, <2>6, <2>7, <2>8, <2>9, <2>10, <2>11, <2>12, <2>13,
       <2>14, <2>15, <2>16, <2>17, <2>18 DEF RunStep
<1>3. QED
  BY <1>1, <1>2, RunMoves

\* A run reads the course that is linked to the requirement, if any is.
LEMMA ReadLinked ==
    ASSUME NEW r \in Requirements
    PROVE  /\ Read(r).course # None => Read(r).course \in LinkedTo(r)
           /\ Read(r).course = None => LinkedTo(r) = {}
<1>1. CASE LinkedTo(r) = {}
  BY <1>1 DEF Read
<1>2. CASE LinkedTo(r) # {}
  <2> DEFINE found == CHOOSE c \in LinkedTo(r) : TRUE
  <2>1. found \in LinkedTo(r) /\ found \in Courses
    BY <1>2 DEF LinkedTo, Present
  <2>2. Read(r).course = found
    BY <1>2 DEF Read
  <2> HIDE DEF found
  <2>3. QED
    BY <2>1, <2>2, NoneAssumption
<1>3. QED
  BY <1>1, <1>2

\* The courses that a run has read go on serving their requirements.
LEMMA ServesReadStep ==
    ASSUME TypeOK, JobsKnown, CoursesKnown, [Next]_vars, NEW h \in Runs
    PROVE  ServesRead(h)'
<1>0. JobKnown(h)
  BY DEF JobsKnown
<1>s. \A d \in Courses, q \in Requirements : Serves(d, q) => Serves(d, q)'
  BY ServesStep
<1>1. CASE Same(run'[h], run[h])
  BY <1>1, Kept
<1>2. ASSUME RunStep(h)
      PROVE  ServesRead(h)'
  <2>1. CASE Start(h)
    <3>1. run'[h].jobs = [p \in Requirements |-> IF state[p] = "present" THEN Read(p) ELSE None]
      BY <2>1, StartEffect
    <3>2. ASSUME NEW p \in Requirements, NEW d \in Courses,
                 run'[h].jobs[p] # None, run'[h].jobs[p].course = d
          PROVE  Serves(d, p)'
      <4>1. run'[h].jobs[p] = Read(p)
        BY <3>1, <3>2
      <4>2. d \in LinkedTo(p)
        BY <3>2, <4>1, ReadLinked, NoneAssumption
      <4>3. Serves(d, p)
        BY <4>2, NoneAssumption DEF LinkedTo, CoursesKnown, MadeWell, Present, Serves
      <4>4. QED
        BY <1>s, <4>3
    <3>3. QED
      BY <3>2 DEF ServesRead
  <2>2. ASSUME NEW r \in Requirements, SkipJob(h, r)
        PROVE  ServesRead(h)'
    <3>1. run[h].jobs \in AllJobs
      BY RunFields DEF TypeOK
    <3>2. run'[h].jobs = [run[h].jobs EXCEPT ![r] = None]
      BY <2>2, SkipJobEffect
    <3>3. \A p \in Requirements : run'[h].jobs[p] = IF p = r THEN None ELSE run[h].jobs[p]
      BY <3>1, <3>2 DEF AllJobs
    <3>4. QED
      BY <1>0, <1>s, <3>3 DEF JobKnown, ServesRead
  <2>3. ASSUME NEW r \in Requirements, BeginJob(h, r)
        PROVE  ServesRead(h)'
    <3>1. run[h].jobs \in AllJobs
      BY RunFields DEF TypeOK
    <3>2. run'[h].jobs = [run[h].jobs EXCEPT ![r] = None]
      BY <2>3, BeginJobEffect
    <3>3. \A p \in Requirements : run'[h].jobs[p] = IF p = r THEN None ELSE run[h].jobs[p]
      BY <3>1, <3>2 DEF AllJobs
    <3>4. QED
      BY <1>0, <1>s, <3>3 DEF JobKnown, ServesRead
  <2>4. ASSUME NEW c \in Courses, CreateCourse(h, c)
        PROVE  ServesRead(h)'
    BY <2>4, <1>0, <1>s, CreateCourseEffect DEF JobKnown, ServesRead
  <2>5. CASE RefuseCourse(h)
    BY <2>5, <1>0, <1>s, RefuseCourseEffect DEF JobKnown, ServesRead
  <2>6. CASE LinkCourse(h)
    BY <2>6, <1>0, <1>s, LinkCourseEffect DEF JobKnown, ServesRead
  <2>7. CASE FailToLink(h)
    BY <2>7, <1>0, <1>s, FailToLinkEffect DEF JobKnown, ServesRead
  <2>8. CASE EndJob(h)
    BY <2>8, <1>0, <1>s, EndJobEffect DEF JobKnown, ServesRead
  <2>9. CASE SkipTime(h)
    BY <2>9, <1>0, <1>s, SkipTimeEffect DEF JobKnown, ServesRead
  <2>10. CASE TakeTime(h)
    BY <2>10, <1>0, <1>s, TakeTimeEffect DEF JobKnown, ServesRead
  <2>11. CASE LeaveTime(h)
    BY <2>11, <1>0, <1>s, LeaveTimeEffect DEF JobKnown, ServesRead
  <2>12. ASSUME NEW room \in Rooms, CheckRoom(h, room)
        PROVE  ServesRead(h)'
    BY <2>12, <1>0, <1>s, CheckRoomEffect DEF JobKnown, ServesRead
  <2>13. CASE WriteSlot(h)
    BY <2>13, <1>0, <1>s, WriteSlotEffect DEF JobKnown, ServesRead
  <2>14. CASE RefuseSlot(h)
    BY <2>14, <1>0, <1>s, RefuseSlotEffect DEF JobKnown, ServesRead
  <2>15. CASE TellTeacher(h)
    BY <2>15, <1>0, <1>s, TellTeacherEffect DEF JobKnown, ServesRead
  <2>16. CASE FailToTell(h)
    BY <2>16, <1>0, <1>s, FailToTellEffect DEF JobKnown, ServesRead
  <2>17. CASE EndRun(h)
    BY <2>17, EndRunEffect DEF ServesRead
  <2>18. CASE Crash(h)
    BY <2>18, CrashEffect DEF ServesRead
  <2>19. QED
    BY <1>2, <2>1, <2>2, <2>3, <2>4, <2>5, <2>6, <2>7, <2>8, <2>9, <2>10, <2>11, <2>12, <2>13,
       <2>14, <2>15, <2>16, <2>17, <2>18 DEF RunStep
<1>3. QED
  BY <1>1, <1>2, RunMoves

\* What runs work from goes on.
LEMMA JobsStep ==
    ASSUME TypeOK, JobsKnown, LinksApart, CoursesKnown, [Next]_vars
    PROVE  JobsKnown'
<1>1. \A h \in Runs : JobKnown(h)'
  BY HasJobStep, LinksOneStep, ServesJobStep, ServesReadStep DEF JobKnown
<1>2. QED
  BY <1>1 DEF JobsKnown

\* A run that is about to link a course has just created it, or was about to.
LEMMA NewLink ==
    ASSUME TypeOK, [Next]_vars, NEW h \in Runs, run'[h].pc = "linking"
    PROVE  (run[h].pc = "linking" /\ run[h].course = run'[h].course)
           \/ \E c \in Courses : CreateCourse(h, c) /\ run'[h].course = c
<1>1. CASE Same(run'[h], run[h])
  BY <1>1 DEF Same
<1>2. ASSUME RunStep(h)
      PROVE  (run[h].pc = "linking" /\ run[h].course = run'[h].course)
           \/ \E c \in Courses : CreateCourse(h, c) /\ run'[h].course = c
  <2>1. CASE Start(h)
    BY <2>1, StartEffect DEF Start
  <2>2. ASSUME NEW r \in Requirements, SkipJob(h, r)
        PROVE  (run[h].pc = "linking" /\ run[h].course = run'[h].course)
           \/ \E c \in Courses : CreateCourse(h, c) /\ run'[h].course = c
    BY <2>2, SkipJobEffect DEF SkipJob, IsNext
  <2>3. ASSUME NEW r \in Requirements, BeginJob(h, r)
        PROVE  (run[h].pc = "linking" /\ run[h].course = run'[h].course)
           \/ \E c \in Courses : CreateCourse(h, c) /\ run'[h].course = c
    <3>1. run'[h].pc = IF run[h].jobs[r].course = None THEN "creating" ELSE "placing"
      BY <2>3, BeginJobEffect
    <3>2. QED
      BY <3>1
  <2>4. ASSUME NEW c \in Courses, CreateCourse(h, c)
        PROVE  (run[h].pc = "linking" /\ run[h].course = run'[h].course)
           \/ \E b \in Courses : CreateCourse(h, b) /\ run'[h].course = b
    BY <2>4, CreateCourseEffect
  <2>5. CASE RefuseCourse(h)
    BY <2>5, RefuseCourseEffect DEF RefuseCourse
  <2>6. CASE LinkCourse(h)
    BY <2>6, LinkCourseEffect DEF LinkCourse
  <2>7. CASE FailToLink(h)
    BY <2>7, FailToLinkEffect DEF FailToLink
  <2>8. CASE EndJob(h)
    BY <2>8, EndJobEffect DEF EndJob
  <2>9. CASE SkipTime(h)
    BY <2>9, SkipTimeEffect DEF SkipTime
  <2>10. CASE TakeTime(h)
    BY <2>10, TakeTimeEffect DEF TakeTime
  <2>11. CASE LeaveTime(h)
    BY <2>11, LeaveTimeEffect DEF LeaveTime
  <2>12. ASSUME NEW room \in Rooms, CheckRoom(h, room)
        PROVE  (run[h].pc = "linking" /\ run[h].course = run'[h].course)
           \/ \E c \in Courses : CreateCourse(h, c) /\ run'[h].course = c
    BY <2>12, CheckRoomEffect DEF CheckRoom
  <2>13. CASE WriteSlot(h)
    BY <2>13, WriteSlotEffect DEF WriteSlot
  <2>14. CASE RefuseSlot(h)
    BY <2>14, RefuseSlotEffect DEF RefuseSlot
  <2>15. CASE TellTeacher(h)
    BY <2>15, TellTeacherEffect DEF TellTeacher
  <2>16. CASE FailToTell(h)
    BY <2>16, FailToTellEffect DEF FailToTell
  <2>17. CASE EndRun(h)
    BY <2>17, EndRunEffect DEF EndRun
  <2>18. CASE Crash(h)
    BY <2>18, CrashEffect DEF Crash
  <2>19. QED
    BY <1>2, <2>1, <2>2, <2>3, <2>4, <2>5, <2>6, <2>7, <2>8, <2>9, <2>10, <2>11, <2>12, <2>13,
       <2>14, <2>15, <2>16, <2>17, <2>18 DEF RunStep
<1>3. QED
  BY <1>1, <1>2, RunMoves

\* Runs go on linking courses of their own.
LEMMA LinksStep ==
    ASSUME TypeOK, JobsKnown, LinksApart, [Next]_vars
    PROVE  LinksApart'
<1> SUFFICES ASSUME NEW h \in Runs, NEW k \in Runs, run'[h].pc = "linking",
                    run'[k].pc = "linking", run'[h].course = run'[k].course, h # k
             PROVE  FALSE
  BY DEF LinksApart
<1>1. \A i \in Runs : run[i].pc = "linking" => run[i].course \in Present
  BY DEF JobsKnown, JobKnown, LinksOne
<1>2. \A i \in Runs, c \in Courses : CreateCourse(i, c) => c \notin Present
  BY DEF CreateCourse, Present
<1>3. ASSUME NEW i \in Runs, NEW j \in Runs, i # j, NEW c \in Courses, CreateCourse(i, c)
      PROVE  run'[j].pc = run[j].pc /\ run'[j].course = run[j].course
  BY <1>3, CreateCourseEffect DEF Same
<1>4. \A i \in Runs, c \in Courses : CreateCourse(i, c) => run[i].pc = "creating"
  BY DEF CreateCourse
<1>5. ~\E c \in Courses : CreateCourse(h, c) \/ CreateCourse(k, c)
  BY <1>1, <1>2, <1>3, <1>4, NewLink
<1>6. QED
  BY <1>5, NewLink DEF LinksApart

\* A run under way was under way, or has just started.
LEMMA Awake ==
    ASSUME TypeOK, [Next]_vars, NEW h \in Runs, run'[h].pc # "idle"
    PROVE  run[h].pc # "idle" \/ Start(h)
<1>1. CASE Same(run'[h], run[h])
  BY <1>1 DEF Same
<1>2. ASSUME RunStep(h)
      PROVE  run[h].pc # "idle" \/ Start(h)
  <2>1. CASE Start(h)
    BY <2>1
  <2>2. ASSUME NEW r \in Requirements, SkipJob(h, r)
        PROVE  run[h].pc # "idle" \/ Start(h)
    BY <2>2 DEF SkipJob, IsNext
  <2>3. ASSUME NEW r \in Requirements, BeginJob(h, r)
        PROVE  run[h].pc # "idle" \/ Start(h)
    BY <2>3 DEF BeginJob, IsNext
  <2>4. ASSUME NEW c \in Courses, CreateCourse(h, c)
        PROVE  run[h].pc # "idle" \/ Start(h)
    BY <2>4 DEF CreateCourse
  <2>5. CASE RefuseCourse(h)
    BY <2>5 DEF RefuseCourse
  <2>6. CASE LinkCourse(h)
    BY <2>6 DEF LinkCourse
  <2>7. CASE FailToLink(h)
    BY <2>7 DEF FailToLink
  <2>8. CASE EndJob(h)
    BY <2>8 DEF EndJob
  <2>9. CASE SkipTime(h)
    BY <2>9 DEF SkipTime
  <2>10. CASE TakeTime(h)
    BY <2>10 DEF TakeTime
  <2>11. CASE LeaveTime(h)
    BY <2>11 DEF LeaveTime
  <2>12. ASSUME NEW room \in Rooms, CheckRoom(h, room)
        PROVE  run[h].pc # "idle" \/ Start(h)
    BY <2>12 DEF CheckRoom
  <2>13. CASE WriteSlot(h)
    BY <2>13 DEF WriteSlot
  <2>14. CASE RefuseSlot(h)
    BY <2>14 DEF RefuseSlot
  <2>15. CASE TellTeacher(h)
    BY <2>15 DEF TellTeacher
  <2>16. CASE FailToTell(h)
    BY <2>16 DEF FailToTell
  <2>17. CASE EndRun(h)
    BY <2>17 DEF EndRun
  <2>18. CASE Crash(h)
    BY <2>18 DEF Crash
  <2>19. QED
    BY <1>2, <2>1, <2>2, <2>3, <2>4, <2>5, <2>6, <2>7, <2>8, <2>9, <2>10, <2>11, <2>12, <2>13,
       <2>14, <2>15, <2>16, <2>17, <2>18 DEF RunStep
<1>3. QED
  BY <1>1, <1>2, RunMoves

\* Runs overlap only when they cross.
LEMMA OneRunStep ==
    ASSUME TypeOK, OneRun, [Next]_vars
    PROVE  OneRun'
<1> SUFFICES ASSUME ~crossed', NEW h \in Runs, NEW k \in Runs, run'[h].pc # "idle",
                    run'[k].pc # "idle", h # k
             PROVE  FALSE
  BY DEF OneRun
<1>1. ~crossed
  BY HistoryStays
<1>2. ASSUME NEW i \in Runs, NEW j \in Runs, i # j, Start(i), run'[j].pc # "idle"
      PROVE  FALSE
  <2>1. run[j].pc # "idle"
    BY <1>2, StartEffect DEF Same
  <2>2. QED
    BY <1>2, <2>1 DEF Start, Underway
<1>3. ~Start(h) /\ ~Start(k)
  BY <1>2
<1>4. QED
  BY <1>1, <1>3, Awake DEF OneRun

\* A run that nobody moves keeps its place.
LEMMA KeptPlace ==
    ASSUME PlacesKnown, NEW h \in Runs, Same(run'[h], run[h])
    PROVE  PlaceKnown(h)'
BY DEF PlacesKnown, PlaceKnown, Same

\* Runs know where they stand.
LEMMA PlaceStep ==
    ASSUME TypeOK, PlacesKnown, [Next]_vars, NEW h \in Runs
    PROVE  PlaceKnown(h)'
<1>1. CASE Same(run'[h], run[h])
  BY <1>1, KeptPlace
<1>2. ASSUME RunStep(h)
      PROVE  PlaceKnown(h)'
  <2>1. CASE Start(h)
    BY <2>1, StartEffect DEF Start, PlacesKnown, PlaceKnown
  <2>2. ASSUME NEW r \in Requirements, SkipJob(h, r)
        PROVE  PlaceKnown(h)'
    BY <2>2, SkipJobEffect DEF SkipJob, IsNext, PlaceKnown
  <2>3. ASSUME NEW r \in Requirements, BeginJob(h, r)
        PROVE  PlaceKnown(h)'
    <3>1. /\ run'[h].pc = IF run[h].jobs[r].course = None THEN "creating" ELSE "placing"
          /\ run'[h].time = 1
      BY <2>3, BeginJobEffect
    <3>2. QED
      BY <3>1 DEF PlaceKnown
  <2>4. ASSUME NEW c \in Courses, CreateCourse(h, c)
        PROVE  PlaceKnown(h)'
    BY <2>4, CreateCourseEffect DEF CreateCourse, PlacesKnown, PlaceKnown
  <2>5. CASE RefuseCourse(h)
    BY <2>5, RefuseCourseEffect DEF RefuseCourse, PlacesKnown, PlaceKnown
  <2>6. CASE LinkCourse(h)
    BY <2>6, LinkCourseEffect DEF LinkCourse, PlacesKnown, PlaceKnown
  <2>7. CASE FailToLink(h)
    BY <2>7, FailToLinkEffect DEF FailToLink, PlacesKnown, PlaceKnown
  <2>8. CASE EndJob(h)
    BY <2>8, EndJobEffect DEF EndJob, PlacesKnown, PlaceKnown
  <2>9. CASE SkipTime(h)
    <3>1. run[h].time \in RunTimes /\ run[h].left \in Nat /\ PlaceKnown(h)
      BY RunFields DEF TypeOK, PlacesKnown
    <3>2. run'[h].pc = run[h].pc /\ run'[h].time = run[h].time + 1 /\ run'[h].left = run[h].left
      BY <2>9, SkipTimeEffect
    <3>3. run[h].pc = "placing"
      BY <2>9 DEF SkipTime, More
    <3>4. run'[h].time # 0
      BY <3>1, <3>2, <3>3, WeekAssumption DEF RunTimes, PlaceKnown, Times
    <3>5. QED
      BY <3>1, <3>2, <3>3, <3>4, WeekAssumption DEF RunTimes, PlaceKnown, Times
  <2>10. CASE TakeTime(h)
    <3>1. run[h].time \in RunTimes /\ run[h].left \in Nat /\ PlaceKnown(h)
      BY RunFields DEF TypeOK, PlacesKnown
    <3>2. run'[h].pc = "choosing" /\ run'[h].time = run[h].time /\ run'[h].left = run[h].left
      BY <2>10, TakeTimeEffect
    <3>3. run[h].pc = "placing" /\ run[h].left > 0 /\ run[h].time <= LastTime
      BY <2>10 DEF TakeTime, More
    <3>4. run'[h].time # 0
      BY <3>1, <3>2, <3>3, WeekAssumption DEF RunTimes, PlaceKnown, Times
    <3>5. QED
      BY <3>1, <3>2, <3>3, <3>4, WeekAssumption DEF RunTimes, PlaceKnown, Times
  <2>11. CASE LeaveTime(h)
    <3>1. run[h].time \in RunTimes /\ run[h].left \in Nat /\ PlaceKnown(h)
      BY RunFields DEF TypeOK, PlacesKnown
    <3>2. run'[h].pc = "placing" /\ run'[h].time = run[h].time + 1 /\ run'[h].left = run[h].left
      BY <2>11, LeaveTimeEffect
    <3>3. run[h].pc = "choosing"
      BY <2>11 DEF LeaveTime, More
    <3>4. run'[h].time # 0
      BY <3>1, <3>2, <3>3, WeekAssumption DEF RunTimes, PlaceKnown, Times
    <3>5. QED
      BY <3>1, <3>2, <3>3, <3>4, WeekAssumption DEF RunTimes, PlaceKnown, Times
  <2>12. ASSUME NEW room \in Rooms, CheckRoom(h, room)
        PROVE  PlaceKnown(h)'
    BY <2>12, CheckRoomEffect DEF CheckRoom, PlacesKnown, PlaceKnown
  <2>13. CASE WriteSlot(h)
    BY <2>13, WriteSlotEffect DEF WriteSlot, PlacesKnown, PlaceKnown
  <2>14. CASE RefuseSlot(h)
    BY <2>14, RefuseSlotEffect DEF RefuseSlot, PlacesKnown, PlaceKnown
  <2>15. CASE TellTeacher(h)
    <3>1. run[h].time \in RunTimes /\ run[h].left \in Nat /\ PlaceKnown(h)
      BY RunFields DEF TypeOK, PlacesKnown
    <3>2. run'[h].pc = "placing" /\ run'[h].time = run[h].time + 1 /\ run'[h].left = run[h].left - 1
      BY <2>15, TellTeacherEffect
    <3>3. run[h].pc = "telling"
      BY <2>15 DEF TellTeacher, More
    <3>4. run'[h].time # 0
      BY <3>1, <3>2, <3>3, WeekAssumption DEF RunTimes, PlaceKnown, Times
    <3>5. QED
      BY <3>1, <3>2, <3>3, <3>4, WeekAssumption DEF RunTimes, PlaceKnown, Times
  <2>16. CASE FailToTell(h)
    BY <2>16, FailToTellEffect DEF FailToTell, PlacesKnown, PlaceKnown
  <2>17. CASE EndRun(h)
    BY <2>17, EndRunEffect DEF EndRun, PlacesKnown, PlaceKnown
  <2>18. CASE Crash(h)
    BY <2>18, CrashEffect DEF Crash, PlacesKnown, PlaceKnown
  <2>19. QED
    BY <1>2, <2>1, <2>2, <2>3, <2>4, <2>5, <2>6, <2>7, <2>8, <2>9, <2>10, <2>11, <2>12, <2>13,
       <2>14, <2>15, <2>16, <2>17, <2>18 DEF RunStep
<1>3. QED
  BY <1>1, <1>2, RunMoves

\* A course stays with its requirement.
LEMMA MadeWellStep ==
    ASSUME TypeOK, JobsKnown, CoursesKnown, [Next]_vars, NEW d \in Courses
    PROVE  MadeWell(d)'
<1>0. \A k \in Runs : JobKnown(k)
  BY DEF JobsKnown
<1>e. MadeWell(d)
  BY DEF CoursesKnown
<1>1. ASSUME NEW r \in Requirements, CreateRequirement(r)
      PROVE  MadeWell(d)'
  BY <1>1, <1>e DEF CreateRequirement, MadeWell, Present, rows, history
<1>2. ASSUME NEW r \in Requirements, DeleteRequirement(r)
      PROVE  MadeWell(d)'
  <2>1. course'[d] = IF d \in LinkedTo(r) THEN [course[d] EXCEPT !.requirement = None] ELSE
                           course[d]
    BY <1>2 DEF DeleteRequirement
  <2>2. d \in LinkedTo(r) => course[d] \in Course /\ d \in Present
    BY DEF LinkedTo, Present, TypeOK
  <2>3. d \in LinkedTo(r) => course'[d].requirement = None
    BY <2>1, <2>2 DEF Course
  <2>4. madeFor' = madeFor
    BY <1>2 DEF DeleteRequirement, history
  <2>5. QED
    BY <1>e, <2>1, <2>2, <2>3, <2>4 DEF MadeWell, Present
<1>3. ASSUME NEW r \in Requirements, NEW teacher \in Teachers \cup {None}, Assign(r, teacher)
      PROVE  MadeWell(d)'
  BY <1>3, <1>e DEF Assign, MadeWell, Present, rows, history
<1>4. ASSUME NEW c \in Courses, NEW t \in Times, NEW room \in Rooms, AddByHand(c, t, room)
      PROVE  MadeWell(d)'
  BY <1>4, <1>e DEF AddByHand, MadeWell, Present, rows, history
<1>5. ASSUME NEW x \in slots, DeleteSlot(x)
      PROVE  MadeWell(d)'
  BY <1>5, <1>e DEF DeleteSlot, MadeWell, Present, rows, history
<1>6. ASSUME NEW g \in Runs, NEW c \in Courses, CreateCourse(g, c)
      PROVE  MadeWell(d)'
  <2>1. run[g].job \in Requirements
    BY <1>6, <1>0 DEF CreateCourse, JobKnown, HasJob, AtWork
  <2>2. d # c => course'[d] = course[d] /\ madeFor'[d] = madeFor[d]
    BY <1>6 DEF CreateCourse, TypeOK
  <2>3. madeFor'[c] = run[g].job /\ course'[c].requirement = None
    BY <1>6 DEF CreateCourse, TypeOK
  <2>4. QED
    BY <1>e, <2>1, <2>2, <2>3 DEF MadeWell, Present
<1>7. ASSUME NEW g \in Runs, LinkCourse(g)
      PROVE  MadeWell(d)'
  <2>1. /\ run[g].course \in Present /\ course[run[g].course] \in Course
        /\ madeFor[run[g].course] = run[g].job
    BY <1>7, <1>0 DEF LinkCourse, JobKnown, LinksOne, Present, TypeOK
  <2>2. /\ course' = [course EXCEPT ![run[g].course] = [course[run[g].course] EXCEPT !.requirement
                           = run[g].job]]
        /\ madeFor' = madeFor
    BY <1>7 DEF LinkCourse, history
  <2>3. course'[run[g].course].requirement = run[g].job
    BY <2>1, <2>2 DEF Course, Present, TypeOK
  <2>4. d # run[g].course => course'[d] = course[d]
    BY <2>2 DEF TypeOK
  <2>5. QED
    BY <1>e, <2>1, <2>2, <2>3, <2>4 DEF MadeWell, Present
<1>8. ASSUME NEW g \in Runs, WriteSlot(g)
      PROVE  MadeWell(d)'
  BY <1>8, <1>e DEF WriteSlot, MadeWell, Present, rows, history
<1>9. CASE Quiet
  BY <1>9, <1>e DEF Quiet, rows, MadeWell, Present
<1>10. QED
  BY <1>1, <1>2, <1>3, <1>4, <1>5, <1>6, <1>7, <1>8, <1>9, RowKinds

\* A session of old stays known.
LEMMA KeptSession ==
    ASSUME TypeOK, JobsKnown, CoursesKnown, [Next]_vars, NEW x \in slots
    PROVE  SessionKnown(x)'
<1>1. x.course \in Courses /\ x.course \in Present /\ SessionKnown(x)
  BY DEF CoursesKnown, SessionKnown, Present
<1>2. madeFor[x.course] \in Requirements
  BY <1>1 DEF CoursesKnown, MadeWell
<1>3. x.course \in Present' /\ madeFor'[x.course] = madeFor[x.course]
  BY <1>1, PresentStays
<1> DEFINE q == madeFor[x.course]
<1>4. Serves(x.course, q) => \/ course'[x.course].requirement = q
                             \/ state'[q] = "deleted"
  <2>1. \A p \in Requirements : Serves(x.course, p) => Serves(x.course, p)'
    BY <1>1, ServesStep
  <2>2. \A p \in Requirements : Serves(x.course, p) =>
           course'[x.course].requirement = p \/ state'[p] = "deleted"
    BY <2>1 DEF Serves
  <2>3. QED
    BY <1>2, <2>2
<1>5. x.byRun => Serves(x.course, q)
  BY <1>1 DEF SessionKnown, Serves
<1> HIDE DEF q
<1>6. madeFor'[x.course] = q
  BY <1>3 DEF q
<1>7. QED
  BY <1>3, <1>4, <1>5, <1>6 DEF SessionKnown

\* Courses keep their requirements, and sessions their courses.
LEMMA CoursesStep ==
    ASSUME TypeOK, JobsKnown, CoursesKnown, [Next]_vars
    PROVE  CoursesKnown'
<1>1. \A c \in Courses : MadeWell(c)'
  BY MadeWellStep
<1>2. ASSUME NEW x \in slots', x \notin slots
      PROVE  SessionKnown(x)'
  <2>1. ASSUME NEW c \in Courses, NEW t \in Times, NEW room \in Rooms, AddByHand(c, t, room)
        PROVE  SessionKnown(x)'
    BY <1>2, <2>1 DEF AddByHand, SessionKnown, Present
  <2>2. ASSUME NEW g \in Runs, WriteSlot(g)
        PROVE  SessionKnown(x)'
    <3>1. x.course = run[g].course /\ course' = course /\ madeFor' = madeFor /\ state' = state
      BY <1>2, <2>2 DEF WriteSlot, history
    <3>2. JobKnown(g)
      BY DEF JobsKnown
    <3>3. /\ run[g].course \in Courses /\ run[g].job \in Requirements
          /\ Serves(run[g].course, run[g].job)
      BY <2>2, <3>2 DEF WriteSlot, JobKnown, HasJob, ServesJob, AtWork
    <3>4. QED
      BY <3>1, <3>3 DEF Serves, SessionKnown, Present
  <2>3. QED
    BY <1>2, <2>1, <2>2, SlotsGrow
<1>3. \A x \in slots' : SessionKnown(x)'
  BY <1>2, KeptSession
<1>4. QED
  BY <1>1, <1>3 DEF CoursesKnown

\* A run that tries the same time for the same job.
LEMMA KeptFree ==
    ASSUME TypeOK, JobsKnown, CoursesKnown, ClassFree, [Next]_vars,
           NEW h \in Runs, NEW y \in slots,
           run'[h].pc \in Trying => run[h].pc \in Trying,
           run'[h].job = run[h].job, run'[h].time = run[h].time, run'[h].course = run[h].course
    PROVE  FreeFor(h, y)'
<1>1. FreeFor(h, y)
  BY DEF ClassFree
<1>2. y.course \in Present /\ y.course \in Courses
  BY DEF CoursesKnown, SessionKnown, Present
<1>3. madeFor[y.course] \in Requirements /\ madeFor'[y.course] = madeFor[y.course]
  BY <1>2, PresentStays DEF CoursesKnown, MadeWell
<1>4. run[h].pc \in Trying => run[h].job \in Requirements
  BY DEF JobsKnown, JobKnown, HasJob, AtWork, Trying
<1>5. /\ crossed => crossed'
      /\ \A q \in Requirements : state[q] = "deleted" => state'[q] = "deleted"
  BY HistoryStays, StateStays DEF StateKept
<1>6. QED
  BY <1>1, <1>3, <1>4, <1>5 DEF FreeFor

\* A class stays free of the sessions there are.
LEMMA FreeStep ==
    ASSUME TypeOK, JobsKnown, CoursesKnown, ClassFree, [Next]_vars, NEW h \in Runs, NEW y \in slots
    PROVE  FreeFor(h, y)'
<1>1. CASE Same(run'[h], run[h])
  BY <1>1, KeptFree DEF Same
<1>2. ASSUME RunStep(h)
      PROVE  FreeFor(h, y)'
  <2>1. CASE Start(h)
    BY <2>1, StartEffect DEF Trying, FreeFor
  <2>2. ASSUME NEW r \in Requirements, SkipJob(h, r)
        PROVE  FreeFor(h, y)'
    BY <2>2, SkipJobEffect DEF Trying, FreeFor, SkipJob, IsNext
  <2>3. ASSUME NEW r \in Requirements, BeginJob(h, r)
        PROVE  FreeFor(h, y)'
    <3>1. run'[h].pc = IF run[h].jobs[r].course = None THEN "creating" ELSE "placing"
      BY <2>3, BeginJobEffect
    <3>2. QED
      BY <3>1 DEF FreeFor, Trying
  <2>4. ASSUME NEW c \in Courses, CreateCourse(h, c)
        PROVE  FreeFor(h, y)'
    BY <2>4, CreateCourseEffect DEF Trying, FreeFor, CreateCourse
  <2>5. CASE RefuseCourse(h)
    BY <2>5, RefuseCourseEffect DEF Trying, FreeFor, RefuseCourse
  <2>6. CASE LinkCourse(h)
    BY <2>6, LinkCourseEffect DEF Trying, FreeFor, LinkCourse
  <2>7. CASE FailToLink(h)
    BY <2>7, FailToLinkEffect DEF Trying, FreeFor, FailToLink
  <2>8. CASE EndJob(h)
    BY <2>8, EndJobEffect DEF Trying, FreeFor, EndJob
  <2>9. CASE SkipTime(h)
    BY <2>9, SkipTimeEffect DEF Trying, FreeFor, SkipTime
  <2>10. CASE TakeTime(h)
    <3>1. /\ run'[h].job = run[h].job /\ run'[h].time = run[h].time
          /\ state' = state /\ madeFor' = madeFor
      BY <2>10, TakeTimeEffect DEF TakeTime, rows, history
    <3>2. ~IsClassBusy(ClassOf[run[h].job], run[h].time)
      BY <2>10 DEF TakeTime, Passes
    <3>3. SessionKnown(y) /\ MadeWell(y.course)
      BY DEF CoursesKnown, SessionKnown, Present
    <3>4. /\ y.course \in Present /\ madeFor[y.course] \in Requirements
          /\ y.byRun => \/ course[y.course].requirement = madeFor[y.course]
                        \/ state[madeFor[y.course]] = "deleted"
      BY <3>3 DEF SessionKnown, MadeWell
    <3>5. QED
      BY <3>1, <3>2, <3>4, NoneAssumption DEF FreeFor, IsClassBusy
  <2>11. CASE LeaveTime(h)
    BY <2>11, LeaveTimeEffect DEF Trying, FreeFor, LeaveTime
  <2>12. ASSUME NEW room \in Rooms, CheckRoom(h, room)
        PROVE  FreeFor(h, y)'
    <3>1. /\ run[h].pc \in Trying /\ run'[h].job = run[h].job
          /\ run'[h].time = run[h].time /\ run'[h].course = run[h].course
      BY <2>12, CheckRoomEffect DEF CheckRoom, Trying
    <3>2. QED
      BY <3>1, KeptFree
  <2>13. CASE WriteSlot(h)
    <3>1. /\ run[h].pc \in Trying /\ run'[h].job = run[h].job
          /\ run'[h].time = run[h].time /\ run'[h].course = run[h].course
      BY <2>13, WriteSlotEffect DEF WriteSlot, Trying
    <3>2. QED
      BY <3>1, KeptFree
  <2>14. CASE RefuseSlot(h)
    <3>1. /\ run[h].pc \in Trying /\ run'[h].job = run[h].job
          /\ run'[h].time = run[h].time /\ run'[h].course = run[h].course
      BY <2>14, RefuseSlotEffect DEF RefuseSlot, Trying
    <3>2. QED
      BY <3>1, KeptFree
  <2>15. CASE TellTeacher(h)
    BY <2>15, TellTeacherEffect DEF Trying, FreeFor, TellTeacher
  <2>16. CASE FailToTell(h)
    <3>1. /\ run[h].pc \in Trying /\ run'[h].job = run[h].job
          /\ run'[h].time = run[h].time /\ run'[h].course = run[h].course
      BY <2>16, FailToTellEffect DEF FailToTell, Trying
    <3>2. QED
      BY <3>1, KeptFree
  <2>17. CASE EndRun(h)
    BY <2>17, EndRunEffect DEF Trying, FreeFor, EndRun
  <2>18. CASE Crash(h)
    BY <2>18, CrashEffect DEF Trying, FreeFor, Crash
  <2>19. QED
    BY <1>2, <2>1, <2>2, <2>3, <2>4, <2>5, <2>6, <2>7, <2>8, <2>9, <2>10, <2>11, <2>12, <2>13,
       <2>14, <2>15, <2>16, <2>17, <2>18 DEF RunStep
<1>3. QED
  BY <1>1, <1>2, RunMoves

\* A class stays free of other sessions while a run tries a time.
LEMMA ClassFreeStep ==
    ASSUME TypeOK, JobsKnown, CoursesKnown, OneRun, ClassFree, [Next]_vars
    PROVE  ClassFree'
<1>1. ASSUME NEW h \in Runs, NEW y \in slots', y \notin slots
      PROVE  FreeFor(h, y)'
  <2>1. ASSUME NEW c \in Courses, NEW t \in Times, NEW room \in Rooms, AddByHand(c, t, room)
        PROVE  FreeFor(h, y)'
    BY <1>1, <2>1 DEF AddByHand, FreeFor
  <2>2. ASSUME NEW g \in Runs, WriteSlot(g)
        PROVE  FreeFor(h, y)'
    <3>1. y.course = run[g].course
      BY <1>1, <2>2 DEF WriteSlot
    <3>2. run'[g].course = run[g].course
      BY <2>2, WriteSlotEffect
    <3>3. h # g => run'[h].pc = run[h].pc
      BY <2>2, WriteSlotEffect DEF Same
    <3>4. crossed' = crossed /\ run[g].pc = "writing"
      BY <2>2 DEF WriteSlot, history
    <3>5. h # g => FreeFor(h, y)'
      BY <3>3, <3>4 DEF OneRun, FreeFor, Trying
    <3>6. QED
      BY <3>1, <3>2, <3>5 DEF FreeFor
  <2>3. QED
    BY <1>1, <2>1, <2>2, SlotsGrow
<1>2. \A h \in Runs, y \in slots' : FreeFor(h, y)'
  BY <1>1, FreeStep
<1>3. QED
  BY <1>2 DEF ClassFree

\* A requirement stays without a course until a run links one.
LEMMA UnservedStays ==
    ASSUME TypeOK, JobsKnown, [Next]_vars, NEW q \in Requirements, Unserved(q)
    PROVE  \/ Unserved(q)'
           \/ \E k \in Runs : run[k].pc = "linking" /\ run'[k].pc = "placing" /\ run[k].job = q
<1>0. \A k \in Runs : JobKnown(k)
  BY DEF JobsKnown
<1>1. ASSUME NEW r \in Requirements, CreateRequirement(r)
      PROVE  \/ Unserved(q)'
           \/ \E k \in Runs : run[k].pc = "linking" /\ run'[k].pc = "placing" /\ run[k].job = q
  BY <1>1 DEF CreateRequirement, Unserved, Present, rows, TypeOK
<1>2. ASSUME NEW r \in Requirements, DeleteRequirement(r)
      PROVE  \/ Unserved(q)'
           \/ \E k \in Runs : run[k].pc = "linking" /\ run'[k].pc = "placing" /\ run[k].job = q
  <2>1. state' = [state EXCEPT ![r] = "deleted"]
    BY <1>2 DEF DeleteRequirement
  <2>2. \A c \in Courses : course'[c] = IF c \in LinkedTo(r) THEN [course[c] EXCEPT !.requirement
                           = None] ELSE course[c]
    BY <1>2 DEF DeleteRequirement
  <2>3. \A c \in LinkedTo(r) : c \in Courses /\ course[c] \in Course
    BY DEF LinkedTo, Present, TypeOK
  <2>4. \A c \in LinkedTo(r) : course'[c].requirement = None
    BY <2>2, <2>3 DEF Course
  <2>5. \A c \in Courses : c \in LinkedTo(r) \/ course'[c] = course[c]
    BY <2>2
  <2>6. QED
    BY <2>1, <2>4, <2>5, NoneAssumption DEF Unserved, Present, TypeOK
<1>3. ASSUME NEW r \in Requirements, NEW teacher \in Teachers \cup {None}, Assign(r, teacher)
      PROVE  \/ Unserved(q)'
           \/ \E k \in Runs : run[k].pc = "linking" /\ run'[k].pc = "placing" /\ run[k].job = q
  BY <1>3 DEF Assign, Unserved, Present, rows, TypeOK
<1>4. ASSUME NEW c \in Courses, NEW t \in Times, NEW room \in Rooms, AddByHand(c, t, room)
      PROVE  \/ Unserved(q)'
           \/ \E k \in Runs : run[k].pc = "linking" /\ run'[k].pc = "placing" /\ run[k].job = q
  BY <1>4 DEF AddByHand, Unserved, Present, rows, TypeOK
<1>5. ASSUME NEW x \in slots, DeleteSlot(x)
      PROVE  \/ Unserved(q)'
           \/ \E k \in Runs : run[k].pc = "linking" /\ run'[k].pc = "placing" /\ run[k].job = q
  BY <1>5 DEF DeleteSlot, Unserved, Present, rows, TypeOK
<1>6. ASSUME NEW g \in Runs, NEW c \in Courses, CreateCourse(g, c)
      PROVE  \/ Unserved(q)'
           \/ \E k \in Runs : run[k].pc = "linking" /\ run'[k].pc = "placing" /\ run[k].job = q
  <2>1. /\ \A d \in Courses : d # c => course'[d] = course[d]
        /\ course'[c].requirement = None /\ state' = state
    BY <1>6 DEF CreateCourse, TypeOK
  <2>2. QED
    BY <2>1, NoneAssumption DEF Unserved, Present
<1>7. ASSUME NEW g \in Runs, LinkCourse(g)
      PROVE  \/ Unserved(q)'
           \/ \E k \in Runs : run[k].pc = "linking" /\ run'[k].pc = "placing" /\ run[k].job = q
  <2>1. CASE run[g].job = q
    BY <1>7, <2>1, LinkCourseEffect DEF LinkCourse
  <2>2. CASE run[g].job # q
    <3>1. /\ course' = [course EXCEPT ![run[g].course] = [course[run[g].course] EXCEPT
                             !.requirement = run[g].job]]
          /\ state' = state
      BY <1>7 DEF LinkCourse
    <3>2. run[g].course \in Present /\ course[run[g].course] \in Course
      BY <1>7, <1>0 DEF LinkCourse, JobKnown, LinksOne, Present, TypeOK
    <3>3. course'[run[g].course].requirement = run[g].job
      BY <3>1, <3>2 DEF Course, Present, TypeOK
    <3>4. \A c \in Courses : c # run[g].course => course'[c] = course[c]
      BY <3>1 DEF TypeOK
    <3>5. QED
      BY <2>2, <3>1, <3>3, <3>4 DEF Unserved, Present
  <2>3. QED
    BY <2>1, <2>2
<1>8. ASSUME NEW g \in Runs, WriteSlot(g)
      PROVE  \/ Unserved(q)'
           \/ \E k \in Runs : run[k].pc = "linking" /\ run'[k].pc = "placing" /\ run[k].job = q
  BY <1>8 DEF WriteSlot, Unserved, Present, rows, TypeOK
<1>9. CASE Quiet
  BY <1>9 DEF Quiet, rows, Unserved, Present
<1>10. QED
  BY <1>1, <1>2, <1>3, <1>4, <1>5, <1>6, <1>7, <1>8, <1>9, RowKinds

\* A run that reads and begins nothing new.
LEMMA KeptUnlinked ==
    ASSUME TypeOK, JobsKnown, OneRun, NothingLinked, [Next]_vars,
           NEW h \in Runs, NEW q \in Requirements,
           run'[h].pc # "idle" => run[h].pc # "idle",
           run'[h].pc \in {"creating", "linking"} /\ run'[h].job = q =>
               run[h].pc \in {"creating", "linking"} /\ run[h].job = q,
           run'[h].jobs[q] \in {None, run[h].jobs[q]},
           run[h].pc = "linking" /\ run[h].job = q => run'[h].pc # "placing"
    PROVE  UnlinkedFor(h, q)'
<1>1. UnlinkedFor(h, q)
  BY DEF NothingLinked
<1>2. /\ crossed => crossed'
      /\ state[q] # "absent" => state'[q] # "absent"
  BY HistoryStays, StateStays DEF StateKept
<1>3. ~crossed /\ run[h].pc # "idle" /\ Unserved(q) => Unserved(q)'
  BY UnservedStays DEF OneRun
<1>4. CASE crossed \/ run[h].pc = "idle"
  BY <1>2, <1>4 DEF UnlinkedFor
<1>5. CASE ~crossed /\ run[h].pc # "idle"
  BY <1>1, <1>2, <1>3, <1>5 DEF UnlinkedFor
<1>6. QED
  BY <1>4, <1>5

\* What a run has read without a course has none.
LEMMA UnlinkedStep ==
    ASSUME TypeOK, JobsKnown, OneRun, NothingLinked, [Next]_vars, NEW h \in Runs, NEW q \in
           Requirements
    PROVE  UnlinkedFor(h, q)'
<1>0. JobKnown(h)
  BY DEF JobsKnown
<1>1. CASE Same(run'[h], run[h])
  BY <1>1, KeptUnlinked DEF Same
<1>2. ASSUME RunStep(h)
      PROVE  UnlinkedFor(h, q)'
  <2>1. CASE Start(h)
    <3>1. run'[h].pc = "next" /\ state' = state /\ course' = course
      BY <2>1, StartEffect DEF Start, rows
    <3>2. run'[h].jobs = [p \in Requirements |-> IF state[p] = "present" THEN Read(p) ELSE None]
      BY <2>1, StartEffect
    <3>3. run'[h].jobs[q] # None => state[q] = "present" /\ run'[h].jobs[q] = Read(q)
      BY <3>2
    <3>4. Read(q).course = None => \A c \in Courses : c \in Present => course[c].requirement # q
      BY ReadLinked DEF LinkedTo
    <3>5. QED
      BY <3>1, <3>3, <3>4 DEF UnlinkedFor, Unserved, Present
  <2>2. ASSUME NEW r \in Requirements, SkipJob(h, r)
        PROVE  UnlinkedFor(h, q)'
    <3>1. run[h].jobs \in AllJobs /\ run[h].jobs[r] # None /\ run[h].pc = "next"
      BY <2>2, RunFields DEF SkipJob, IsNext, TypeOK
    <3>2. run'[h].jobs = [run[h].jobs EXCEPT ![r] = None]
      BY <2>2, SkipJobEffect
    <3>3. run'[h].jobs[q] \in {None, run[h].jobs[q]} /\ run'[h].jobs[r] = None
      BY <3>1, <3>2 DEF AllJobs
    <3>4. run'[h].pc = "next"
      BY <2>2, <3>1, SkipJobEffect
    <3>5. QED
      BY <3>1, <3>3, <3>4, KeptUnlinked
  <2>3. ASSUME NEW r \in Requirements, BeginJob(h, r)
        PROVE  UnlinkedFor(h, q)'
    <3>1. run[h].jobs \in AllJobs /\ run[h].jobs[r] # None /\ run[h].pc = "next"
      BY <2>3, RunFields DEF BeginJob, IsNext, TypeOK
    <3>2. run'[h].jobs = [run[h].jobs EXCEPT ![r] = None]
      BY <2>3, BeginJobEffect
    <3>3. run'[h].jobs[q] \in {None, run[h].jobs[q]} /\ run'[h].jobs[r] = None
      BY <3>1, <3>2 DEF AllJobs
    <3>4. /\ run'[h].pc = IF run[h].jobs[r].course = None THEN "creating" ELSE "placing"
          /\ run'[h].job = r
      BY <2>3, BeginJobEffect
    <3>5. CASE q = r
      <4>1. UnlinkedFor(h, r)
        BY DEF NothingLinked
      <4>2. state' = state /\ course' = course /\ crossed' = crossed
        BY <2>3 DEF BeginJob, rows, history
      <4>3. Unserved(r) => Unserved(r)'
        BY <4>2 DEF Unserved, Present
      <4>4. QED
        BY <3>1, <3>3, <3>4, <3>5, <4>1, <4>2, <4>3 DEF UnlinkedFor
    <3>6. CASE q # r
      BY <3>1, <3>3, <3>4, <3>6, KeptUnlinked
    <3>7. QED
      BY <3>5, <3>6
  <2>4. ASSUME NEW c \in Courses, CreateCourse(h, c)
        PROVE  UnlinkedFor(h, q)'
    <3>1. run'[h].pc = "linking" /\ run'[h].job = run[h].job /\ run'[h].jobs = run[h].jobs
      BY <2>4, CreateCourseEffect
    <3>2. /\ run[h].pc \in {"creating", "linking", "placing", "choosing", "writing", "telling"}
          /\ run[h].pc = "linking" => run'[h].pc # "placing"
          /\ run'[h].pc = "linking" => run[h].pc = "creating"
      BY <2>4, <3>1 DEF CreateCourse
    <3>3. QED
      BY <3>1, <3>2, KeptUnlinked
  <2>5. CASE RefuseCourse(h)
    <3>1. run'[h].pc = "next" /\ run'[h].job = None /\ run'[h].jobs = run[h].jobs
      BY <2>5, RefuseCourseEffect
    <3>2. /\ run[h].pc \in {"creating", "linking", "placing", "choosing", "writing", "telling"}
          /\ run[h].pc = "linking" => run'[h].pc # "placing"
          /\ run'[h].pc = "linking" => run[h].pc = "creating"
      BY <2>5, <3>1 DEF RefuseCourse
    <3>3. QED
      BY <3>1, <3>2, KeptUnlinked
  <2>6. CASE LinkCourse(h)
    <3>1. /\ run'[h].pc = "placing" /\ run'[h].jobs = run[h].jobs
          /\ run'[h].job = run[h].job /\ run[h].pc = "linking"
      BY <2>6, LinkCourseEffect DEF LinkCourse
    <3>2. run[h].jobs[run[h].job] = None
      BY <1>0, <3>1 DEF JobKnown, HasJob
    <3>3. CASE run[h].job = q
      BY <3>1, <3>2, <3>3 DEF UnlinkedFor
    <3>4. CASE run[h].job # q
      BY <3>1, <3>4, KeptUnlinked
    <3>5. QED
      BY <3>3, <3>4
  <2>7. CASE FailToLink(h)
    <3>1. run'[h].pc = "next" /\ run'[h].job = None /\ run'[h].jobs = run[h].jobs
      BY <2>7, FailToLinkEffect
    <3>2. /\ run[h].pc \in {"creating", "linking", "placing", "choosing", "writing", "telling"}
          /\ run[h].pc = "linking" => run'[h].pc # "placing"
          /\ run'[h].pc = "linking" => run[h].pc = "creating"
      BY <2>7, <3>1 DEF FailToLink
    <3>3. QED
      BY <3>1, <3>2, KeptUnlinked
  <2>8. CASE EndJob(h)
    <3>1. run'[h].pc = "next" /\ run'[h].job = None /\ run'[h].jobs = run[h].jobs
      BY <2>8, EndJobEffect
    <3>2. /\ run[h].pc \in {"creating", "linking", "placing", "choosing", "writing", "telling"}
          /\ run[h].pc = "linking" => run'[h].pc # "placing"
          /\ run'[h].pc = "linking" => run[h].pc = "creating"
      BY <2>8, <3>1 DEF EndJob
    <3>3. QED
      BY <3>1, <3>2, KeptUnlinked
  <2>9. CASE SkipTime(h)
    <3>1. run'[h].pc = run[h].pc /\ run'[h].job = run[h].job /\ run'[h].jobs = run[h].jobs
      BY <2>9, SkipTimeEffect
    <3>2. /\ run[h].pc \in {"creating", "linking", "placing", "choosing", "writing", "telling"}
          /\ run[h].pc = "linking" => run'[h].pc # "placing"
          /\ run'[h].pc = "linking" => run[h].pc = "creating"
      BY <2>9, <3>1 DEF SkipTime
    <3>3. QED
      BY <3>1, <3>2, KeptUnlinked
  <2>10. CASE TakeTime(h)
    <3>1. run'[h].pc = "choosing" /\ run'[h].job = run[h].job /\ run'[h].jobs = run[h].jobs
      BY <2>10, TakeTimeEffect
    <3>2. /\ run[h].pc \in {"creating", "linking", "placing", "choosing", "writing", "telling"}
          /\ run[h].pc = "linking" => run'[h].pc # "placing"
          /\ run'[h].pc = "linking" => run[h].pc = "creating"
      BY <2>10, <3>1 DEF TakeTime
    <3>3. QED
      BY <3>1, <3>2, KeptUnlinked
  <2>11. CASE LeaveTime(h)
    <3>1. run'[h].pc = "placing" /\ run'[h].job = run[h].job /\ run'[h].jobs = run[h].jobs
      BY <2>11, LeaveTimeEffect
    <3>2. /\ run[h].pc \in {"creating", "linking", "placing", "choosing", "writing", "telling"}
          /\ run[h].pc = "linking" => run'[h].pc # "placing"
          /\ run'[h].pc = "linking" => run[h].pc = "creating"
      BY <2>11, <3>1 DEF LeaveTime
    <3>3. QED
      BY <3>1, <3>2, KeptUnlinked
  <2>12. ASSUME NEW room \in Rooms, CheckRoom(h, room)
        PROVE  UnlinkedFor(h, q)'
    <3>1. run'[h].pc \in {"choosing", "writing"} /\ run'[h].jobs = run[h].jobs
      BY <2>12, CheckRoomEffect
    <3>2. run[h].pc = "choosing"
      BY <2>12 DEF CheckRoom
    <3>3. QED
      BY <3>1, <3>2, KeptUnlinked
  <2>13. CASE WriteSlot(h)
    <3>1. run'[h].pc = "telling" /\ run'[h].job = run[h].job /\ run'[h].jobs = run[h].jobs
      BY <2>13, WriteSlotEffect
    <3>2. /\ run[h].pc \in {"creating", "linking", "placing", "choosing", "writing", "telling"}
          /\ run[h].pc = "linking" => run'[h].pc # "placing"
          /\ run'[h].pc = "linking" => run[h].pc = "creating"
      BY <2>13, <3>1 DEF WriteSlot
    <3>3. QED
      BY <3>1, <3>2, KeptUnlinked
  <2>14. CASE RefuseSlot(h)
    <3>1. run'[h].pc = "choosing" /\ run'[h].job = run[h].job /\ run'[h].jobs = run[h].jobs
      BY <2>14, RefuseSlotEffect
    <3>2. /\ run[h].pc \in {"creating", "linking", "placing", "choosing", "writing", "telling"}
          /\ run[h].pc = "linking" => run'[h].pc # "placing"
          /\ run'[h].pc = "linking" => run[h].pc = "creating"
      BY <2>14, <3>1 DEF RefuseSlot
    <3>3. QED
      BY <3>1, <3>2, KeptUnlinked
  <2>15. CASE TellTeacher(h)
    <3>1. run'[h].pc = "placing" /\ run'[h].job = run[h].job /\ run'[h].jobs = run[h].jobs
      BY <2>15, TellTeacherEffect
    <3>2. /\ run[h].pc \in {"creating", "linking", "placing", "choosing", "writing", "telling"}
          /\ run[h].pc = "linking" => run'[h].pc # "placing"
          /\ run'[h].pc = "linking" => run[h].pc = "creating"
      BY <2>15, <3>1 DEF TellTeacher
    <3>3. QED
      BY <3>1, <3>2, KeptUnlinked
  <2>16. CASE FailToTell(h)
    <3>1. run'[h].pc = "choosing" /\ run'[h].job = run[h].job /\ run'[h].jobs = run[h].jobs
      BY <2>16, FailToTellEffect
    <3>2. /\ run[h].pc \in {"creating", "linking", "placing", "choosing", "writing", "telling"}
          /\ run[h].pc = "linking" => run'[h].pc # "placing"
          /\ run'[h].pc = "linking" => run[h].pc = "creating"
      BY <2>16, <3>1 DEF FailToTell
    <3>3. QED
      BY <3>1, <3>2, KeptUnlinked
  <2>17. CASE EndRun(h)
    BY <2>17, EndRunEffect DEF UnlinkedFor
  <2>18. CASE Crash(h)
    BY <2>18, CrashEffect DEF UnlinkedFor
  <2>19. QED
    BY <1>2, <2>1, <2>2, <2>3, <2>4, <2>5, <2>6, <2>7, <2>8, <2>9, <2>10, <2>11, <2>12, <2>13,
       <2>14, <2>15, <2>16, <2>17, <2>18 DEF RunStep
<1>3. QED
  BY <1>1, <1>2, RunMoves

\* Two sessions of old stay apart.
LEMMA KeptApart ==
    ASSUME TypeOK, JobsKnown, CoursesKnown, [Next]_vars,
           NEW x \in slots, NEW y \in slots, Apart(x, y)
    PROVE  Apart(x, y)'
<1>1. \A z \in slots : z.course \in Present /\ madeFor[z.course] \in Requirements
  BY DEF CoursesKnown, SessionKnown, MadeWell, Present
<1>2. \A z \in slots : madeFor'[z.course] = madeFor[z.course]
  BY <1>1, PresentStays
<1>3. \A q \in Requirements : (state[q] = "deleted" => state'[q] = "deleted") /\ (crossed =>
    crossed')
  BY StateStays, HistoryStays DEF StateKept
<1>4. QED
  BY <1>1, <1>2, <1>3 DEF Apart

\* A run writes a session apart from those there are.
LEMMA NewApart ==
    ASSUME TypeOK, JobsKnown, CoursesKnown, ClassFree,
           NEW g \in Runs, WriteSlot(g), NEW x \in slots', x \notin slots, NEW y \in slots
    PROVE  Apart(x, y)' /\ Apart(y, x)'
<1>1. /\ x.course = run[g].course /\ x.time = run[g].time /\ run[g].pc = "writing"
      /\ ~TeacherBusy(course[run[g].course].teacher, run[g].time)
      /\ crossed' = crossed /\ state' = state /\ madeFor' = madeFor
  BY DEF WriteSlot, history
<1>2. FreeFor(g, y)
  BY DEF ClassFree
<1>3. JobKnown(g)
  BY DEF JobsKnown
<1>4. madeFor[run[g].course] = run[g].job
  BY <1>1, <1>3 DEF JobKnown, HasJob, ServesJob, Serves, AtWork
<1>5. y.time = run[g].time => y.course # run[g].course
  BY <1>1 DEF TeacherBusy
<1>6. QED
  BY <1>1, <1>2, <1>4, <1>5 DEF FreeFor, Apart, Trying

\* Sessions stay apart.
LEMMA ApartStep ==
    ASSUME TypeOK, JobsKnown, CoursesKnown, ClassFree, [Next]_vars,
           \A x, y \in slots : Apart(x, y)
    PROVE  \A x, y \in slots' : Apart(x, y)'
<1> SUFFICES ASSUME NEW x \in slots', NEW y \in slots'
             PROVE  Apart(x, y)'
  OBVIOUS
<1>1. CASE slots' \subseteq slots
  BY <1>1, KeptApart
<1>2. ASSUME NEW c \in Courses, NEW t \in Times, NEW room \in Rooms, AddByHand(c, t, room)
      PROVE  Apart(x, y)'
  <2>1. x \in slots \/ ~x.byRun
    BY <1>2 DEF AddByHand
  <2>2. y \in slots \/ ~y.byRun
    BY <1>2 DEF AddByHand
  <2>3. x \in slots /\ y \in slots => Apart(x, y)'
    BY KeptApart
  <2>4. QED
    BY <2>1, <2>2, <2>3 DEF Apart
<1>3. ASSUME NEW g \in Runs, WriteSlot(g)
      PROVE  Apart(x, y)'
  <2>1. x \notin slots /\ y \notin slots => x = y
    BY <1>3 DEF WriteSlot
  <2>2. x \in slots /\ y \in slots => Apart(x, y)'
    BY KeptApart
  <2>3. x \notin slots /\ y \in slots => Apart(x, y)'
    BY <1>3, NewApart
  <2>4. x \in slots /\ y \notin slots => Apart(x, y)'
    BY <1>3, NewApart
  <2>5. x = y => Apart(x, y)'
    BY DEF Apart
  <2>6. QED
    BY <2>1, <2>2, <2>3, <2>4, <2>5
<1>4. QED
  BY <1>1, <1>2, <1>3, SlotsGrow

\* A run goes on linking its course, or links it, or fails to, or dies.
LEMMA LinkGoes ==
    ASSUME TypeOK, [Next]_vars, NEW h \in Runs, run[h].pc = "linking"
    PROVE  (run'[h].pc = "linking" /\ run'[h].course = run[h].course)
           \/ LinkCourse(h) \/ FailToLink(h) \/ Crash(h)
<1>1. CASE Same(run'[h], run[h])
  BY <1>1 DEF Same
<1>2. ASSUME RunStep(h)
      PROVE  (run'[h].pc = "linking" /\ run'[h].course = run[h].course)
           \/ LinkCourse(h) \/ FailToLink(h) \/ Crash(h)
  <2>1. CASE Start(h)
    BY <2>1 DEF Start
  <2>2. ASSUME NEW r \in Requirements, SkipJob(h, r)
        PROVE  (run'[h].pc = "linking" /\ run'[h].course = run[h].course)
           \/ LinkCourse(h) \/ FailToLink(h) \/ Crash(h)
    BY <2>2 DEF SkipJob, IsNext
  <2>3. ASSUME NEW r \in Requirements, BeginJob(h, r)
        PROVE  (run'[h].pc = "linking" /\ run'[h].course = run[h].course)
           \/ LinkCourse(h) \/ FailToLink(h) \/ Crash(h)
    BY <2>3 DEF BeginJob, IsNext
  <2>4. ASSUME NEW c \in Courses, CreateCourse(h, c)
        PROVE  (run'[h].pc = "linking" /\ run'[h].course = run[h].course)
           \/ LinkCourse(h) \/ FailToLink(h) \/ Crash(h)
    BY <2>4 DEF CreateCourse
  <2>5. CASE RefuseCourse(h)
    BY <2>5 DEF RefuseCourse
  <2>6. CASE LinkCourse(h)
    BY <2>6
  <2>7. CASE FailToLink(h)
    BY <2>7
  <2>8. CASE EndJob(h)
    BY <2>8 DEF EndJob
  <2>9. CASE SkipTime(h)
    BY <2>9 DEF SkipTime
  <2>10. CASE TakeTime(h)
    BY <2>10 DEF TakeTime
  <2>11. CASE LeaveTime(h)
    BY <2>11 DEF LeaveTime
  <2>12. ASSUME NEW room \in Rooms, CheckRoom(h, room)
        PROVE  (run'[h].pc = "linking" /\ run'[h].course = run[h].course)
           \/ LinkCourse(h) \/ FailToLink(h) \/ Crash(h)
    BY <2>12 DEF CheckRoom
  <2>13. CASE WriteSlot(h)
    BY <2>13 DEF WriteSlot
  <2>14. CASE RefuseSlot(h)
    BY <2>14 DEF RefuseSlot
  <2>15. CASE TellTeacher(h)
    BY <2>15 DEF TellTeacher
  <2>16. CASE FailToTell(h)
    BY <2>16 DEF FailToTell
  <2>17. CASE EndRun(h)
    BY <2>17 DEF EndRun
  <2>18. CASE Crash(h)
    BY <2>18
  <2>19. QED
    BY <1>2, <2>1, <2>2, <2>3, <2>4, <2>5, <2>6, <2>7, <2>8, <2>9, <2>10, <2>11, <2>12, <2>13,
       <2>14, <2>15, <2>16, <2>17, <2>18 DEF RunStep
<1>3. QED
  BY <1>1, <1>2, RunMoves

\* A link that the constraint refuses has a cause.
LEMMA LinkRefused ==
    ASSUME TypeOK, JobsKnown, NothingLinked, NEW g \in Runs, FailToLink(g),
           ~MayLink(run[g].job)
    PROVE  crossed \/ state[run[g].job] = "deleted"
<1>1. run[g].job \in Requirements
  BY DEF JobsKnown, JobKnown, HasJob, FailToLink
<1>2. UnlinkedFor(g, run[g].job)
  BY <1>1 DEF NothingLinked
<1>3. ~MayLink(run[g].job) /\ run[g].pc = "linking"
  BY DEF FailToLink
<1>4. Unserved(run[g].job) => state[run[g].job] = "deleted"
  BY <1>3 DEF Unserved, MayLink, LinkedTo, Present
<1>5. QED
  BY <1>2, <1>3, <1>4 DEF UnlinkedFor

\* A new course is one that its run is about to link.
LEMMA NewCourse ==
    ASSUME TypeOK, JobsKnown, [Next]_vars, NEW d \in Courses, d \notin Present, d \in Present'
    PROVE  \E g \in Runs : run'[g].pc = "linking" /\ run'[g].course = d
<1>0. \A k \in Runs : JobKnown(k)
  BY DEF JobsKnown
<1>1. ASSUME NEW r \in Requirements, CreateRequirement(r)
      PROVE  \E g \in Runs : run'[g].pc = "linking" /\ run'[g].course = d
  BY <1>1 DEF CreateRequirement, Present
<1>2. ASSUME NEW r \in Requirements, DeleteRequirement(r)
      PROVE  \E g \in Runs : run'[g].pc = "linking" /\ run'[g].course = d
  BY <1>2 DEF DeleteRequirement, LinkedTo, Present
<1>3. ASSUME NEW r \in Requirements, NEW teacher \in Teachers \cup {None}, Assign(r, teacher)
      PROVE  \E g \in Runs : run'[g].pc = "linking" /\ run'[g].course = d
  BY <1>3 DEF Assign, Present
<1>4. ASSUME NEW c \in Courses, NEW t \in Times, NEW room \in Rooms, AddByHand(c, t, room)
      PROVE  \E g \in Runs : run'[g].pc = "linking" /\ run'[g].course = d
  BY <1>4 DEF AddByHand, Present
<1>5. ASSUME NEW x \in slots, DeleteSlot(x)
      PROVE  \E g \in Runs : run'[g].pc = "linking" /\ run'[g].course = d
  BY <1>5 DEF DeleteSlot, Present
<1>6. ASSUME NEW g \in Runs, NEW c \in Courses, CreateCourse(g, c)
      PROVE  \E i \in Runs : run'[i].pc = "linking" /\ run'[i].course = d
  <2>1. d = c
    BY <1>6 DEF CreateCourse, Present
  <2>2. QED
    BY <1>6, <2>1, CreateCourseEffect
<1>7. ASSUME NEW g \in Runs, LinkCourse(g)
      PROVE  \E i \in Runs : run'[i].pc = "linking" /\ run'[i].course = d
  <2>1. run[g].course \in Present
    BY <1>7, <1>0 DEF LinkCourse, JobKnown, LinksOne
  <2>2. QED
    BY <1>7, <2>1 DEF LinkCourse, Present, TypeOK
<1>8. ASSUME NEW g \in Runs, WriteSlot(g)
      PROVE  \E i \in Runs : run'[i].pc = "linking" /\ run'[i].course = d
  BY <1>8 DEF WriteSlot, Present
<1>9. CASE Quiet
  BY <1>9 DEF Quiet, rows, Present
<1>10. QED
  BY <1>1, <1>2, <1>3, <1>4, <1>5, <1>6, <1>7, <1>8, <1>9, RowKinds

\* A course that nobody knows has a cause.
LEMMA CausedStep ==
    ASSUME TypeOK, JobsKnown, CoursesKnown, NothingLinked, [Next]_vars,
           NEW d \in Courses, Caused(d)
    PROVE  Caused(d)'
<1> SUFFICES ASSUME d \in Present, d \in Present', course'[d].requirement = None
             PROVE  Caused(d)'
  BY NewCourse DEF Caused
<1>1. madeFor[d] \in Requirements /\ madeFor'[d] = madeFor[d]
  BY PresentStays DEF CoursesKnown, MadeWell
<1>2. /\ crossed => crossed'
      /\ orphaned \subseteq orphaned'
      /\ state[madeFor[d]] = "deleted" => state'[madeFor[d]] = "deleted"
  BY <1>1, HistoryStays, StateStays DEF StateKept
<1>3. CASE course[d].requirement # None
  <2>1. ASSUME NEW q \in Requirements, q = madeFor[d]
        PROVE  state'[q] = "deleted"
    <3>1. Serves(d, q)
      BY <1>3, <2>1 DEF CoursesKnown, MadeWell, Serves
    <3>2. Serves(d, q)'
      BY <3>1, ServesStep
    <3>3. QED
      BY <3>2, NoneAssumption DEF Serves
  <2>2. QED
    BY <1>1, <2>1 DEF Caused
<1>4. ASSUME NEW k \in Runs, run[k].pc = "linking", run[k].course = d
      PROVE  Caused(d)'
  <2>1. /\ run[k].job \in Requirements /\ madeFor[d] = run[k].job
        /\ course[d] \in Course
    BY <1>4 DEF JobsKnown, JobKnown, HasJob, LinksOne, Present, TypeOK
  <2>2. CASE run'[k].pc = "linking" /\ run'[k].course = d
    BY <2>2 DEF Caused
  <2>3. CASE LinkCourse(k)
    <3>1. course'[d] = [course[d] EXCEPT !.requirement = run[k].job]
      BY <1>4, <2>3 DEF LinkCourse, TypeOK
    <3>2. course'[d].requirement = run[k].job
      BY <2>1, <3>1 DEF Course
    <3>3. QED
      BY <2>1, <3>2, NoneAssumption
  <2>4. CASE FailToLink(k)
    <3>1. CASE MayLink(run[k].job)
      BY <1>4, <2>4, <3>1 DEF FailToLink, Caused
    <3>2. CASE ~MayLink(run[k].job)
      BY <1>1, <1>2, <2>1, <2>4, <3>2, LinkRefused DEF Caused
    <3>3. QED
      BY <3>1, <3>2
  <2>5. CASE Crash(k)
    BY <1>4, <2>5 DEF Crash, Caused
  <2>6. QED
    BY <1>4, <2>2, <2>3, <2>4, <2>5, LinkGoes
<1>5. QED
  BY <1>1, <1>2, <1>3, <1>4 DEF Caused

\* The parts of the invariant that speak of sessions and courses one by one.
LEMMA InvParts ==
    /\ ClassNeverTwice <=> \A x, y \in slots : Apart(x, y)
    /\ OrphansHaveACause <=> \A d \in Courses : Caused(d)
<1>1. ClassNeverTwice <=> \A x, y \in slots : Apart(x, y)
  BY DEF ClassNeverTwice, Apart
<1>2. OrphansHaveACause <=> \A d \in Courses : Caused(d)
  BY DEF OrphansHaveACause, Caused, Present
<1>3. QED
  BY <1>1, <1>2

-----------------------------------------------------------------------------
\* It holds at first.
LEMMA InitIInv == Init => IInv
<1> SUFFICES ASSUME Init PROVE IInv
  OBVIOUS
<1>1. run \in [Runs -> Run]
  BY IdleTyped DEF Init
<1>2. TypeOK
  <2>1. /\ state \in [Requirements -> {"absent", "present", "deleted"}]
        /\ course \in [Courses -> Course \cup {None}]
        /\ madeFor \in [Courses -> Requirements \cup {None}]
    BY DEF Init
  <2>2. starts \in 0 .. MaxStarts /\ edits \in 0 .. MaxEdits
    BY BoundAssumption DEF Init
  <2>3. QED
    BY <1>1, <2>1, <2>2 DEF Init, TypeOK
<1>3. \A g \in Runs : /\ run[g].pc = "idle" /\ run[g].job = None
                      /\ \A r \in Requirements : run[g].jobs[r] = None
  BY DEF Init, Idle
<1>4. IsFiniteSet(slots)
  BY FS_EmptySet DEF Init
<1>5. JobsKnown
  BY <1>3 DEF JobsKnown, JobKnown, HasJob, LinksOne, ServesJob, ServesRead, AtWork
<1>6. LinksApart /\ OneRun /\ PlacesKnown
  BY <1>3 DEF LinksApart, OneRun, PlacesKnown, PlaceKnown
<1>7. slots = {} /\ Present = {}
  BY DEF Init, Present
<1>8. CoursesKnown /\ ClassFree /\ ClassNeverTwice /\ OrphansHaveACause
  BY <1>7 DEF CoursesKnown, MadeWell, ClassFree, ClassNeverTwice, OrphansHaveACause
<1>9. NothingLinked
  BY <1>3 DEF NothingLinked, UnlinkedFor
<1>10. QED
  BY <1>2, <1>4, <1>5, <1>6, <1>8, <1>9 DEF IInv

\* Every step keeps it.
LEMMA NextIInv == IInv /\ [Next]_vars => IInv'
<1> SUFFICES ASSUME IInv, [Next]_vars PROVE IInv'
  OBVIOUS
<1> USE DEF IInv
<1>1. TypeOK' /\ IsFiniteSet(slots)'
  BY TypeStep
<1>2. JobsKnown'
  BY JobsStep
<1>3. LinksApart'
  BY LinksStep
<1>4. PlacesKnown'
  BY PlaceStep DEF PlacesKnown
<1>5. CoursesKnown'
  BY CoursesStep
<1>6. OneRun'
  BY OneRunStep
<1>7. ClassFree'
  BY ClassFreeStep
<1>8. NothingLinked'
  BY UnlinkedStep DEF NothingLinked
<1>9. ClassNeverTwice'
  <2>1. \A x, y \in slots : Apart(x, y)
    BY InvParts
  <2>2. \A x, y \in slots' : Apart(x, y)'
    BY <2>1, ApartStep
  <2>3. QED
    BY <2>2 DEF ClassNeverTwice, Apart
<1>10. OrphansHaveACause'
  <2>1. \A d \in Courses : Caused(d)
    BY InvParts
  <2>2. \A d \in Courses : Caused(d)'
    BY <2>1, CausedStep
  <2>3. QED
    BY <2>2 DEF OrphansHaveACause, Caused, Present
<1>11. QED
  BY <1>1, <1>2, <1>3, <1>4, <1>5, <1>6, <1>7, <1>8, <1>9, <1>10

\* The strengthening holds throughout.
THEOREM GenerationInductive == Spec => []IInv
BY InitIInv, NextIInv, PTL DEF Spec

\* Requirements, courses, sessions, runs and bounds keep their types; a run
\* that goes from time to time stays in its week.
THEOREM TypeCorrect == Spec => []TypeOK
<1>1. IInv => TypeOK
  BY DEF IInv
<1>2. QED
  BY GenerationInductive, <1>1, PTL

\* The generation gives a class two sessions at one time only if two runs
\* crossed or a requirement was deleted.
THEOREM ClassesApart == Spec => []ClassNeverTwice
<1>1. IInv => ClassNeverTwice
  BY DEF IInv
<1>2. QED
  BY GenerationInductive, <1>1, PTL

\* A published course that no requirement knows is about to be linked, or its
\* run died or failed at the link, or two runs crossed, or its requirement was
\* deleted.
THEOREM OrphansCaused == Spec => []OrphansHaveACause
<1>1. IInv => OrphansHaveACause
  BY DEF IInv
<1>2. QED
  BY GenerationInductive, <1>1, PTL
=============================================================================
