----------------------------- MODULE Generation -----------------------------
(***************************************************************************)
(* The generation of a school's week: generate of                          *)
(* ScheduleGenerationService                                               *)
(* (src/backend/src/modules/school/schedule-generation.service.ts), with   *)
(* the courses and sessions it has SchoolService create and the edits of   *)
(* the requirements in SchedulingService (scheduling.service.ts).          *)
(*                                                                         *)
(* A run reads the requirements once, then works through them statement by *)
(* statement, without a transaction.  Two runs may overlap and any may     *)
(* die.  The hours of a time slot, the names of rooms and the length of a  *)
(* session are not modelled: times follow each other, do not overlap, and  *)
(* a requirement asks for a number of sessions.  The history variables say *)
(* what went wrong so far; no action reads them.                           *)
(***************************************************************************)
EXTENDS Naturals, FiniteSets

CONSTANTS
    Requirements,   \* SubjectRequirement rows that may come to exist
    Classes,
    ClassOf,        \* the class of a requirement
    Need,           \* sessionsNeededFor(hoursPerWeek)
    Teachers,
    Away,           \* declared unavailabilities: teacher and time
    LastTime,       \* active time slots of the week
    Rooms,          \* active rooms
    Courses,        \* Course rows that may come to exist
    Runs,           \* generations that may be under way at once
    MaxStarts,      \* bound on the runs started
    MaxEdits,       \* bound on the edits by hand
    None

ASSUME RequirementAssumption ==
    /\ ClassOf \in [Requirements -> Classes]
    /\ Need \in [Requirements -> Nat \ {0}]
ASSUME BoundAssumption == MaxStarts \in Nat /\ MaxEdits \in Nat
ASSUME WeekAssumption == LastTime \in Nat /\ Away \subseteq Teachers \X (1 .. LastTime)
ASSUME NoneAssumption ==
    /\ None \notin Teachers /\ None \notin Courses /\ None \notin Requirements
    /\ None \notin [teacher : Teachers, requirement : Requirements \cup {None}]

VARIABLES
    state,      \* of a requirement: absent, present or deleted
    assigned,   \* TeacherAssignment of a requirement
    course,     \* Course: teacher and subjectRequirementId
    slots,      \* CourseSlot rows; byRun: written by a generation
    run,        \* generations under way
    madeFor,    \* the requirement a course was created for
    crossed,    \* two runs were under way at once
    orphaned,   \* courses whose run died, or failed for no fault of theirs, before the link
    untold,     \* requirements with a session whose notification, or answer, failed
    starts,     \* runs started, up to MaxStarts
    edits       \* edits by hand, up to MaxEdits

rows == <<state, assigned, course, slots>>
history == <<madeFor, crossed, orphaned, untold>>
counts == <<starts, edits>>
vars == <<state, assigned, course, slots, run, madeFor, crossed, orphaned, untold, starts, edits>>

-----------------------------------------------------------------------------
Times == 1 .. LastTime
Course == [teacher : Teachers, requirement : Requirements \cup {None}]
Slot == [course : Courses, time : Times, room : Rooms, byRun : BOOLEAN]

\* A requirement as a run has read it.
Job == [teacher : Teachers \cup {None}, course : Courses \cup {None}, sessions : Nat]

\* pc, the jobs not begun, the one at work with its teacher, course and
\* sessions to place, the time and the rooms left to try, and the room at
\* hand.  usedTeachers and usedRooms are the times this run has given away,
\* full the jobs reported without a free time.  steady: nobody else has
\* touched what the run works from, and no error was taken for a refusal.
Steps == {"idle", "next", "creating", "linking", "placing", "choosing", "writing", "telling"}
Run == [pc : Steps, jobs : [Requirements -> Job \cup {None}], job : Requirements \cup {None},
        teacher : Teachers \cup {None}, course : Courses \cup {None}, left : Nat,
        time : 0 .. LastTime + 1, rooms : SUBSET Rooms, room : Rooms \cup {None},
        usedTeachers : SUBSET (Teachers \X Times), usedRooms : SUBSET (Rooms \X Times),
        full : SUBSET Requirements, steady : BOOLEAN]

Idle == [pc |-> "idle", jobs |-> [r \in Requirements |-> None], job |-> None, teacher |-> None,
         course |-> None, left |-> 0, time |-> 0, rooms |-> {}, room |-> None,
         usedTeachers |-> {}, usedRooms |-> {}, full |-> {}, steady |-> TRUE]

TypeOK ==
    /\ state \in [Requirements -> {"absent", "present", "deleted"}]
    /\ assigned \in [Requirements -> Teachers \cup {None}]
    /\ course \in [Courses -> Course \cup {None}]
    /\ slots \subseteq Slot
    /\ run \in [Runs -> Run]
    /\ madeFor \in [Courses -> Requirements \cup {None}]
    /\ crossed \in BOOLEAN
    /\ orphaned \subseteq Courses /\ untold \subseteq Requirements
    /\ starts \in 0 .. MaxStarts /\ edits \in 0 .. MaxEdits

\* The requirements there are at first have their teacher.
Init ==
    /\ state \in [Requirements -> {"absent", "present"}]
    /\ assigned \in [Requirements -> Teachers \cup {None}]
    /\ \A r \in Requirements : state[r] = "absent" <=> assigned[r] = None
    /\ course = [c \in Courses |-> None]
    /\ slots = {}
    /\ run = [g \in Runs |-> Idle]
    /\ madeFor = [c \in Courses |-> None]
    /\ crossed = FALSE /\ orphaned = {} /\ untold = {}
    /\ starts = 0 /\ edits = 0

Present == {c \in Courses : course[c] # None}
LinkedTo(r) == {c \in Present : course[c].requirement = r}
SessionsOf(r) == {x \in slots : x.course \in LinkedTo(r)}
Underway == {g \in Runs : run[g].pc # "idle"}

\* A class has a session at a time, through the link of its courses.
IsClassBusy(class, t) ==
    \E x \in slots : /\ x.time = t
                     /\ course[x.course].requirement # None
                     /\ ClassOf[course[x.course].requirement] = class

RoomTaken(room, t) == \E x \in slots : x.time = t /\ x.room = room
TeacherBusy(teacher, t) == \E x \in slots : x.time = t /\ course[x.course].teacher = teacher
TeacherFree(teacher, t) == <<teacher, t>> \notin Away /\ ~TeacherBusy(teacher, t)

\* Whoever writes disturbs the runs but his own.
Disturbed(own) ==
    [g \in Runs |-> IF g \in own \/ run[g].pc = "idle" THEN run[g]
                    ELSE [run[g] EXCEPT !.steady = FALSE]]

-----------------------------------------------------------------------------
(* The school's edits *)

\* One more edit, during any run.
Edits ==
    /\ edits < MaxEdits
    /\ edits' = edits + 1
    /\ run' = Disturbed({})

CreateRequirement(r) ==
    /\ state[r] = "absent"
    /\ state' = [state EXCEPT ![r] = "present"]
    /\ Edits
    /\ UNCHANGED <<assigned, course, slots, history, starts>>

\* deleteRequirement, or deleteClass: the assignment goes with it, a course
\* loses its link and keeps its sessions.
DeleteRequirement(r) ==
    /\ state[r] = "present"
    /\ state' = [state EXCEPT ![r] = "deleted"]
    /\ assigned' = [assigned EXCEPT ![r] = None]
    /\ course' = [c \in Courses |-> IF c \in LinkedTo(r)
                                   THEN [course[c] EXCEPT !.requirement = None] ELSE course[c]]
    /\ Edits
    /\ UNCHANGED <<slots, history, starts>>

\* assignTeacher and unassignTeacher leave the course alone.
Assign(r, teacher) ==
    /\ state[r] = "present"
    /\ assigned[r] # teacher
    /\ assigned' = [assigned EXCEPT ![r] = teacher]
    /\ Edits
    /\ UNCHANGED <<state, course, slots, history, starts>>

\* createCourseSlot by hand (module Timetable has it in full).
AddByHand(c, t, room) ==
    /\ course[c] # None
    /\ TeacherFree(course[c].teacher, t) /\ ~RoomTaken(room, t)
    /\ slots' = slots \cup {[course |-> c, time |-> t, room |-> room, byRun |-> FALSE]}
    /\ Edits
    /\ UNCHANGED <<state, assigned, course, history, starts>>

DeleteSlot(x) ==
    /\ slots' = slots \ {x}
    /\ Edits
    /\ UNCHANGED <<state, assigned, course, history, starts>>

-----------------------------------------------------------------------------
(* A run, from job to job *)

\* The linked courses are taught by the teachers assigned.
Consistent ==
    \A c \in Present : LET r == course[c].requirement IN r # None => course[c].teacher = assigned[r]

\* Variant of Read that overlooks the course of a requirement.
ReadAlone(r) == [teacher |-> assigned[r], course |-> None, sessions |-> Cardinality(SessionsOf(r))]

Read(r) == [teacher |-> assigned[r],
            course |-> IF LinkedTo(r) = {} THEN None ELSE CHOOSE c \in LinkedTo(r) : TRUE,
            sessions |-> Cardinality(SessionsOf(r))]

Start(g) ==
    /\ run[g].pc = "idle"
    /\ starts < MaxStarts
    /\ starts' = starts + 1
    /\ run' = [Disturbed({}) EXCEPT ![g] =
                  [Idle EXCEPT !.pc = "next",
                               !.jobs = [r \in Requirements |->
                                           IF state[r] = "present" THEN Read(r) ELSE None],
                               !.steady = (Underway = {} /\ Consistent)]]
    /\ crossed' = (crossed \/ Underway # {})
    /\ UNCHANGED <<rows, madeFor, orphaned, untold, edits>>

\* The next job of a run is one of the heaviest left.
IsNext(g, r) ==
    /\ run[g].pc = "next"
    /\ run[g].jobs[r] # None
    /\ \A q \in Requirements : run[g].jobs[q] # None => Need[q] <= Need[r]

\* Variant of Missing that starts over at each run.
MissingFromScratch(g, r) == Need[r]

\* The sessions still to place; none for a job that is planned already.
Missing(g, r) ==
    IF run[g].jobs[r].sessions >= Need[r] THEN 0 ELSE Need[r] - run[g].jobs[r].sessions

\* No teacher is assigned, or every session is there.
SkipJob(g, r) ==
    /\ IsNext(g, r)
    /\ run[g].jobs[r].teacher = None \/ Missing(g, r) = 0
    /\ run' = [run EXCEPT ![g].jobs[r] = None]
    /\ UNCHANGED <<rows, history, counts>>

BeginJob(g, r) ==
    LET job == run[g].jobs[r] IN
    /\ IsNext(g, r)
    /\ job.teacher # None /\ Missing(g, r) > 0
    /\ run' = [run EXCEPT ![g] =
                  [@ EXCEPT !.pc = IF job.course = None THEN "creating" ELSE "placing",
                            !.jobs[r] = None, !.job = r, !.teacher = job.teacher,
                            !.course = job.course, !.left = Missing(g, r), !.time = 1]]
    /\ UNCHANGED <<rows, history, counts>>

\* What a run forgets at the end of a job.
Between(own) == [own EXCEPT !.pc = "next", !.job = None, !.teacher = None, !.course = None,
                           !.left = 0, !.time = 0, !.rooms = {}, !.room = None]

CreateCourse(g, c) ==
    /\ run[g].pc = "creating"
    /\ course[c] = None
    /\ course' = [course EXCEPT ![c] = [teacher |-> run[g].teacher, requirement |-> None]]
    /\ madeFor' = [madeFor EXCEPT ![c] = run[g].job]
    /\ run' = [Disturbed({g}) EXCEPT ![g].pc = "linking", ![g].course = c]
    /\ UNCHANGED <<state, assigned, slots, crossed, orphaned, untold, counts>>

\* createCourse refuses a teacher who left the school, or a closed program.
RefuseCourse(g) ==
    /\ run[g].pc = "creating"
    /\ run' = [run EXCEPT ![g] = Between(@)]
    /\ UNCHANGED <<rows, history, counts>>

\* The link is unique (courses_subjectRequirementId_key) and needs its row.
MayLink(r) == state[r] = "present" /\ LinkedTo(r) = {}

LinkCourse(g) ==
    /\ run[g].pc = "linking"
    /\ MayLink(run[g].job)
    /\ course' = [course EXCEPT ![run[g].course].requirement = run[g].job]
    /\ run' = [Disturbed({g}) EXCEPT ![g].pc = "placing"]
    /\ UNCHANGED <<state, assigned, slots, history, counts>>

\* Any exception of the update, the link refused or the database failing: the
\* job is reported as one whose course could not be created; the course stays,
\* published.
FailToLink(g) ==
    /\ run[g].pc = "linking"
    /\ run' = [run EXCEPT ![g] = Between(@)]
    /\ orphaned' = IF MayLink(run[g].job) THEN orphaned \cup {run[g].course} ELSE orphaned
    /\ UNCHANGED <<rows, madeFor, crossed, untold, counts>>

-----------------------------------------------------------------------------
(* The sessions of a job, from time to time and from room to room *)

\* Variant of More that goes one time too far.
OneMore(g) == run[g].left > 0 /\ run[g].time <= LastTime + 1

More(g) == run[g].left > 0 /\ run[g].time <= LastTime

\* A job with sessions left is reported.
Reported(own) == [own EXCEPT !.full = IF own.left > 0 THEN own.full \cup {own.job} ELSE own.full]

EndJob(g) ==
    /\ run[g].pc = "placing"
    /\ ~More(g)
    /\ run' = [run EXCEPT ![g] = Between(Reported(@))]
    /\ UNCHANGED <<rows, history, counts>>

\* Variants of Passes: the class is not asked for; the key has no time.
PassesForTeacher(g) == <<run[g].teacher, run[g].time>> \in run[g].usedTeachers
PassesForGood(g) ==
    \/ \E t \in Times : <<run[g].teacher, t>> \in run[g].usedTeachers
    \/ IsClassBusy(ClassOf[run[g].job], run[g].time)

\* The teacher was given this time in this run, or the class has a session.
Passes(g) ==
    \/ <<run[g].teacher, run[g].time>> \in run[g].usedTeachers
    \/ IsClassBusy(ClassOf[run[g].job], run[g].time)

SkipTime(g) ==
    /\ run[g].pc = "placing"
    /\ More(g)
    /\ Passes(g)
    /\ run' = [run EXCEPT ![g].time = @ + 1]
    /\ UNCHANGED <<rows, history, counts>>

\* The rooms to try: those this run has not used at the time.
RoomsToTry(g) == {room \in Rooms : <<room, run[g].time>> \notin run[g].usedRooms}

TakeTime(g) ==
    /\ run[g].pc = "placing"
    /\ More(g)
    /\ ~Passes(g)
    /\ run' = [run EXCEPT ![g].pc = "choosing", ![g].rooms = RoomsToTry(g)]
    /\ UNCHANGED <<rows, history, counts>>

LeaveTime(g) ==
    /\ run[g].pc = "choosing"
    /\ run[g].rooms = {}
    /\ run' = [run EXCEPT ![g].pc = "placing", ![g].time = @ + 1]
    /\ UNCHANGED <<rows, history, counts>>

\* createCourseSlot: ensureNoRoomConflict and isTeacherFree, taken as one read.
\* Whatever exception they end in, the run goes on to the next room: a conflict,
\* or an error of the reads.
CheckRoom(g, room) ==
    LET free == ~RoomTaken(room, run[g].time)
                /\ TeacherFree(course[run[g].course].teacher, run[g].time) IN
    /\ run[g].pc = "choosing"
    /\ room \in run[g].rooms
    /\ \/ free /\ run' = [run EXCEPT ![g].pc = "writing", ![g].room = room]
       \/ ~free /\ run' = [run EXCEPT ![g].rooms = @ \ {room}]
       \/ run' = [run EXCEPT ![g].rooms = @ \ {room}, ![g].steady = FALSE]
    /\ UNCHANGED <<rows, history, counts>>

\* The next room, after an exception, whether or not it was a refusal.
TryAnother(own, refused) ==
    [own EXCEPT !.pc = "choosing", !.rooms = @ \ {own.room}, !.room = None,
                !.steady = @ /\ refused]

WriteSlot(g) ==
    /\ run[g].pc = "writing"
    /\ ~TeacherBusy(course[run[g].course].teacher, run[g].time)
    /\ slots' = slots \cup {[course |-> run[g].course, time |-> run[g].time,
                            room |-> run[g].room, byRun |-> TRUE]}
    /\ run' = [Disturbed({g}) EXCEPT ![g].pc = "telling"]
    /\ UNCHANGED <<state, assigned, course, history, counts>>

\* No row is written: the exclusion constraint on the teacher, or any error of
\* the database.
RefuseSlot(g) ==
    /\ run[g].pc = "writing"
    /\ run' = [run EXCEPT ![g] =
                  TryAnother(@, TeacherBusy(course[run[g].course].teacher, run[g].time))]
    /\ UNCHANGED <<rows, history, counts>>

\* The session counts: its time is the teacher's and the room's.
Counted(own) ==
    [own EXCEPT !.pc = "placing", !.left = own.left - 1, !.time = own.time + 1,
                !.rooms = {}, !.room = None,
                !.usedTeachers = own.usedTeachers \cup {<<own.teacher, own.time>>},
                !.usedRooms = own.usedRooms \cup {<<own.room, own.time>>}]

\* notifyTeacherScheduleChange, then the run counts the session.
TellTeacher(g) ==
    /\ run[g].pc = "telling"
    /\ run' = [run EXCEPT ![g] = Counted(@)]
    /\ UNCHANGED <<rows, history, counts>>

\* The notification fails after the write, or the answer of the write is lost:
\* the run takes the session, which is there, for refused.
FailToTell(g) ==
    /\ run[g].pc = "telling"
    /\ run' = [run EXCEPT ![g] = TryAnother(@, TRUE)]
    /\ untold' = untold \cup {run[g].job}
    /\ UNCHANGED <<rows, madeFor, crossed, orphaned, counts>>

-----------------------------------------------------------------------------
EndRun(g) ==
    /\ run[g].pc = "next"
    /\ \A r \in Requirements : run[g].jobs[r] = None
    /\ run' = [run EXCEPT ![g] = Idle]
    /\ UNCHANGED <<rows, history, counts>>

\* The process dies, or an exception outside of the try blocks ends the run.
Crash(g) ==
    /\ run[g].pc # "idle"
    /\ run' = [run EXCEPT ![g] = Idle]
    /\ orphaned' = IF run[g].pc = "linking" THEN orphaned \cup {run[g].course} ELSE orphaned
    /\ UNCHANGED <<rows, madeFor, crossed, untold, counts>>

RunStep(g) ==
    \/ Start(g)
    \/ \E r \in Requirements : SkipJob(g, r) \/ BeginJob(g, r)
    \/ \E c \in Courses : CreateCourse(g, c)
    \/ RefuseCourse(g) \/ LinkCourse(g) \/ FailToLink(g)
    \/ EndJob(g) \/ SkipTime(g) \/ TakeTime(g) \/ LeaveTime(g)
    \/ \E room \in Rooms : CheckRoom(g, room)
    \/ WriteSlot(g) \/ RefuseSlot(g) \/ TellTeacher(g) \/ FailToTell(g)
    \/ EndRun(g) \/ Crash(g)

Edit ==
    \/ \E r \in Requirements : CreateRequirement(r) \/ DeleteRequirement(r)
    \/ \E r \in Requirements, teacher \in Teachers \cup {None} : Assign(r, teacher)
    \/ \E c \in Courses, t \in Times, room \in Rooms : AddByHand(c, t, room)
    \/ \E x \in slots : DeleteSlot(x)

Next == Edit \/ \E g \in Runs : RunStep(g)

Spec == Init /\ [][Next]_vars

-----------------------------------------------------------------------------
(* Properties *)

\* The generation gives a class two sessions at one time only if two runs
\* crossed, or a requirement was deleted: its course loses the link by which
\* isClassBusy knows the class, and keeps its sessions.
ClassNeverTwice ==
    \A x, y \in slots :
        /\ x # y /\ x.byRun /\ y.byRun /\ x.time = y.time
        /\ ClassOf[madeFor[x.course]] = ClassOf[madeFor[y.course]]
        => crossed \/ "deleted" \in {state[madeFor[x.course]], state[madeFor[y.course]]}

\* Run after run, the generation places no more sessions than a requirement
\* asks for, unless two runs crossed (each counts at its start) or a
\* notification failed after the session was written.
NeedNotExceeded ==
    \A r \in Requirements :
        crossed \/ r \in untold \/ Cardinality({x \in SessionsOf(r) : x.byRun}) <= Need[r]

\* A published course that no requirement knows is one that a run is about to
\* link, or whose run died before or failed at it, or two runs crossed, or its
\* requirement was deleted.
OrphansHaveACause ==
    \A c \in Present : course[c].requirement = None =>
        \/ \E g \in Runs : run[g].pc = "linking" /\ run[g].course = c
        \/ c \in orphaned
        \/ crossed
        \/ state[madeFor[c]] = "deleted"

\* A job that a run reports for want of a free time has none, provided that
\* nobody else wrote meanwhile, that the courses had the teachers assigned, and
\* that no error of the database was taken for a refusal.
UnresolvedIsReal ==
    \A g \in Runs : run[g].steady =>
        \A r \in run[g].full, t \in Times :
            \/ IsClassBusy(ClassOf[r], t)
            \/ ~TeacherFree(assigned[r], t)
            \/ \A room \in Rooms : RoomTaken(room, t)
=============================================================================
