----------------------------- MODULE Timetable -----------------------------
(***************************************************************************)
(* The weekly timetables of several schools that share teachers:           *)
(* createCourseSlot, updateCourseSlot, deleteCourseSlot and updateCourse   *)
(* of SchoolService (src/backend/src/modules/school/school.service.ts),    *)
(* isTeacherFree of TeacherAvailabilityService, and the constraint         *)
(* no_teacher_double_booking of the database.                              *)
(*                                                                         *)
(* No operation opens a transaction: each statement is a step, and what    *)
(* one statement has checked may have changed when the next one writes.    *)
(* ScheduleGenerationService places sessions through createCourseSlot, so  *)
(* a generation is one more editor here.  A refusal for a reason that no   *)
(* property speaks of (a declared unavailability, a travel time, a teacher *)
(* not assigned, an error) is Refuse, possible at any time.                *)
(***************************************************************************)
EXTENDS Naturals, FiniteSets

CONSTANTS
    Courses,    \* courses of all schools
    SchoolOf,   \* the school of a course
    Teachers,
    Rooms,      \* names of rooms; a school's room is its own
    Days,
    Hours,      \* times of the day
    Given,      \* the sets of fields that an update may give
    Slots,      \* CourseSlot rows that may come to exist
    Requests,   \* operations that may run at once
    Crashes,    \* TRUE: the server may die, or lose the database, between two statements
    Fresh,      \* a row that does not exist yet
    Gone,       \* a row that was deleted; identifiers are not used again
    Nothing     \* "no row": a request that creates one

Fields  == {"day", "from", "to", "room"}
Columns == [course : Courses, teacher : Teachers, day : Days, from : Hours, to : Hours,
            room : Rooms]

ASSUME InputsAssumption == Hours \subseteq Nat /\ Given \subseteq SUBSET Fields
ASSUME RowsAssumption ==
    /\ Nothing \notin Slots
    /\ Fresh # Gone
    /\ {Fresh, Gone} \cap Columns = {}
    /\ Crashes \in BOOLEAN

VARIABLES
    teacherOf,  \* Course.teacherId
    slot,       \* the CourseSlot rows, each with its own copy of teacherId
    req,        \* per request: what it has read and what it will write
    adrift,     \* courses whose change of teacher stopped half-way, or crossed a
                \* request that had read the former one, and not set straight since
    blind       \* {p, q}: p or q was written without seeing the other as it is;
                \* {q}: q was, without seeing what it was itself

history == <<adrift, blind>>
vars == <<teacherOf, slot, req, history>>

-----------------------------------------------------------------------------
\* The range of the exclusion constraint refuses an end before the start.
Row == {w \in Columns : w.from <= w.to}

Idle      == [pc |-> "idle"]
BegunReq  == [pc : {"begun"}, course : Courses, teacher : Teachers]
\* unseen: the sessions of the school written since the request read them.
SlotReq   == [pc : {"asked", "roomFree", "teacherFree"}, course : Courses, teacher : Teachers,
              slot : Slots \cup {Nothing}, dto : SUBSET Fields,
              day : Days, from : Hours, to : Hours, room : Rooms, unseen : SUBSET Slots]
CourseReq == [pc : {"read", "moved"}, course : Courses, teacher : Teachers, new : Teachers]

TypeOK ==
    /\ teacherOf \in [Courses -> Teachers]
    /\ slot \in [Slots -> Row \cup {Fresh, Gone}]
    /\ req \in [Requests -> {Idle} \cup BegunReq \cup SlotReq \cup CourseReq]
    /\ adrift \subseteq Courses
    /\ blind \subseteq SUBSET Slots

Init ==
    /\ teacherOf \in [Courses -> Teachers]
    /\ slot = [q \in Slots |-> Fresh]
    /\ req = [r \in Requests |-> Idle]
    /\ adrift = {} /\ blind = {}

Booked(rows) == {q \in Slots : rows[q] \notin {Fresh, Gone}}

\* Strings "HH:mm" compare as times.
Overlap(t, u) == t.day = u.day /\ t.from < u.to /\ u.from < t.to

\* An empty range overlaps none.
RangesOverlap(t, u) == Overlap(t, u) /\ t.from < t.to /\ u.from < u.to

\* Variant of TeacherExcluded that looks at one school at a time.
ExcludedInSchool(rows) ==
    \A p, q \in Booked(rows) :
        /\ p # q /\ rows[p].teacher = rows[q].teacher
        /\ SchoolOf[rows[p].course] = SchoolOf[rows[q].course]
        => ~RangesOverlap(rows[p], rows[q])

\* no_teacher_double_booking: over all schools.
TeacherExcluded(rows) ==
    \A p, q \in Booked(rows) :
        p # q /\ rows[p].teacher = rows[q].teacher => ~RangesOverlap(rows[p], rows[q])

\* The constraints that a statement must leave satisfied; int4range refuses a
\* lower bound above the upper one.
Constraints(rows) ==
    /\ \A q \in Booked(rows) : rows[q].from <= rows[q].to
    /\ TeacherExcluded(rows)
    /\ \A p, q \in Booked(rows) :
          /\ p # q
          /\ rows[p].course = rows[q].course /\ rows[p].room = rows[q].room
          => <<rows[p].day, rows[p].from, rows[p].to>> # <<rows[q].day, rows[q].from, rows[q].to>>

Ends(r) == req' = [req EXCEPT ![r] = Idle]

-----------------------------------------------------------------------------
(* Slots *)

Checking == {"asked", "roomFree", "teacherFree"}

\* createCourseSlot: ensureSchoolCourse reads the course with its teacher, and
\* the times are asserted.
BeginCreate(r, c, day, from, to, room) ==
    /\ req[r] = Idle
    /\ from < to
    /\ req' = [req EXCEPT ![r] =
                  [pc |-> "asked", course |-> c, teacher |-> teacherOf[c], slot |-> Nothing,
                   dto |-> Fields, day |-> day, from |-> from, to |-> to, room |-> room,
                   unseen |-> {}]]
    /\ UNCHANGED <<teacherOf, slot, history>>

\* updateCourseSlot: ensureSchoolCourse.
BeginUpdate(r, c) ==
    /\ req[r] = Idle
    /\ req' = [req EXCEPT ![r] = [pc |-> "begun", course |-> c, teacher |-> teacherOf[c]]]
    /\ UNCHANGED <<teacherOf, slot, history>>

\* Variant of LastsLongEnough that looks at the times given only.
GivenLastsLongEnough(dto, from, to) == {"from", "to"} \subseteq dto => from < to

\* assertSlotTimes of the candidate.
LastsLongEnough(dto, from, to) == from < to

\* The slot is read; what the request does not give is taken from it for the
\* checks, and not written later.
ReadSlot(r, q, dto, day, from, to, room) ==
    /\ req[r].pc = "begun"
    /\ q \in Booked(slot)
    /\ slot[q].course = req[r].course
    /\ "day" \in dto \/ day = slot[q].day
    /\ "from" \in dto \/ from = slot[q].from
    /\ "to" \in dto \/ to = slot[q].to
    /\ "room" \in dto \/ room = slot[q].room
    /\ LastsLongEnough(dto, from, to)
    /\ req' = [req EXCEPT ![r] =
                  [pc |-> "asked", course |-> req[r].course, teacher |-> req[r].teacher,
                   slot |-> q, dto |-> dto, day |-> day, from |-> from, to |-> to,
                   room |-> room, unseen |-> {}]]
    /\ UNCHANGED <<teacherOf, slot, history>>

\* Variant of RoomTaken that compares the starts of the two sessions only.
RoomTakenAtStart(r) ==
    \E q \in Booked(slot) \ {req[r].slot} :
        /\ SchoolOf[slot[q].course] = SchoolOf[req[r].course]
        /\ slot[q].room = req[r].room
        /\ slot[q].day = req[r].day /\ slot[q].from = req[r].from

\* ensureNoRoomConflict: another session of the school in that room.
RoomTaken(r) ==
    \E q \in Booked(slot) \ {req[r].slot} :
        /\ SchoolOf[slot[q].course] = SchoolOf[req[r].course]
        /\ slot[q].room = req[r].room
        /\ Overlap(slot[q], req[r])

\* All sessions are seen as they are now, but the request's own is as it was read.
CheckRoom(r) ==
    /\ req[r].pc = "asked"
    /\ ~RoomTaken(r)
    /\ req' = [req EXCEPT ![r].pc = "roomFree", ![r].unseen = @ \cap {req[r].slot}]
    /\ UNCHANGED <<teacherOf, slot, history>>

\* isTeacherFree, for the teacher that was read with the course.
CheckTeacher(r) ==
    /\ req[r].pc = "roomFree"
    /\ \A q \in Booked(slot) \ {req[r].slot} :
           slot[q].teacher = req[r].teacher => ~Overlap(slot[q], req[r])
    /\ req' = [req EXCEPT ![r].pc = "teacherFree"]
    /\ UNCHANGED <<teacherOf, slot, history>>

\* The row q gets its new content, if the database allows; what r had not seen
\* stays unseen in the row, and the row is news to the others of the school.
Write(r, q, row) ==
    /\ slot' = [slot EXCEPT ![q] = row]
    /\ Constraints(slot')
    /\ blind' = {pair \in blind : q \notin pair} \cup {{p, q} : p \in req[r].unseen}
    /\ req' = [s \in Requests |->
                  IF s = r THEN Idle
                  ELSE IF req[s].pc \in Checking /\ SchoolOf[req[s].course] = SchoolOf[row.course]
                  THEN [req[s] EXCEPT !.unseen = @ \cup {q}]
                  ELSE req[s]]
    /\ UNCHANGED <<teacherOf, adrift>>

\* courseSlot.create.
CreateSlot(r, q) ==
    /\ req[r].pc = "teacherFree"
    /\ req[r].slot = Nothing
    /\ slot[q] = Fresh
    /\ Write(r, q, [course |-> req[r].course, teacher |-> req[r].teacher, day |-> req[r].day,
                    from |-> req[r].from, to |-> req[r].to, room |-> req[r].room])

\* courseSlot.update: only the fields given, and never the teacher.
UpdateSlot(r) ==
    LET q   == req[r].slot
        dto == req[r].dto
        old == slot[q]
    IN
    /\ req[r].pc = "teacherFree"
    /\ q \in Booked(slot)
    /\ Write(r, q, [course |-> old.course, teacher |-> old.teacher,
                    day  |-> IF "day"  \in dto THEN req[r].day  ELSE old.day,
                    from |-> IF "from" \in dto THEN req[r].from ELSE old.from,
                    to   |-> IF "to"   \in dto THEN req[r].to   ELSE old.to,
                    room |-> IF "room" \in dto THEN req[r].room ELSE old.room])

\* deleteCourseSlot: what it reads never changes while the row exists.
DeleteSlot(q) ==
    /\ q \in Booked(slot)
    /\ slot' = [slot EXCEPT ![q] = Gone]
    /\ blind' = {pair \in blind : q \notin pair}
    /\ UNCHANGED <<teacherOf, req, adrift>>

-----------------------------------------------------------------------------
(* updateCourse *)

\* The course is read; a request that gives no teacher writes back the one read.
BeginUpdateCourse(r, c, new) ==
    /\ req[r] = Idle
    /\ req' = [req EXCEPT ![r] = [pc |-> "read", course |-> c, teacher |-> teacherOf[c],
                                  new |-> new]]
    /\ UNCHANGED <<teacherOf, slot, history>>

\* The requests on the course of r that will write a teacher they have read or
\* were given: creations of a slot and other changes of the course.
Rivals(r) ==
    {s \in Requests \ {r} :
        /\ req[s].pc \in Checking \cup {"read", "moved"}
        /\ req[s].course = req[r].course
        /\ req[s].pc \in Checking => req[s].slot = Nothing}

\* course.update; the slots follow in a statement of their own, when the
\* teacher is not the one that was read.
UpdateCourse(r) ==
    LET c == req[r].course IN
    /\ req[r].pc = "read"
    /\ teacherOf' = [teacherOf EXCEPT ![c] = req[r].new]
    /\ adrift' = IF req[r].new # teacherOf[c] /\ Rivals(r) # {} THEN adrift \cup {c} ELSE adrift
    /\ IF req[r].new = req[r].teacher THEN Ends(r) ELSE req' = [req EXCEPT ![r].pc = "moved"]
    /\ UNCHANGED <<slot, blind>>

\* The rows with those of the request's course given to its new teacher.
Moved(r) ==
    [q \in Slots |->
        IF q \in Booked(slot) /\ slot[q].course = req[r].course
        THEN [slot[q] EXCEPT !.teacher = req[r].new]
        ELSE slot[q]]

\* Variant of MoveSlots that forgets the slots.
MoveNoSlots(r) ==
    /\ req[r].pc = "moved"
    /\ adrift' = adrift \ {req[r].course}
    /\ Ends(r)
    /\ UNCHANGED <<teacherOf, slot, blind>>

\* courseSlot.updateMany.  It sets the course straight if the teacher is still
\* the one given and nobody else is about to write another.
MoveSlots(r) ==
    LET c == req[r].course IN
    /\ req[r].pc = "moved"
    /\ Constraints(Moved(r))
    /\ slot' = Moved(r)
    /\ adrift' = IF teacherOf[c] = req[r].new /\ Rivals(r) = {} THEN adrift \ {c} ELSE adrift
    /\ Ends(r)
    /\ UNCHANGED <<teacherOf, blind>>

\* The updateMany is refused by a constraint, or it fails or the server dies
\* before it: the course keeps its new teacher, its slots the old one.
LeaveSlots(r) ==
    /\ req[r].pc = "moved"
    /\ Crashes \/ ~Constraints(Moved(r))
    /\ adrift' = adrift \cup {req[r].course}
    /\ Ends(r)
    /\ UNCHANGED <<teacherOf, slot, blind>>

\* Any refusal or crash before something is written.
Refuse(r) ==
    /\ req[r].pc \in Checking \cup {"begun", "read"}
    /\ Ends(r)
    /\ UNCHANGED <<teacherOf, slot, history>>

-----------------------------------------------------------------------------
SlotStep(r) ==
    \/ \E c \in Courses, day \in Days, from, to \in Hours, room \in Rooms :
           BeginCreate(r, c, day, from, to, room)
    \/ \E c \in Courses : BeginUpdate(r, c)
    \/ \E q \in Slots, dto \in Given, day \in Days, from, to \in Hours, room \in Rooms :
           ReadSlot(r, q, dto, day, from, to, room)
    \/ CheckRoom(r)
    \/ CheckTeacher(r)
    \/ \E q \in Slots : CreateSlot(r, q)
    \/ UpdateSlot(r)

CourseStep(r) ==
    \/ \E c \in Courses, new \in Teachers : BeginUpdateCourse(r, c, new)
    \/ UpdateCourse(r)
    \/ MoveSlots(r)
    \/ LeaveSlots(r)

Next ==
    \/ \E r \in Requests : SlotStep(r) \/ CourseStep(r) \/ Refuse(r)
    \/ \E q \in Slots : DeleteSlot(q)

Spec == Init /\ [][Next]_vars

-----------------------------------------------------------------------------
(* Properties *)

SameRoom(p, q) ==
    /\ SchoolOf[slot[p].course] = SchoolOf[slot[q].course]
    /\ slot[p].room = slot[q].room

\* ADR-001: the controls must "empecher deux creneaux qui se chevauchent dans
\* une meme salle".
RoomNeverShared ==
    \A p, q \in Booked(slot) :
        p # q /\ SameRoom(p, q) => ~RangesOverlap(slot[p], slot[q])

\* What the control of rooms does achieve, however many requests edit at once:
\* two sessions share a room only if one of them was written without seeing the
\* other, or from checks of a row that had changed.
RoomsSharedUnseen ==
    \A p, q \in Booked(slot) :
        p # q /\ SameRoom(p, q) /\ RangesOverlap(slot[p], slot[q])
        => {{p, q}, {p}, {q}} \cap blind # {}

\* assertSlotTimes: "L'heure de fin doit etre posterieure a l'heure de debut".
\* A session without length comes only of an update of a row that another had
\* rewritten after it was read (one gives the start, the other the end).
SessionsHaveLength ==
    \A q \in Booked(slot) : slot[q].from < slot[q].to \/ {q} \in blind

\* Courses whose sessions are about to follow a change of teacher.
Moving == {req[r].course : r \in {s \in Requests : req[s].pc = "moved"}}

\* A row of CourseSlot has the teacher of its course, however many requests edit
\* at once, but for a course whose change of teacher is about to end, stopped
\* half-way, or crossed a request that had read the former one.
RowsFollowCourse ==
    \A q \in Booked(slot) :
        \/ slot[q].teacher = teacherOf[slot[q].course]
        \/ slot[q].course \in adrift \cup Moving

\* The timetable shows the teacher of the course (getSchedule), over all
\* schools: two overlapping sessions show the same one only where a change of
\* teacher stopped half-way, is about to end, or crossed another request.
ShownTeacherIsFree ==
    \A p, q \in Booked(slot) :
        LET c == slot[p].course
            d == slot[q].course
        IN
        p # q /\ teacherOf[c] = teacherOf[d] /\ RangesOverlap(slot[p], slot[q])
        => {c, d} \cap (adrift \cup Moving) # {}

-----------------------------------------------------------------------------
(* The inductive invariant behind them *)

\* The teacher that a request will write is that of the course, but where a
\* change crossed it.
TeachersRead ==
    \A r \in Requests :
        /\ req[r].pc \in Checking /\ req[r].slot = Nothing
           => req[r].teacher = teacherOf[req[r].course] \/ req[r].course \in adrift
        /\ req[r].pc = "read"
           => req[r].teacher = teacherOf[req[r].course] \/ req[r].course \in adrift
        /\ req[r].pc = "moved"
           => req[r].new = teacherOf[req[r].course] \/ req[r].course \in adrift

\* What a request has checked holds of all it has seen: its times, the row it
\* was read from, and the room.
ChecksStillHold ==
    \A r \in Requests : req[r].pc \in Checking =>
        /\ req[r].from < req[r].to
        /\ LET q == req[r].slot IN
           IF q = Nothing THEN req[r].dto = Fields
           ELSE /\ slot[q] # Fresh
                /\ q \in Booked(slot) /\ q \notin req[r].unseen =>
                      /\ slot[q].course = req[r].course
                      /\ "day" \in req[r].dto \/ req[r].day = slot[q].day
                      /\ "from" \in req[r].dto \/ req[r].from = slot[q].from
                      /\ "to" \in req[r].dto \/ req[r].to = slot[q].to
                      /\ "room" \in req[r].dto \/ req[r].room = slot[q].room
        /\ req[r].pc # "asked" =>
              \A p \in Booked(slot) \ ({req[r].slot} \cup req[r].unseen) :
                  /\ SchoolOf[slot[p].course] = SchoolOf[req[r].course]
                  /\ slot[p].room = req[r].room
                  => ~Overlap(slot[p], req[r])

IInv ==
    /\ TypeOK
    /\ Constraints(slot)
    /\ RoomsSharedUnseen
    /\ SessionsHaveLength
    /\ RowsFollowCourse
    /\ TeachersRead
    /\ ChecksStillHold
=============================================================================
