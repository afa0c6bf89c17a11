-------------------------- MODULE TimetableProofs --------------------------
(***************************************************************************)
(* Proofs about Timetable, for any schools, courses, teachers, rooms,      *)
(* times and requests, and with crashes or without.                        *)
(***************************************************************************)
EXTENDS Timetable, TLAPS

\* What the step of a request tells of what it has read: checks belong to
\* slots, reads and moves to updateCourse.
LEMMA Shape ==
    ASSUME TypeOK, NEW r \in Requests
    PROVE  /\ req[r] \in {Idle} \cup BegunReq \cup SlotReq \cup CourseReq
           /\ req[r].pc \in Checking => req[r] \in SlotReq
           /\ req[r].pc = "begun" => req[r] \in BegunReq
           /\ req[r].pc \in {"read", "moved"} => req[r] \in CourseReq
BY DEF TypeOK, Idle, BegunReq, SlotReq, CourseReq, Checking

\* The write of r to the row q, be it new or updated.
Writes(r, q, row) ==
    /\ req[r] \in SlotReq
    /\ req[r].pc = "teacherFree"
    /\ row \in Columns
    /\ Write(r, q, row)
    /\ \/ /\ req[r].slot = Nothing
          /\ slot[q] = Fresh
          /\ row = [course |-> req[r].course, teacher |-> req[r].teacher, day |-> req[r].day,
                    from |-> req[r].from, to |-> req[r].to, room |-> req[r].room]
       \/ /\ req[r].slot = q
          /\ q \in Booked(slot)
          /\ row.course = slot[q].course
          /\ row.teacher = slot[q].teacher
          /\ row.day = IF "day" \in req[r].dto THEN req[r].day ELSE slot[q].day
          /\ row.from = IF "from" \in req[r].dto THEN req[r].from ELSE slot[q].from
          /\ row.to = IF "to" \in req[r].dto THEN req[r].to ELSE slot[q].to
          /\ row.room = IF "room" \in req[r].dto THEN req[r].room ELSE slot[q].room

LEMMA CreateWrites ==
    ASSUME TypeOK, NEW r \in Requests, NEW q \in Slots, CreateSlot(r, q)
    PROVE  \E row \in Columns : Writes(r, q, row)
<1> DEFINE row == [course |-> req[r].course, teacher |-> req[r].teacher, day |-> req[r].day,
                   from |-> req[r].from, to |-> req[r].to, room |-> req[r].room]
<1>1. req[r] \in SlotReq
  BY Shape DEF CreateSlot, Checking
<1>2. row \in Columns
  BY <1>1 DEF SlotReq, Columns
<1>3. Writes(r, q, row)
  BY <1>1, <1>2 DEF CreateSlot, Writes, Booked
<1>4. QED
  BY <1>2, <1>3

LEMMA UpdateWrites ==
    ASSUME TypeOK, NEW r \in Requests, UpdateSlot(r)
    PROVE  \E q \in Slots, row \in Columns : Writes(r, q, row)
<1> DEFINE q   == req[r].slot
           dto == req[r].dto
           row == [course |-> slot[q].course, teacher |-> slot[q].teacher,
                   day  |-> IF "day"  \in dto THEN req[r].day  ELSE slot[q].day,
                   from |-> IF "from" \in dto THEN req[r].from ELSE slot[q].from,
                   to   |-> IF "to"   \in dto THEN req[r].to   ELSE slot[q].to,
                   room |-> IF "room" \in dto THEN req[r].room ELSE slot[q].room]
<1>1. req[r] \in SlotReq
  BY Shape DEF UpdateSlot, Checking
<1>2. q \in Slots /\ q \in Booked(slot) /\ slot[q] \in Row
  BY DEF UpdateSlot, Booked, TypeOK
<1>3. row \in Columns
  BY <1>1, <1>2 DEF SlotReq, Columns, Row
<1>4. req[r].pc = "teacherFree" /\ Write(r, q, row)
  BY DEF UpdateSlot
<1>5. Writes(r, q, row)
  BY <1>1, <1>2, <1>3, <1>4 DEF Writes
<1>6. QED
  BY <1>2, <1>3, <1>5

\* Another request after a write: it is where it was, and has the more unseen.
StaysWith(s, q) ==
    /\ req'[s].pc = req[s].pc
    /\ req[s].pc \notin Checking => req'[s] = req[s]
    /\ req[s].pc \in Checking =>
          /\ req'[s] \in SlotReq
          /\ req'[s].course = req[s].course /\ req'[s].teacher = req[s].teacher
          /\ req'[s].slot = req[s].slot /\ req'[s].dto = req[s].dto
          /\ req'[s].day = req[s].day /\ req'[s].from = req[s].from
          /\ req'[s].to = req[s].to /\ req'[s].room = req[s].room
          /\ req'[s].unseen = IF SchoolOf[req[s].course] = SchoolOf[slot'[q].course]
                              THEN req[s].unseen \cup {q} ELSE req[s].unseen

\* A write changes one row, which the database has found in order, ends its
\* request, and leaves the others where they were.
LEMMA WriteEffect ==
    ASSUME TypeOK, NEW r \in Requests, NEW q \in Slots, NEW row \in Columns, Writes(r, q, row)
    PROVE  /\ slot'[q] = row /\ row \in Row
           /\ \A p \in Slots : p # q => slot'[p] = slot[p]
           /\ slot' \in [Slots -> Row \cup {Fresh, Gone}]
           /\ Booked(slot') = Booked(slot) \cup {q}
           /\ Constraints(slot')
           /\ blind' = {pair \in blind : q \notin pair} \cup {{p, q} : p \in req[r].unseen}
           /\ teacherOf' = teacherOf /\ adrift' = adrift
           /\ req'[r] = Idle
           /\ \A s \in Requests : s # r => StaysWith(s, q)
           /\ req' \in [Requests -> {Idle} \cup BegunReq \cup SlotReq \cup CourseReq]
<1>1. /\ slot' = [slot EXCEPT ![q] = row]
      /\ Constraints(slot')
      /\ blind' = {pair \in blind : q \notin pair} \cup {{p, q} : p \in req[r].unseen}
      /\ teacherOf' = teacherOf /\ adrift' = adrift
      /\ req' = [s \in Requests |->
                  IF s = r THEN Idle
                  ELSE IF req[s].pc \in Checking /\ SchoolOf[req[s].course] = SchoolOf[row.course]
                  THEN [req[s] EXCEPT !.unseen = @ \cup {q}]
                  ELSE req[s]]
  BY DEF Writes, Write
<1>2. slot'[q] = row /\ \A p \in Slots : p # q => slot'[p] = slot[p]
  BY <1>1 DEF TypeOK
<1>3. Booked(slot') = Booked(slot) \cup {q}
  BY <1>2, RowsAssumption DEF Booked
<1>4. row \in Row
  BY <1>1, <1>2, <1>3 DEF Constraints, Row
<1>5. slot' \in [Slots -> Row \cup {Fresh, Gone}]
  BY <1>1, <1>4 DEF TypeOK
<1>6. ASSUME NEW s \in Requests, req[s].pc \in Checking
      PROVE  [req[s] EXCEPT !.unseen = @ \cup {q}] \in SlotReq
  BY <1>6, Shape DEF SlotReq
<1>7. req' \in [Requests -> {Idle} \cup BegunReq \cup SlotReq \cup CourseReq]
  BY <1>1, <1>6, Shape
<1>8. ASSUME NEW s \in Requests, s # r PROVE StaysWith(s, q)
  <2>1. CASE req[s].pc \notin Checking
    BY <1>1, <1>8, <2>1 DEF StaysWith
  <2>2. CASE req[s].pc \in Checking
    <3>1. req[s] \in SlotReq
      BY <2>2, Shape
    <3>2. req'[s] = IF SchoolOf[req[s].course] = SchoolOf[row.course]
                    THEN [req[s] EXCEPT !.unseen = @ \cup {q}] ELSE req[s]
      BY <1>1, <1>8, <2>2
    <3>3. req'[s] \in SlotReq
      BY <1>6, <2>2, <3>1, <3>2
    <3>4. QED
      BY <1>2, <2>2, <3>1, <3>2, <3>3 DEF StaysWith, SlotReq
  <2>3. QED
    BY <2>1, <2>2
<1>9. req'[r] = Idle
  BY <1>1
<1>10. QED
  BY <1>1, <1>2, <1>3, <1>4, <1>5, <1>7, <1>8, <1>9

\* Every step of the timetable leaves each variable in its type.
LEMMA TypeStep == TypeOK /\ [Next]_vars => TypeOK'
<1> SUFFICES ASSUME TypeOK, [Next]_vars PROVE TypeOK'
  OBVIOUS
<1> USE DEF history
<1>1. ASSUME NEW r \in Requests, NEW c \in Courses, NEW day \in Days, NEW from \in Hours,
             NEW to \in Hours, NEW room \in Rooms, BeginCreate(r, c, day, from, to, room)
      PROVE  TypeOK'
  BY <1>1 DEF TypeOK, BeginCreate, SlotReq
<1>2. ASSUME NEW r \in Requests, NEW c \in Courses, BeginUpdate(r, c) PROVE TypeOK'
  BY <1>2 DEF TypeOK, BeginUpdate, BegunReq
<1>3. ASSUME NEW r \in Requests, NEW q \in Slots, NEW dto \in Given, NEW day \in Days,
             NEW from \in Hours, NEW to \in Hours, NEW room \in Rooms,
             ReadSlot(r, q, dto, day, from, to, room)
      PROVE  TypeOK'
  <2>1. req[r] \in BegunReq
    BY <1>3, Shape DEF ReadSlot
  <2>2. dto \in SUBSET Fields
    BY InputsAssumption
  <2>3. [pc |-> "asked", course |-> req[r].course, teacher |-> req[r].teacher, slot |-> q,
         dto |-> dto, day |-> day, from |-> from, to |-> to, room |-> room,
         unseen |-> {}] \in SlotReq
    BY <2>1, <2>2 DEF SlotReq, BegunReq
  <2>4. QED
    BY <1>3, <2>3 DEF TypeOK, ReadSlot
<1>4. ASSUME NEW r \in Requests, CheckRoom(r) PROVE TypeOK'
  <2>1. req[r] \in SlotReq
    BY <1>4, Shape DEF CheckRoom, Checking
  <2>2. [req[r] EXCEPT !.pc = "roomFree", !.unseen = @ \cap {req[r].slot}] \in SlotReq
    BY <2>1 DEF SlotReq
  <2>3. QED
    BY <1>4, <2>2 DEF TypeOK, CheckRoom
<1>5. ASSUME NEW r \in Requests, CheckTeacher(r) PROVE TypeOK'
  <2>1. [req[r] EXCEPT !.pc = "teacherFree"] \in SlotReq
    BY <1>5, Shape DEF CheckTeacher, SlotReq, Checking
  <2>2. QED
    BY <1>5, <2>1 DEF TypeOK, CheckTeacher
<1>6. ASSUME NEW r \in Requests, NEW q \in Slots, NEW row \in Columns, Writes(r, q, row)
      PROVE  TypeOK'
  <2>1. req[r].unseen \subseteq Slots
    BY <1>6 DEF Writes, SlotReq
  <2>2. blind' \subseteq SUBSET Slots
    BY <1>6, <2>1, WriteEffect DEF TypeOK
  <2>3. QED
    BY <1>6, <2>2, WriteEffect DEF TypeOK
<1>7. ASSUME NEW r \in Requests, NEW c \in Courses, NEW new \in Teachers,
             BeginUpdateCourse(r, c, new)
      PROVE  TypeOK'
  BY <1>7 DEF TypeOK, BeginUpdateCourse, CourseReq
<1>8. ASSUME NEW r \in Requests, UpdateCourse(r) PROVE TypeOK'
  <2>1. req[r] \in CourseReq
    BY <1>8, Shape DEF UpdateCourse
  <2>2. [req[r] EXCEPT !.pc = "moved"] \in CourseReq
    BY <2>1 DEF CourseReq
  <2>3. teacherOf' \in [Courses -> Teachers] /\ adrift' \subseteq Courses
    BY <1>8, <2>1 DEF UpdateCourse, TypeOK, CourseReq
  <2>4. QED
    BY <1>8, <2>2, <2>3 DEF TypeOK, UpdateCourse, Ends
<1>9. ASSUME NEW r \in Requests, MoveSlots(r) PROVE TypeOK'
  <2>1. req[r] \in CourseReq
    BY <1>9, Shape DEF MoveSlots
  <2>2. Moved(r) \in [Slots -> Row \cup {Fresh, Gone}]
    BY <2>1 DEF TypeOK, Moved, Booked, Row, Columns, CourseReq
  <2>3. QED
    BY <1>9, <2>2 DEF TypeOK, MoveSlots, Ends
<1>10. ASSUME NEW r \in Requests, LeaveSlots(r) PROVE TypeOK'
  BY <1>10, Shape DEF TypeOK, LeaveSlots, Ends, CourseReq
<1>11. ASSUME NEW r \in Requests, Refuse(r) PROVE TypeOK'
  BY <1>11 DEF TypeOK, Refuse, Ends
<1>12. ASSUME NEW q \in Slots, DeleteSlot(q) PROVE TypeOK'
  BY <1>12 DEF TypeOK, DeleteSlot
<1>13. CASE UNCHANGED vars
  BY <1>13 DEF TypeOK, vars
<1>14. QED
  BY <1>1, <1>2, <1>3, <1>4, <1>5, <1>6, <1>7, <1>8, <1>9, <1>10, <1>11, <1>12, <1>13,
     CreateWrites, UpdateWrites
     DEF Next, SlotStep, CourseStep

\* The timetable, the courses and the requests keep their types, and no session
\* ends before it starts.
THEOREM TypeCorrect == Spec => []TypeOK
<1>1. Init => TypeOK
  BY DEF Init, TypeOK
<1>2. QED
  BY <1>1, TypeStep, PTL DEF Spec

-----------------------------------------------------------------------------
(* Steps by what they do to the rows *)

\* A step of a request leaves the others alone and no row, writes one row, or
\* moves the rows of a course; and rows are deleted.
LEMMA StepKinds ==
    ASSUME TypeOK, [Next]_vars
    PROVE  \/ slot' = slot /\ blind' = blind
           \/ \E r \in Requests, q \in Slots, row \in Columns : Writes(r, q, row)
           \/ \E r \in Requests : MoveSlots(r)
           \/ \E q \in Slots : DeleteSlot(q)
<1>1. ASSUME NEW r \in Requests, SlotStep(r)
      PROVE  \/ slot' = slot /\ blind' = blind
             \/ \E q \in Slots, row \in Columns : Writes(r, q, row)
  BY <1>1, CreateWrites, UpdateWrites
     DEF SlotStep, BeginCreate, BeginUpdate, ReadSlot, CheckRoom, CheckTeacher, history
<1>2. ASSUME NEW r \in Requests, CourseStep(r) \/ Refuse(r)
      PROVE  (slot' = slot /\ blind' = blind) \/ MoveSlots(r)
  BY <1>2 DEF CourseStep, BeginUpdateCourse, UpdateCourse, LeaveSlots, Refuse, history
<1>3. QED
  BY <1>1, <1>2 DEF Next, vars, history

\* A move of the sessions to another teacher leaves where and when they are.
LEMMA MoveKeepsPlaces ==
    ASSUME TypeOK, NEW r \in Requests, MoveSlots(r)
    PROVE  /\ Booked(slot') = Booked(slot)
           /\ \A q \in Booked(slot) :
                 /\ slot'[q].course = slot[q].course /\ slot'[q].room = slot[q].room
                 /\ slot'[q].day = slot[q].day
                 /\ slot'[q].from = slot[q].from /\ slot'[q].to = slot[q].to
                 /\ slot'[q].teacher = IF slot[q].course = req[r].course THEN req[r].new
                                                                       ELSE slot[q].teacher
<1>1. req[r] \in CourseReq
  BY Shape DEF MoveSlots
<1>2. \A q \in Slots : q \notin Booked(slot) => slot'[q] = slot[q]
  BY DEF MoveSlots, Moved
<1>3. ASSUME NEW q \in Booked(slot)
      PROVE  /\ slot'[q] \in Columns
             /\ slot'[q].course = slot[q].course /\ slot'[q].room = slot[q].room
             /\ slot'[q].day = slot[q].day
             /\ slot'[q].from = slot[q].from /\ slot'[q].to = slot[q].to
             /\ slot'[q].teacher = IF slot[q].course = req[r].course THEN req[r].new
                                                                   ELSE slot[q].teacher
  BY <1>1, <1>3 DEF MoveSlots, Moved, Booked, TypeOK, Row, Columns, CourseReq
<1>4. QED
  BY <1>2, <1>3, RowsAssumption DEF Booked

\* A deletion takes one row away, and what was unseen of it.
LEMMA DeleteEffect ==
    ASSUME TypeOK, NEW q \in Slots, DeleteSlot(q)
    PROVE  /\ Booked(slot') = Booked(slot) \ {q}
           /\ \A p \in Booked(slot') : slot'[p] = slot[p]
           /\ blind' = {pair \in blind : q \notin pair}
           /\ teacherOf' = teacherOf /\ adrift' = adrift /\ req' = req
BY DEF DeleteSlot, Booked, TypeOK

\* Whoever edits, the database holds every statement to its constraints.
LEMMA ConstraintsStep == TypeOK /\ Constraints(slot) /\ [Next]_vars => Constraints(slot')
<1> SUFFICES ASSUME TypeOK, Constraints(slot), [Next]_vars PROVE Constraints(slot')
  OBVIOUS
<1>1. CASE slot' = slot
  BY <1>1
<1>2. ASSUME NEW r \in Requests, NEW q \in Slots, NEW row \in Columns, Writes(r, q, row)
      PROVE  Constraints(slot')
  BY <1>2, WriteEffect
<1>3. ASSUME NEW r \in Requests, MoveSlots(r) PROVE Constraints(slot')
  BY <1>3 DEF MoveSlots
<1>4. ASSUME NEW q \in Slots, DeleteSlot(q) PROVE Constraints(slot')
  <2>1. Booked(slot') \subseteq Booked(slot) /\ \A p \in Booked(slot') : slot'[p] = slot[p]
    BY <1>4, DeleteEffect
  <2>2. QED
    BY <2>1 DEF Constraints, TeacherExcluded
<1>5. QED
  BY <1>1, <1>2, <1>3, <1>4, StepKinds

-----------------------------------------------------------------------------
(* Rooms and times *)

\* A row is written as it was checked, unless it was rewritten meanwhile.
LEMMA CandidateWritten ==
    ASSUME TypeOK, ChecksStillHold,
           NEW r \in Requests, NEW q \in Slots, NEW row \in Columns, Writes(r, q, row),
           q \notin req[r].unseen
    PROVE  /\ row.course = req[r].course /\ row.room = req[r].room
           /\ row.day = req[r].day /\ row.from = req[r].from /\ row.to = req[r].to
<1>1. CASE req[r].slot = Nothing
  BY <1>1, RowsAssumption DEF Writes
<1>2. CASE req[r].slot # Nothing
  <2>1. req[r].slot = q /\ q \in Booked(slot) /\ req[r].pc \in Checking
    BY <1>2 DEF Writes, Checking
  <2>2. /\ slot[q].course = req[r].course
        /\ "day" \in req[r].dto \/ req[r].day = slot[q].day
        /\ "from" \in req[r].dto \/ req[r].from = slot[q].from
        /\ "to" \in req[r].dto \/ req[r].to = slot[q].to
        /\ "room" \in req[r].dto \/ req[r].room = slot[q].room
    BY <1>2, <2>1 DEF ChecksStillHold
  <2>3. QED
    BY <1>2, <2>1, <2>2 DEF Writes
<1>3. QED
  BY <1>1, <1>2

\* A session just written shares its room only with what its request had not seen.
LEMMA RoomWritten ==
    ASSUME TypeOK, ChecksStillHold,
           NEW r \in Requests, NEW q \in Slots, NEW row \in Columns, Writes(r, q, row),
           NEW p \in Booked(slot), p # q,
           SchoolOf[slot[p].course] = SchoolOf[row.course], slot[p].room = row.room,
           RangesOverlap(slot[p], row)
    PROVE  {{p, q}, {q}} \cap blind' # {}
<1>1. blind' = {pair \in blind : q \notin pair} \cup {{o, q} : o \in req[r].unseen}
  BY WriteEffect
<1>2. CASE p \in req[r].unseen
  <2>1. {p, q} \in {{o, q} : o \in req[r].unseen}
    BY <1>2, Zenon
  <2>2. {p, q} \in blind'
    BY <1>1, <2>1, Zenon
  <2>3. QED
    BY <2>2
<1>3. CASE q \in req[r].unseen
  <2>1. {q, q} \in {{o, q} : o \in req[r].unseen}
    BY <1>3, Zenon
  <2>2. {q, q} = {q}
    OBVIOUS
  <2>3. {q} \in blind'
    BY <1>1, <2>1, <2>2, Zenon
  <2>4. QED
    BY <2>3
<1>4. CASE p \notin req[r].unseen /\ q \notin req[r].unseen
  <2>1. /\ row.course = req[r].course /\ row.room = req[r].room
        /\ row.day = req[r].day /\ row.from = req[r].from /\ row.to = req[r].to
    BY <1>4, CandidateWritten
  <2>2. req[r].slot = q \/ req[r].slot = Nothing
    BY DEF Writes
  <2>3. p # req[r].slot
    BY <2>2, RowsAssumption DEF Booked
  <2>4. req[r].pc \in Checking /\ req[r].pc # "asked"
    BY DEF Writes, Checking
  <2>5. ~Overlap(slot[p], req[r])
    BY <1>4, <2>1, <2>3, <2>4 DEF ChecksStillHold
  <2>6. QED
    BY <2>1, <2>5 DEF RangesOverlap, Overlap
<1>5. QED
  BY <1>2, <1>3, <1>4

\* The rows that share a room before a step and are not written by it.
LEMMA RoomStep ==
    TypeOK /\ RoomsSharedUnseen /\ ChecksStillHold /\ [Next]_vars => RoomsSharedUnseen'
<1> SUFFICES ASSUME TypeOK, RoomsSharedUnseen, ChecksStillHold, [Next]_vars
             PROVE  RoomsSharedUnseen'
  OBVIOUS
<1>1. CASE slot' = slot /\ blind' = blind
  BY <1>1 DEF RoomsSharedUnseen, Booked, SameRoom
<1>2. ASSUME NEW r \in Requests, NEW q \in Slots, NEW row \in Columns, Writes(r, q, row)
      PROVE  RoomsSharedUnseen'
  <2>1. /\ slot'[q] = row /\ \A p \in Slots : p # q => slot'[p] = slot[p]
        /\ Booked(slot') = Booked(slot) \cup {q}
        /\ \A pair \in blind : q \notin pair => pair \in blind'
    BY <1>2, WriteEffect
  <2>2. ASSUME NEW p \in Booked(slot'), p # q, SameRoom(p, q)',
               RangesOverlap(slot'[p], slot'[q])
        PROVE  {{p, q}, {q}} \cap blind' # {}
    <3>1. p \in Slots /\ p \in Booked(slot) /\ slot'[p] = slot[p]
      BY <2>1, <2>2 DEF Booked
    <3>2. QED
      BY <1>2, <2>1, <2>2, <3>1, RoomWritten DEF SameRoom
  <2>3. ASSUME NEW p \in Booked(slot'), NEW o \in Booked(slot'), p # o, SameRoom(p, o)',
               RangesOverlap(slot'[p], slot'[o])
        PROVE  {{p, o}, {p}, {o}} \cap blind' # {}
    <3>1. CASE o = q
      BY <2>2, <2>3, <3>1
    <3>2. CASE p = q
      <4>1. SameRoom(o, q)' /\ RangesOverlap(slot'[o], slot'[q]) /\ {p, o} = {o, p}
        BY <2>3, <3>2 DEF SameRoom, RangesOverlap, Overlap
      <4>2. QED
        BY <2>2, <2>3, <3>2, <4>1
    <3>3. CASE p # q /\ o # q
      <4>1. /\ p \in Booked(slot) /\ o \in Booked(slot)
            /\ slot'[p] = slot[p] /\ slot'[o] = slot[o]
        BY <2>1, <3>3 DEF Booked
      <4>2. {{p, o}, {p}, {o}} \cap blind # {}
        BY <2>3, <4>1 DEF RoomsSharedUnseen, SameRoom
      <4>3. q \notin {p, o} /\ q \notin {p} /\ q \notin {o}
        BY <3>3
      <4>4. QED
        BY <2>1, <4>2, <4>3
    <3>4. QED
      BY <3>1, <3>2, <3>3
  <2>4. QED
    BY <2>3 DEF RoomsSharedUnseen
<1>3. ASSUME NEW r \in Requests, MoveSlots(r) PROVE RoomsSharedUnseen'
  <2>1. blind' = blind
    BY <1>3 DEF MoveSlots
  <2>2. ASSUME NEW p \in Booked(slot'), NEW o \in Booked(slot'), p # o, SameRoom(p, o)',
               RangesOverlap(slot'[p], slot'[o])
        PROVE  {{p, o}, {p}, {o}} \cap blind # {}
    <3>1. p \in Booked(slot) /\ o \in Booked(slot)
      BY <1>3, MoveKeepsPlaces
    <3>2. SameRoom(p, o) /\ RangesOverlap(slot[p], slot[o])
      BY <1>3, <2>2, <3>1, MoveKeepsPlaces DEF SameRoom, RangesOverlap, Overlap
    <3>3. QED
      BY <2>2, <3>1, <3>2 DEF RoomsSharedUnseen
  <2>3. QED
    BY <2>1, <2>2 DEF RoomsSharedUnseen
<1>4. ASSUME NEW q \in Slots, DeleteSlot(q) PROVE RoomsSharedUnseen'
  <2>1. /\ Booked(slot') = Booked(slot) \ {q}
        /\ \A p \in Booked(slot') : slot'[p] = slot[p]
        /\ blind' = {pair \in blind : q \notin pair}
    BY <1>4, DeleteEffect
  <2>2. ASSUME NEW p \in Booked(slot'), NEW o \in Booked(slot'), p # o, SameRoom(p, o)',
               RangesOverlap(slot'[p], slot'[o])
        PROVE  {{p, o}, {p}, {o}} \cap blind' # {}
    <3>1. {{p, o}, {p}, {o}} \cap blind # {}
      BY <2>1, <2>2 DEF RoomsSharedUnseen, SameRoom
    <3>2. q \notin {p, o} /\ q \notin {p} /\ q \notin {o}
      BY <2>1
    <3>3. QED
      BY <2>1, <3>1, <3>2
  <2>3. QED
    BY <2>2 DEF RoomsSharedUnseen
<1>5. QED
  BY <1>1, <1>2, <1>3, <1>4, StepKinds

\* A session is written with the times that were asserted, or unseen.
LEMMA LengthStep ==
    TypeOK /\ SessionsHaveLength /\ ChecksStillHold /\ [Next]_vars => SessionsHaveLength'
<1> SUFFICES ASSUME TypeOK, SessionsHaveLength, ChecksStillHold, [Next]_vars
             PROVE  SessionsHaveLength'
  OBVIOUS
<1>1. CASE slot' = slot /\ blind' = blind
  BY <1>1 DEF SessionsHaveLength, Booked
<1>2. ASSUME NEW r \in Requests, NEW q \in Slots, NEW row \in Columns, Writes(r, q, row)
      PROVE  SessionsHaveLength'
  <2>1. /\ slot'[q] = row /\ \A p \in Slots : p # q => slot'[p] = slot[p]
        /\ Booked(slot') = Booked(slot) \cup {q}
        /\ blind' = {pair \in blind : q \notin pair} \cup {{o, q} : o \in req[r].unseen}
    BY <1>2, WriteEffect
  <2>2. row.from < row.to \/ {q} \in blind'
    <3>1. CASE q \in req[r].unseen
      <4>1. {q, q} \in blind' /\ {q, q} = {q}
        BY <2>1, <3>1
      <4>2. QED
        BY <4>1
    <3>2. CASE q \notin req[r].unseen
      <4>1. row.from = req[r].from /\ row.to = req[r].to
        BY <1>2, <3>2, CandidateWritten
      <4>2. req[r].pc \in Checking
        BY <1>2 DEF Writes, Checking
      <4>3. QED
        BY <4>1, <4>2 DEF ChecksStillHold
    <3>3. QED
      BY <3>1, <3>2
  <2>3. ASSUME NEW p \in Booked(slot'), p # q
        PROVE  slot'[p].from < slot'[p].to \/ {p} \in blind'
    <3>1. p \in Booked(slot) /\ slot'[p] = slot[p]
      BY <2>1, <2>3 DEF Booked
    <3>2. q \notin {p}
      BY <2>3
    <3>3. QED
      BY <2>1, <3>1, <3>2 DEF SessionsHaveLength
  <2>4. QED
    BY <2>1, <2>2, <2>3 DEF SessionsHaveLength
<1>3. ASSUME NEW r \in Requests, MoveSlots(r) PROVE SessionsHaveLength'
  BY <1>3, MoveKeepsPlaces DEF SessionsHaveLength, MoveSlots
<1>4. ASSUME NEW q \in Slots, DeleteSlot(q) PROVE SessionsHaveLength'
  <2>1. /\ Booked(slot') = Booked(slot) \ {q}
        /\ \A p \in Booked(slot') : slot'[p] = slot[p]
        /\ blind' = {pair \in blind : q \notin pair}
    BY <1>4, DeleteEffect
  <2>2. \A p \in Booked(slot') : q \notin {p}
    BY <2>1
  <2>3. QED
    BY <2>1, <2>2 DEF SessionsHaveLength
<1>5. QED
  BY <1>1, <1>2, <1>3, <1>4, StepKinds

-----------------------------------------------------------------------------
(* Checks *)

\* What ChecksStillHold says of one request.
HoldsFor(s) ==
    /\ req[s].from < req[s].to
    /\ IF req[s].slot = Nothing THEN req[s].dto = Fields
       ELSE /\ slot[req[s].slot] # Fresh
            /\ req[s].slot \in Booked(slot) /\ req[s].slot \notin req[s].unseen =>
                  /\ slot[req[s].slot].course = req[s].course
                  /\ "day" \in req[s].dto \/ req[s].day = slot[req[s].slot].day
                  /\ "from" \in req[s].dto \/ req[s].from = slot[req[s].slot].from
                  /\ "to" \in req[s].dto \/ req[s].to = slot[req[s].slot].to
                  /\ "room" \in req[s].dto \/ req[s].room = slot[req[s].slot].room
    /\ req[s].pc # "asked" =>
          \A p \in Booked(slot) \ ({req[s].slot} \cup req[s].unseen) :
              SchoolOf[slot[p].course] = SchoolOf[req[s].course] /\ slot[p].room = req[s].room
              => ~Overlap(slot[p], req[s])

LEMMA ChecksAreFor == ChecksStillHold <=> \A s \in Requests : req[s].pc \in Checking => HoldsFor(s)
BY DEF ChecksStillHold, HoldsFor

\* The checks of a request hold on if it stays as it is and the rows it has
\* seen stay in their places or go.
LEMMA ChecksGoOn ==
    ASSUME NEW s \in Requests, HoldsFor(s), req'[s] = req[s],
           slot[req[s].slot] # Fresh => slot'[req[s].slot] # Fresh,
           \A p \in Booked(slot') :
              /\ p \in Booked(slot)
              /\ slot'[p].course = slot[p].course /\ slot'[p].room = slot[p].room
              /\ slot'[p].day = slot[p].day
              /\ slot'[p].from = slot[p].from /\ slot'[p].to = slot[p].to
    PROVE  HoldsFor(s)'
<1>1. ASSUME NEW p \in Booked(slot'), ~Overlap(slot[p], req[s])
      PROVE  ~Overlap(slot'[p], req'[s])
  BY <1>1 DEF Overlap
<1>2. QED
  BY <1>1 DEF HoldsFor

\* What a request has checked still holds, after any step, of all it has seen.
LEMMA ChecksStep == TypeOK /\ ChecksStillHold /\ [Next]_vars => ChecksStillHold'
<1> SUFFICES ASSUME TypeOK, ChecksStillHold, [Next]_vars,
                    NEW s \in Requests, req'[s].pc \in Checking
             PROVE  HoldsFor(s)'
  <2>1. ChecksStillHold' <=> \A s \in Requests : req'[s].pc \in Checking => HoldsFor(s)'
    BY DEF ChecksStillHold, HoldsFor
  <2>2. QED
    BY <2>1
<1>1. req[s].pc \in Checking => HoldsFor(s)
  BY ChecksAreFor
<1>2. CASE slot' = slot /\ req'[s] = req[s]
  BY <1>1, <1>2, ChecksGoOn
<1>3. ASSUME NEW r \in Requests, NEW q \in Slots, NEW row \in Columns, Writes(r, q, row)
      PROVE  HoldsFor(s)'
  <2>1. /\ slot'[q] = row /\ \A p \in Slots : p # q => slot'[p] = slot[p]
        /\ Booked(slot') = Booked(slot) \cup {q}
        /\ req'[r] = Idle
        /\ s # r => StaysWith(s, q)
        /\ row.course \in Courses
    BY <1>3, WriteEffect DEF Columns
  <2>2. s # r
    BY <2>1 DEF Idle, Checking
  <2>3. req[s].pc \in Checking /\ HoldsFor(s)
    BY <1>1, <2>1, <2>2 DEF StaysWith
  <2>4. /\ req'[s].pc = req[s].pc
        /\ req'[s].course = req[s].course /\ req'[s].slot = req[s].slot
        /\ req'[s].dto = req[s].dto /\ req'[s].day = req[s].day
        /\ req'[s].from = req[s].from /\ req'[s].to = req[s].to
        /\ req'[s].room = req[s].room
        /\ req[s].unseen \subseteq req'[s].unseen
        /\ SchoolOf[req[s].course] = SchoolOf[row.course] => q \in req'[s].unseen
    BY <2>1, <2>2, <2>3 DEF StaysWith
  <2>5. req'[s].from < req'[s].to
    BY <2>3, <2>4 DEF HoldsFor
  <2>6. CASE req[s].slot = Nothing
    <3>1. req'[s].dto = Fields /\ req'[s].slot = Nothing
      BY <2>3, <2>4, <2>6 DEF HoldsFor
    <3>2. ASSUME req'[s].pc # "asked",
                 NEW p \in Booked(slot'), p \notin req'[s].unseen,
                 SchoolOf[slot'[p].course] = SchoolOf[req'[s].course],
                 slot'[p].room = req'[s].room
          PROVE  ~Overlap(slot'[p], req'[s])
      <4>1. p # q
        BY <2>1, <2>4, <3>2
      <4>2. p \in Booked(slot) /\ slot'[p] = slot[p]
        BY <2>1, <4>1 DEF Booked
      <4>3. p # Nothing
        BY <4>2, RowsAssumption DEF Booked
      <4>4. ~Overlap(slot[p], req[s])
        BY <2>3, <2>4, <2>6, <3>2, <4>2, <4>3 DEF HoldsFor
      <4>5. QED
        BY <2>4, <4>2, <4>4 DEF Overlap
    <3>3. QED
      BY <2>5, <3>1, <3>2 DEF HoldsFor
  <2>7. CASE req[s].slot # Nothing
    <3>4. slot'[req[s].slot] # Fresh
      <4>1. req[s].slot \in Slots
        BY <2>3, <2>7, Shape DEF SlotReq
      <4>2. row # Fresh
        BY RowsAssumption
      <4>3. QED
        BY <2>1, <2>3, <2>7, <4>1, <4>2 DEF HoldsFor
    <3>1. ASSUME req[s].slot \in Booked(slot'), req[s].slot \notin req'[s].unseen
          PROVE  /\ req[s].slot \in Booked(slot) /\ slot'[req[s].slot] = slot[req[s].slot]
                 /\ req[s].slot \notin req[s].unseen
      <4>1. CASE req[s].slot = q
        <5>1. CASE req[r].slot = q
          <6>1. row.course = slot[q].course /\ q \in Booked(slot)
            BY <1>3, <5>1, RowsAssumption DEF Writes
          <6>2. q \notin req[s].unseen
            BY <2>4, <3>1, <4>1
          <6>3. slot[q].course = req[s].course
            BY <2>3, <2>7, <4>1, <6>1, <6>2 DEF HoldsFor
          <6>4. QED
            BY <2>4, <3>1, <4>1, <6>1, <6>3
        <5>2. CASE req[r].slot # q
          BY <1>3, <2>3, <2>7, <4>1, <5>2 DEF Writes, HoldsFor
        <5>3. QED
          BY <5>1, <5>2
      <4>2. CASE req[s].slot # q
        BY <2>1, <2>4, <3>1, <4>2 DEF Booked
      <4>3. QED
        BY <4>1, <4>2
    <3>2. ASSUME req'[s].pc # "asked",
                 NEW p \in Booked(slot'), p # req[s].slot, p \notin req'[s].unseen,
                 SchoolOf[slot'[p].course] = SchoolOf[req'[s].course],
                 slot'[p].room = req'[s].room
          PROVE  ~Overlap(slot'[p], req'[s])
      <4>1. p # q
        BY <2>1, <2>4, <3>2
      <4>2. p \in Booked(slot) /\ slot'[p] = slot[p]
        BY <2>1, <4>1 DEF Booked
      <4>3. ~Overlap(slot[p], req[s])
        BY <2>3, <2>4, <3>2, <4>2 DEF HoldsFor
      <4>4. QED
        BY <2>4, <4>2, <4>3 DEF Overlap
    <3>3. QED
      BY <2>3, <2>4, <2>5, <2>7, <3>1, <3>2, <3>4 DEF HoldsFor
  <2>8. QED
    BY <2>6, <2>7
<1>4. ASSUME NEW r \in Requests, MoveSlots(r) PROVE HoldsFor(s)'
  <2>1. s # r /\ req'[s] = req[s]
    BY <1>4 DEF MoveSlots, Ends, TypeOK, Idle, Checking
  <2>2. \A q : slot[q] # Fresh /\ q \in Slots => slot'[q] # Fresh
    <3> SUFFICES ASSUME NEW q \in Slots, slot[q] # Fresh PROVE slot'[q] # Fresh
      OBVIOUS
    <3>1. CASE q \in Booked(slot)
      BY <1>4, <3>1, MoveKeepsPlaces DEF Booked
    <3>2. CASE q \notin Booked(slot)
      BY <1>4, <3>2 DEF MoveSlots, Moved
    <3>3. QED
      BY <3>1, <3>2
  <2>3. HoldsFor(s) /\ req[s] \in SlotReq
    BY <1>1, <2>1, Shape
  <2>4. req[s].slot = Nothing \/ req[s].slot \in Slots
    BY <2>3 DEF SlotReq
  <2>5. CASE req[s].slot = Nothing
    <3>1. ASSUME NEW p \in Booked(slot'), ~Overlap(slot[p], req[s])
          PROVE  ~Overlap(slot'[p], req'[s])
      BY <1>4, <2>1, <3>1, MoveKeepsPlaces DEF Overlap
    <3>2. QED
      BY <1>4, <2>1, <2>3, <2>5, <3>1, MoveKeepsPlaces DEF HoldsFor
  <2>6. CASE req[s].slot \in Slots
    BY <1>4, <2>1, <2>2, <2>3, <2>6, MoveKeepsPlaces, ChecksGoOn
  <2>7. QED
    BY <2>4, <2>5, <2>6
<1>5. ASSUME NEW q \in Slots, DeleteSlot(q) PROVE HoldsFor(s)'
  <2>1. /\ req'[s] = req[s]
        /\ Booked(slot') = Booked(slot) \ {q} /\ \A p \in Booked(slot') : slot'[p] = slot[p]
        /\ slot' = [slot EXCEPT ![q] = Gone]
    BY <1>5, DeleteEffect DEF DeleteSlot
  <2>2. slot[req[s].slot] # Fresh => slot'[req[s].slot] # Fresh
    BY <2>1, RowsAssumption DEF TypeOK
  <2>3. QED
    BY <1>1, <2>1, <2>2, ChecksGoOn
<1>6. ASSUME NEW c \in Courses, NEW day \in Days, NEW from \in Hours, NEW to \in Hours,
             NEW room \in Rooms, BeginCreate(s, c, day, from, to, room)
      PROVE  HoldsFor(s)'
  BY <1>6 DEF BeginCreate, HoldsFor, TypeOK
<1>7. ASSUME NEW q \in Slots, NEW dto \in Given, NEW day \in Days, NEW from \in Hours,
             NEW to \in Hours, NEW room \in Rooms, ReadSlot(s, q, dto, day, from, to, room)
      PROVE  HoldsFor(s)'
  <2>1. /\ req'[s] = [pc |-> "asked", course |-> req[s].course, teacher |-> req[s].teacher,
                      slot |-> q, dto |-> dto, day |-> day, from |-> from, to |-> to,
                      room |-> room, unseen |-> {}]
        /\ slot' = slot /\ from < to
    BY <1>7 DEF ReadSlot, LastsLongEnough, TypeOK
  <2>2. q # Nothing /\ slot[q] # Fresh /\ slot[q].course = req[s].course
    BY <1>7, RowsAssumption DEF ReadSlot, Booked
  <2>3. /\ "day" \in dto \/ day = slot[q].day
        /\ "from" \in dto \/ from = slot[q].from
        /\ "to" \in dto \/ to = slot[q].to
        /\ "room" \in dto \/ room = slot[q].room
    BY <1>7 DEF ReadSlot
  <2>4. QED
    BY <2>1, <2>2, <2>3 DEF HoldsFor
<1>8. ASSUME CheckRoom(s) PROVE HoldsFor(s)'
  <2>1. req[s] \in SlotReq /\ HoldsFor(s) /\ slot' = slot /\ ~RoomTaken(s)
    BY <1>1, <1>8, Shape DEF CheckRoom, Checking
  <2>2. req'[s] = [req[s] EXCEPT !.pc = "roomFree", !.unseen = @ \cap {req[s].slot}]
    BY <1>8 DEF CheckRoom, TypeOK
  <2>3. /\ req'[s].course = req[s].course /\ req'[s].slot = req[s].slot
        /\ req'[s].dto = req[s].dto /\ req'[s].day = req[s].day
        /\ req'[s].from = req[s].from /\ req'[s].to = req[s].to
        /\ req'[s].room = req[s].room
        /\ req[s].slot \in req[s].unseen => req[s].slot \in req'[s].unseen
    BY <2>1, <2>2 DEF SlotReq
  <2>4. ASSUME NEW p \in Booked(slot), p # req[s].slot,
               SchoolOf[slot[p].course] = SchoolOf[req[s].course], slot[p].room = req[s].room
        PROVE  ~Overlap(slot[p], req'[s])
    <3>1. ~Overlap(slot[p], req[s])
      BY <2>1, <2>4 DEF RoomTaken
    <3>2. QED
      BY <2>3, <3>1 DEF Overlap
  <2>5. QED
    BY <2>1, <2>3, <2>4 DEF HoldsFor
<1>9. ASSUME CheckTeacher(s) PROVE HoldsFor(s)'
  <2>1. req[s] \in SlotReq /\ HoldsFor(s) /\ slot' = slot /\ req[s].pc # "asked"
    BY <1>1, <1>9, Shape DEF CheckTeacher, Checking
  <2>2. req'[s] = [req[s] EXCEPT !.pc = "teacherFree"]
    BY <1>9 DEF CheckTeacher, TypeOK
  <2>3. /\ req'[s].course = req[s].course /\ req'[s].slot = req[s].slot
        /\ req'[s].dto = req[s].dto /\ req'[s].day = req[s].day
        /\ req'[s].from = req[s].from /\ req'[s].to = req[s].to
        /\ req'[s].room = req[s].room /\ req'[s].unseen = req[s].unseen
    BY <2>1, <2>2 DEF SlotReq
  <2>4. \A p : ~Overlap(slot[p], req[s]) => ~Overlap(slot[p], req'[s])
    BY <2>3 DEF Overlap
  <2>5. QED
    BY <2>1, <2>3, <2>4 DEF HoldsFor
\* The other steps of s do not lead to a check, and those of others leave it.
<1>10. ASSUME NEW r \in Requests, SlotStep(r) \/ CourseStep(r) \/ Refuse(r) PROVE HoldsFor(s)'
  <2>1. CASE \E q \in Slots : CreateSlot(r, q)
    BY <1>3, <2>1, CreateWrites
  <2>2. CASE UpdateSlot(r)
    BY <1>3, <2>2, UpdateWrites
  <2>3. CASE MoveSlots(r)
    BY <1>4, <2>3
  <2>4. CASE \/ \E c \in Courses : BeginUpdate(r, c)
             \/ \E c \in Courses, new \in Teachers : BeginUpdateCourse(r, c, new)
             \/ UpdateCourse(r) \/ LeaveSlots(r) \/ Refuse(r)
    <3>1. slot' = slot /\ \A q \in Requests \ {r} : req'[q] = req[q]
      BY <2>4 DEF BeginUpdate, BeginUpdateCourse, UpdateCourse, LeaveSlots, Refuse, Ends, TypeOK
    <3>2. s # r
      <4>1. CASE \E c \in Courses : BeginUpdate(r, c)
        BY <4>1 DEF BeginUpdate, TypeOK, Checking
      <4>2. CASE \E c \in Courses, new \in Teachers : BeginUpdateCourse(r, c, new)
        BY <4>2 DEF BeginUpdateCourse, TypeOK, Checking
      <4>3. CASE UpdateCourse(r)
        BY <4>3, Shape DEF UpdateCourse, Ends, TypeOK, Checking, CourseReq, Idle
      <4>4. CASE LeaveSlots(r) \/ Refuse(r)
        BY <4>4 DEF LeaveSlots, Refuse, Ends, TypeOK, Checking, Idle
      <4>5. QED
        BY <2>4, <4>1, <4>2, <4>3, <4>4
    <3>3. QED
      BY <1>2, <3>1, <3>2
  <2>5. CASE \/ \E c \in Courses, day \in Days, from, to \in Hours, room \in Rooms :
                    BeginCreate(r, c, day, from, to, room)
             \/ \E q \in Slots, dto \in Given, day \in Days, from, to \in Hours, room \in Rooms :
                    ReadSlot(r, q, dto, day, from, to, room)
             \/ CheckRoom(r) \/ CheckTeacher(r)
    <3>1. CASE r = s
      BY <1>6, <1>7, <1>8, <1>9, <2>5, <3>1
    <3>2. CASE r # s
      <4>1. slot' = slot /\ req'[s] = req[s]
        BY <2>5, <3>2 DEF BeginCreate, ReadSlot, CheckRoom, CheckTeacher, TypeOK
      <4>2. QED
        BY <1>2, <4>1
    <3>3. QED
      BY <3>1, <3>2
  <2>6. QED
    BY <1>10, <2>1, <2>2, <2>3, <2>4, <2>5 DEF SlotStep, CourseStep
<1>11. QED
  BY <1>2, <1>5, <1>10 DEF Next, vars

-----------------------------------------------------------------------------
(* Teachers *)

\* A step of a request that is not moving sessions leaves the moves of others.
LEMMA MovesGoOn ==
    ASSUME NEW r \in Requests, req[r].pc # "moved", NEW c, c \in Moving,
           \A s \in Requests : s # r /\ req[s].pc = "moved" => req'[s] = req[s]
    PROVE  c \in Moving'
<1>1. PICK s \in Requests : req[s].pc = "moved" /\ req[s].course = c
  BY DEF Moving
<1>2. s # r
  BY <1>1
<1>3. QED
  BY <1>1, <1>2 DEF Moving

\* What TeachersRead says of one request.
KnowsTeacher(s) ==
    /\ req[s].pc \in Checking /\ req[s].slot = Nothing
       => req[s].teacher = teacherOf[req[s].course] \/ req[s].course \in adrift
    /\ req[s].pc = "read"
       => req[s].teacher = teacherOf[req[s].course] \/ req[s].course \in adrift
    /\ req[s].pc = "moved"
       => req[s].new = teacherOf[req[s].course] \/ req[s].course \in adrift

\* The teacher a request will write stays that of the course, or the course is
\* noted as crossed when it changes.
LEMMA TeachersStep == TypeOK /\ TeachersRead /\ [Next]_vars => TeachersRead'
<1> SUFFICES ASSUME TypeOK, TeachersRead, [Next]_vars, NEW s \in Requests
             PROVE  KnowsTeacher(s)'
  BY DEF TeachersRead, KnowsTeacher
<1>1. KnowsTeacher(s)
  BY DEF TeachersRead, KnowsTeacher
<1>2. CASE UNCHANGED <<teacherOf, adrift>> /\ req'[s] = req[s]
  BY <1>1, <1>2 DEF KnowsTeacher
<1>3. CASE req'[s] = Idle
  BY <1>3 DEF KnowsTeacher, Idle, Checking
<1>4. ASSUME NEW r \in Requests, NEW q \in Slots, NEW row \in Columns, Writes(r, q, row)
      PROVE  KnowsTeacher(s)'
  <2>1. /\ teacherOf' = teacherOf /\ adrift' = adrift /\ req'[r] = Idle
        /\ s # r => StaysWith(s, q)
    BY <1>4, WriteEffect
  <2>2. CASE s = r
    BY <1>3, <2>1, <2>2
  <2>3. CASE s # r
    <3>1. CASE req[s].pc \notin Checking
      BY <1>2, <2>1, <2>3, <3>1 DEF StaysWith
    <3>2. CASE req[s].pc \in Checking
      <4>1. /\ req'[s].pc = req[s].pc /\ req'[s].course = req[s].course
            /\ req'[s].teacher = req[s].teacher /\ req'[s].slot = req[s].slot
        BY <2>1, <2>3, <3>2 DEF StaysWith
      <4>2. req[s].pc \notin {"read", "moved"}
        BY <3>2 DEF Checking
      <4>3. QED
        BY <1>1, <2>1, <4>1, <4>2 DEF KnowsTeacher
    <3>3. QED
      BY <3>1, <3>2
  <2>4. QED
    BY <2>2, <2>3
<1>5. ASSUME NEW r \in Requests, UpdateCourse(r) PROVE KnowsTeacher(s)'
  <2> DEFINE c == req[r].course
  <2>1. /\ req[r] \in CourseReq /\ req[r].pc = "read"
        /\ teacherOf' = [teacherOf EXCEPT ![c] = req[r].new]
        /\ adrift' = IF req[r].new # teacherOf[c] /\ Rivals(r) # {} THEN adrift \cup {c} ELSE adrift
        /\ IF req[r].new = req[r].teacher THEN Ends(r) ELSE req' = [req EXCEPT ![r].pc = "moved"]
    BY <1>5, Shape DEF UpdateCourse
  <2>2. c \in Courses /\ teacherOf'[c] = req[r].new
        /\ \A d \in Courses : d # c => teacherOf'[d] = teacherOf[d]
    BY <2>1 DEF CourseReq, TypeOK
  <2>3. CASE s = r
    <3>1. \/ req'[r] = Idle
          \/ req'[r].pc = "moved" /\ req'[r].course = c /\ req'[r].new = req[r].new
      BY <2>1 DEF Ends, TypeOK, CourseReq
    <3>2. QED
      BY <1>3, <2>2, <2>3, <3>1 DEF KnowsTeacher, Checking
  <2>4. CASE s # r
    <3>1. req'[s] = req[s]
      BY <2>1, <2>4 DEF Ends, TypeOK
    <3>2. CASE req[s].pc \notin Checking \cup {"read", "moved"}
      BY <3>1, <3>2 DEF KnowsTeacher
    <3>3. CASE req[s].pc \in Checking \cup {"read", "moved"}
      <4>1. req[s].course \in Courses
        BY <3>3, Shape DEF SlotReq, CourseReq
      <4>2. CASE req[s].course # c
        BY <1>1, <2>1, <2>2, <3>1, <4>1, <4>2 DEF KnowsTeacher
      <4>3. CASE req[s].course = c /\ req[r].new = teacherOf[c]
        BY <1>1, <2>1, <2>2, <3>1, <4>3 DEF KnowsTeacher
      <4>4. CASE req[s].course = c /\ req[r].new # teacherOf[c]
        <5>1. CASE req[s].pc \in Checking /\ req[s].slot # Nothing
          BY <3>1, <5>1 DEF KnowsTeacher, Checking
        <5>2. CASE ~(req[s].pc \in Checking /\ req[s].slot # Nothing)
          <6>1. s \in Rivals(r)
            BY <2>4, <3>3, <4>4, <5>2 DEF Rivals
          <6>2. c \in adrift'
            BY <2>1, <4>4, <6>1
          <6>3. QED
            BY <3>1, <4>4, <6>2 DEF KnowsTeacher
        <5>3. QED
          BY <5>1, <5>2
      <4>5. QED
        BY <4>2, <4>3, <4>4
    <3>4. QED
      BY <3>2, <3>3
  <2>5. QED
    BY <2>3, <2>4
<1>6. ASSUME NEW r \in Requests, MoveSlots(r) PROVE KnowsTeacher(s)'
  <2> DEFINE c == req[r].course
  <2>1. /\ teacherOf' = teacherOf
        /\ adrift' = IF teacherOf[c] = req[r].new /\ Rivals(r) = {} THEN adrift \ {c} ELSE adrift
        /\ req'[r] = Idle
        /\ s # r => req'[s] = req[s]
    BY <1>6 DEF MoveSlots, Ends, TypeOK
  <2>2. CASE s # r
    <3>1. CASE Rivals(r) # {}
      BY <1>1, <2>1, <2>2, <3>1 DEF KnowsTeacher
    <3>2. CASE Rivals(r) = {}
      <4>1. s \notin Rivals(r)
        BY <3>2
      <4>2. CASE req[s].course = c
        <5>1. /\ req[s].pc \notin {"read", "moved"}
              /\ ~(req[s].pc \in Checking /\ req[s].slot = Nothing)
          BY <2>2, <4>1, <4>2 DEF Rivals, Checking
        <5>2. QED
          BY <2>1, <2>2, <5>1 DEF KnowsTeacher
      <4>3. CASE req[s].course # c
        BY <1>1, <2>1, <2>2, <4>3 DEF KnowsTeacher
      <4>4. QED
        BY <4>2, <4>3
    <3>3. QED
      BY <3>1, <3>2
  <2>3. QED
    BY <1>3, <2>1, <2>2
<1>7. ASSUME NEW r \in Requests, LeaveSlots(r) PROVE KnowsTeacher(s)'
  <2>1. /\ teacherOf' = teacherOf /\ adrift \subseteq adrift' /\ req'[r] = Idle
        /\ s # r => req'[s] = req[s]
    BY <1>7 DEF LeaveSlots, Ends, TypeOK
  <2>2. QED
    BY <1>1, <1>3, <2>1 DEF KnowsTeacher
<1>8. ASSUME NEW r \in Requests,
             \/ \E c \in Courses, day \in Days, from, to \in Hours, room \in Rooms :
                    BeginCreate(r, c, day, from, to, room)
             \/ \E c \in Courses : BeginUpdate(r, c)
             \/ \E c \in Courses, new \in Teachers : BeginUpdateCourse(r, c, new)
      PROVE  KnowsTeacher(s)'
  <2>1. teacherOf' = teacherOf /\ adrift' = adrift /\ (s # r => req'[s] = req[s])
    BY <1>8 DEF BeginCreate, BeginUpdate, BeginUpdateCourse, TypeOK, history
  <2>2. /\ req'[r].pc \in {"asked", "begun", "read"}
        /\ req'[r].teacher = teacherOf[req'[r].course]
    BY <1>8 DEF BeginCreate, BeginUpdate, BeginUpdateCourse, TypeOK
  <2>3. QED
    BY <1>2, <2>1, <2>2 DEF KnowsTeacher, Checking
<1>9. ASSUME NEW r \in Requests,
             \/ \E q \in Slots, dto \in Given, day \in Days, from, to \in Hours, room \in Rooms :
                    ReadSlot(r, q, dto, day, from, to, room)
             \/ CheckRoom(r) \/ CheckTeacher(r) \/ Refuse(r)
      PROVE  KnowsTeacher(s)'
  <2>1. teacherOf' = teacherOf /\ adrift' = adrift /\ (s # r => req'[s] = req[s])
    BY <1>9 DEF ReadSlot, CheckRoom, CheckTeacher, Refuse, Ends, TypeOK, history
  <2>2. ASSUME NEW q \in Slots, NEW dto \in Given, NEW day \in Days, NEW from \in Hours,
               NEW to \in Hours, NEW room \in Rooms, ReadSlot(r, q, dto, day, from, to, room)
        PROVE  KnowsTeacher(r)'
    <3>1. req'[r].pc = "asked" /\ req'[r].slot = q /\ q # Nothing
      BY <2>2, RowsAssumption DEF ReadSlot, TypeOK
    <3>2. QED
      BY <3>1 DEF KnowsTeacher
  <2>3. ASSUME CheckRoom(r) \/ CheckTeacher(r) PROVE s = r => KnowsTeacher(s)'
    <3>1. req[r] \in SlotReq /\ req[r].pc \in Checking
      BY <2>3, Shape DEF CheckRoom, CheckTeacher, Checking
    <3>2. /\ req'[r].course = req[r].course /\ req'[r].slot = req[r].slot
          /\ req'[r].teacher = req[r].teacher /\ req'[r].pc \in Checking
      <4>1. CASE CheckRoom(r)
        BY <3>1, <4>1 DEF CheckRoom, TypeOK, SlotReq, Checking
      <4>2. CASE CheckTeacher(r)
        BY <3>1, <4>2 DEF CheckTeacher, TypeOK, SlotReq, Checking
      <4>3. QED
        BY <2>3, <4>1, <4>2
    <3>3. QED
      BY <1>1, <2>1, <3>1, <3>2 DEF KnowsTeacher, Checking
  <2>4. ASSUME Refuse(r) PROVE req'[r] = Idle
    BY <2>4 DEF Refuse, Ends, TypeOK
  <2>5. QED
    BY <1>2, <1>3, <1>9, <2>1, <2>2, <2>3, <2>4
<1>10. ASSUME NEW q \in Slots, DeleteSlot(q) PROVE KnowsTeacher(s)'
  BY <1>2, <1>10, DeleteEffect
<1>11. CASE UNCHANGED vars
  BY <1>2, <1>11 DEF vars, history
<1>12. QED
  BY <1>4, <1>5, <1>6, <1>7, <1>8, <1>9, <1>10, <1>11, CreateWrites, UpdateWrites
     DEF Next, SlotStep, CourseStep

\* A row leaves the teacher of its course only where updateCourse stops
\* between its two statements or crosses another request.
LEMMA RowsStep ==
    TypeOK /\ TeachersRead /\ RowsFollowCourse /\ [Next]_vars => RowsFollowCourse'
<1> SUFFICES ASSUME TypeOK, TeachersRead, RowsFollowCourse, [Next]_vars
             PROVE  RowsFollowCourse'
  OBVIOUS
<1>1. ASSUME NEW r \in Requests, NEW q \in Slots, NEW row \in Columns, Writes(r, q, row)
      PROVE  RowsFollowCourse'
  <2>1. /\ slot'[q] = row /\ \A p \in Slots : p # q => slot'[p] = slot[p]
        /\ Booked(slot') = Booked(slot) \cup {q}
        /\ teacherOf' = teacherOf /\ adrift' = adrift
        /\ \A s \in Requests : s # r => StaysWith(s, q)
    BY <1>1, WriteEffect
  <2>2. req[r].pc \in Checking /\ req[r].pc # "moved"
    BY <1>1 DEF Writes, Checking
  <2>3. \A c : c \in Moving => c \in Moving'
    BY <2>1, <2>2, MovesGoOn DEF StaysWith, Checking
  <2>4. row.teacher = teacherOf[row.course] \/ row.course \in adrift \cup Moving
    <3>1. CASE req[r].slot = Nothing
      <4>1. row.teacher = req[r].teacher /\ row.course = req[r].course
        BY <1>1, <3>1, RowsAssumption DEF Writes
      <4>2. QED
        BY <2>2, <3>1, <4>1 DEF TeachersRead
    <3>2. CASE req[r].slot # Nothing
      <4>1. q \in Booked(slot) /\ row.teacher = slot[q].teacher /\ row.course = slot[q].course
        BY <1>1, <3>2 DEF Writes
      <4>2. QED
        BY <4>1 DEF RowsFollowCourse
    <3>3. QED
      BY <3>1, <3>2
  <2>5. ASSUME NEW p \in Booked(slot'), p # q
        PROVE  slot'[p].teacher = teacherOf[slot'[p].course]
               \/ slot'[p].course \in adrift \cup Moving
    BY <2>1, <2>5 DEF RowsFollowCourse, Booked
  <2>6. QED
    BY <2>1, <2>3, <2>4, <2>5 DEF RowsFollowCourse
<1>2. ASSUME NEW r \in Requests, UpdateCourse(r) PROVE RowsFollowCourse'
  <2> DEFINE c == req[r].course
  <2>1. /\ req[r] \in CourseReq /\ req[r].pc = "read" /\ slot' = slot
        /\ teacherOf' = [teacherOf EXCEPT ![c] = req[r].new]
        /\ adrift \subseteq adrift'
        /\ \A s \in Requests : s # r => req'[s] = req[s]
    BY <1>2, Shape DEF UpdateCourse, Ends, TypeOK
  <2>2. \A d \in Courses : d # c => teacherOf'[d] = teacherOf[d]
    BY <2>1 DEF TypeOK
  <2>3. teacherOf'[c] = teacherOf[c] \/ c \in adrift' \cup Moving'
    <3>1. CASE req[r].new = req[r].teacher
      BY <2>1, <3>1 DEF TeachersRead, TypeOK, CourseReq
    <3>2. CASE req[r].new # req[r].teacher
      <4>1. req'[r].pc = "moved" /\ req'[r].course = c
        BY <1>2, <2>1, <3>2 DEF UpdateCourse, TypeOK, CourseReq
      <4>2. QED
        BY <4>1 DEF Moving
    <3>3. QED
      BY <3>1, <3>2
  <2>4. \A d : d \in Moving => d \in Moving'
    BY <2>1, MovesGoOn
  <2>5. \A q \in Booked(slot) : slot[q].course \in Courses
    BY DEF TypeOK, Booked, Row, Columns
  <2>6. QED
    BY <2>1, <2>2, <2>3, <2>4, <2>5 DEF RowsFollowCourse, Booked
<1>3. ASSUME NEW r \in Requests, MoveSlots(r) PROVE RowsFollowCourse'
  <2> DEFINE c == req[r].course
  <2>1. /\ req[r].pc = "moved" /\ teacherOf' = teacherOf
        /\ adrift' = IF teacherOf[c] = req[r].new /\ Rivals(r) = {} THEN adrift \ {c} ELSE adrift
        /\ \A s \in Requests : s # r => req'[s] = req[s]
    BY <1>3 DEF MoveSlots, Ends, TypeOK
  <2>2. ASSUME NEW d, d # c, d \in Moving PROVE d \in Moving'
    BY <2>1, <2>2 DEF Moving
  <2>3. req[r].new = teacherOf[c] \/ c \in adrift'
    BY <2>1 DEF TeachersRead
  <2>4. ASSUME NEW q \in Booked(slot')
        PROVE  \/ slot'[q].teacher = teacherOf[slot'[q].course]
               \/ slot'[q].course \in adrift' \cup Moving'
    <3>1. /\ q \in Booked(slot) /\ slot'[q].course = slot[q].course
          /\ slot'[q].teacher = IF slot[q].course = c THEN req[r].new ELSE slot[q].teacher
      BY <1>3, MoveKeepsPlaces
    <3>2. CASE slot[q].course = c
      BY <2>3, <3>1, <3>2
    <3>3. CASE slot[q].course # c
      BY <2>1, <2>2, <3>1, <3>3 DEF RowsFollowCourse
    <3>4. QED
      BY <3>2, <3>3
  <2>5. QED
    BY <2>1, <2>4 DEF RowsFollowCourse
<1>4. ASSUME NEW r \in Requests, LeaveSlots(r) PROVE RowsFollowCourse'
  <2>1. /\ teacherOf' = teacherOf /\ slot' = slot
        /\ adrift' = adrift \cup {req[r].course}
        /\ \A s \in Requests : s # r => req'[s] = req[s]
    BY <1>4 DEF LeaveSlots, Ends, TypeOK
  <2>2. ASSUME NEW d, d # req[r].course, d \in Moving PROVE d \in Moving'
    BY <2>1, <2>2 DEF Moving
  <2>3. QED
    BY <2>1, <2>2 DEF RowsFollowCourse, Booked
<1>5. ASSUME NEW q \in Slots, DeleteSlot(q) PROVE RowsFollowCourse'
  <2>1. /\ Booked(slot') \subseteq Booked(slot) /\ \A p \in Booked(slot') : slot'[p] = slot[p]
        /\ teacherOf' = teacherOf /\ adrift' = adrift /\ req' = req
    BY <1>5, DeleteEffect
  <2>2. QED
    BY <2>1 DEF RowsFollowCourse, Moving
<1>6. CASE UNCHANGED vars
  BY <1>6 DEF vars, history, RowsFollowCourse, Booked, Moving
<1>7. ASSUME NEW r \in Requests,
             \/ \E c \in Courses, day \in Days, from, to \in Hours, room \in Rooms :
                    BeginCreate(r, c, day, from, to, room)
             \/ \E c \in Courses : BeginUpdate(r, c)
             \/ \E q \in Slots, dto \in Given, day \in Days, from, to \in Hours, room \in Rooms :
                    ReadSlot(r, q, dto, day, from, to, room)
             \/ CheckRoom(r) \/ CheckTeacher(r) \/ Refuse(r)
             \/ \E c \in Courses, new \in Teachers : BeginUpdateCourse(r, c, new)
      PROVE  RowsFollowCourse'
  <2>1. /\ UNCHANGED <<teacherOf, slot, adrift>>
        /\ \A s \in Requests : s # r => req'[s] = req[s]
    BY <1>7 DEF BeginCreate, BeginUpdate, ReadSlot, CheckRoom, CheckTeacher, Refuse, Ends,
       BeginUpdateCourse, TypeOK, history
  <2>2. req[r].pc # "moved"
    BY <1>7 DEF BeginCreate, BeginUpdate, ReadSlot, CheckRoom, CheckTeacher, Refuse,
       BeginUpdateCourse, Checking, Idle
  <2>3. \A c : c \in Moving => c \in Moving'
    BY <2>1, <2>2, MovesGoOn
  <2>4. QED
    BY <2>1, <2>3 DEF RowsFollowCourse, Booked
<1>8. QED
  BY <1>1, <1>2, <1>3, <1>4, <1>5, <1>6, <1>7, CreateWrites, UpdateWrites
     DEF Next, SlotStep, CourseStep

-----------------------------------------------------------------------------
\* The inductive invariant, for any number of requests, schools and crashes.
THEOREM Inductive == Spec => []IInv
<1>1. Init => IInv
  BY DEF Init, IInv, TypeOK, Constraints, TeacherExcluded, RoomsSharedUnseen,
     SessionsHaveLength, RowsFollowCourse, TeachersRead, ChecksStillHold, Checking, Booked, Idle
<1>2. IInv /\ [Next]_vars => IInv'
  <2>1. IInv /\ [Next]_vars => /\ TypeOK' /\ RoomsSharedUnseen' /\ SessionsHaveLength'
                               /\ RowsFollowCourse' /\ TeachersRead' /\ ChecksStillHold'
                               /\ Constraints(slot')
    BY TypeStep, ConstraintsStep, RoomStep, LengthStep, RowsStep, TeachersStep, ChecksStep
       DEF IInv
  <2>2. QED
    BY <2>1 DEF IInv
<1>3. QED
  BY <1>1, <1>2, PTL DEF Spec

\* ensureNoRoomConflict keeps a room to one session at a time, but for sessions
\* that were written without seeing each other.
THEOREM RoomsCorrect == Spec => []RoomsSharedUnseen
<1>1. IInv => RoomsSharedUnseen
  BY DEF IInv
<1>2. QED
  BY <1>1, Inductive, PTL

\* Every session has a length, but for one written from a row that had changed.
THEOREM LengthsCorrect == Spec => []SessionsHaveLength
<1>1. IInv => SessionsHaveLength
  BY DEF IInv
<1>2. QED
  BY <1>1, Inductive, PTL

\* Rows of slots have the teacher of their course, but where updateCourse is
\* between its two statements, stopped there, or crossed another request.
THEOREM RowsCorrect == Spec => []RowsFollowCourse
<1>1. IInv => RowsFollowCourse
  BY DEF IInv
<1>2. QED
  BY <1>1, Inductive, PTL

\* The timetable never shows a teacher in two places, over all schools, but for
\* a course whose rows may not follow it.
THEOREM ShownTeachersCorrect == Spec => []ShownTeacherIsFree
<1>1. IInv => ShownTeacherIsFree
  BY DEF IInv, ShownTeacherIsFree, RowsFollowCourse, Constraints, TeacherExcluded
<1>2. QED
  BY <1>1, Inductive, PTL
=============================================================================
