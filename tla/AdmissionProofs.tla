-------------------------- MODULE AdmissionProofs --------------------------
(***************************************************************************)
(* Proofs about Admission: for any finite set of candidates, any requests  *)
(* and any capacity, as long as nobody decides twice at once on one        *)
(* application and, but for one property, the offer has a capacity.        *)
(***************************************************************************)
EXTENDS Admission, FiniteSetTheorems, TLAPS

\* What the proofs say of the transition table, seen as a whole.
LEMMA TableFacts ==
  ASSUME NEW prev \in Statuses, NEW to \in Statuses, ValidTransition(prev, to)
  PROVE  /\ prev \in Closed => to = prev
         /\ to = "ENROLLED" => prev \in Seated
         /\ prev \in Seated => to \in Seated \cup {"CANCELLED"}
BY DEF ValidTransition, Transitions, Statuses, Closed, Seated, Early

\* Every action leaves each variable in its type.
LEMMA TypeStep == TypeOK /\ [Next]_vars => TypeOK'
<1> SUFFICES ASSUME TypeOK, [Next]_vars PROVE TypeOK'
  OBVIOUS
<1> USE AppsAssumption, OfferAssumption DEF TypeOK
<1>1. ASSUME NEW a \in Apps, Submit(a) PROVE TypeOK'
  BY <1>1 DEF Submit, Statuses
<1>2. ASSUME NEW r \in Requests, NEW a \in Apps, NEW to \in Targets,
             ReadApplication(r, a, to)
      PROVE  TypeOK'
  BY <1>2 DEF ReadApplication, Decision
<1>3. ASSUME NEW r \in Requests, Overwrite(r) \/ CommitDecision(r) PROVE TypeOK'
  <2>1. req[r] \in Decision
    BY <1>3 DEF Overwrite, CommitDecision, Idle
  <2>2. req[r].on \in Apps /\ req[r].to \in Statuses
    BY <2>1 DEF Decision
  <2>3. status' \in [Apps -> Statuses \cup {"absent"}]
    BY <1>3, <2>2 DEF Overwrite, CommitDecision, Statuses
  <2>4. attempted' \subseteq Apps
    BY <1>3, <2>2 DEF Overwrite, CommitDecision, Attempt
  <2>5. ASSUME NEW rows, Finish(r, rows) PROVE req' \in [Requests -> Decision \cup {Idle}]
    <3>1. \A q \in Decision : [q EXCEPT !.beaten = TRUE] \in Decision
      BY DEF Decision
    <3>2. \A s \in Requests : req[s].pc = "open" => req[s] \in Decision
      BY DEF Idle
    <3>3. QED
      BY <2>5, <3>1, <3>2 DEF Finish
  <2>6. QED
    BY <1>3, <2>3, <2>4, <2>5 DEF Overwrite, CommitDecision
<1>4. ASSUME NEW r \in Requests, BeginDecision(r) PROVE TypeOK'
  <2>1. \A next \in Promotable(r) : next \in Apps \cup {Nothing}
    BY DEF Promotable, Waiting
  <2>2. req[r] \in Decision
    BY <1>4 DEF BeginDecision, Idle
  <2>3. \A q \in Decision, next \in Promotable(r) :
           [q EXCEPT !.pc = "open", !.next = next] \in Decision
    BY <2>1 DEF Decision
  <2>4. QED
    BY <1>4, <2>2, <2>3 DEF BeginDecision
<1>5. ASSUME NEW r \in Requests, Abandon(r) PROVE TypeOK'
  BY <1>5 DEF Abandon
<1>6. CASE UNCHANGED vars
  BY <1>6 DEF vars
<1>7. QED
  BY <1>1, <1>2, <1>3, <1>4, <1>5, <1>6 DEF Next

\* Each variable keeps its type, whatever the decisions.
THEOREM TypeCorrect == Spec => []TypeOK
<1>1. Init => TypeOK
  BY DEF Init, TypeOK
<1>2. QED
  BY <1>1, TypeStep, PTL DEF Spec

-----------------------------------------------------------------------------
(* Counting seats *)

LEMMA FewerSeats ==
  ASSUME NEW S \in SUBSET Apps, NEW T \in SUBSET S
  PROVE  /\ Cardinality(S) \in Nat /\ Cardinality(T) \in Nat
         /\ Cardinality(T) <= Cardinality(S)
<1>1. IsFiniteSet(S)
  BY AppsAssumption, FS_Subset
<1>2. IsFiniteSet(T)
  BY <1>1, FS_Subset
<1>3. QED
  BY <1>1, <1>2, FS_Subset, FS_CardinalityType

LEMMA OneMoreSeat ==
  ASSUME NEW S \in SUBSET Apps, NEW x \in Apps
  PROVE  Cardinality(S \cup {x}) <= Cardinality(S) + 1
<1>1. IsFiniteSet(S) /\ Cardinality(S) \in Nat
  BY AppsAssumption, FS_Subset, FewerSeats
<1>2. Cardinality(S \cup {x}) = IF x \in S THEN Cardinality(S) ELSE Cardinality(S) + 1
  BY <1>1, FS_AddElement
<1>3. QED
  BY <1>1, <1>2

LEMMA SeatHandedOver ==
  ASSUME NEW S \in SUBSET Apps, NEW x \in S, NEW y \in Apps
  PROVE  Cardinality((S \ {x}) \cup {y}) <= Cardinality(S)
<1>1. IsFiniteSet(S) /\ Cardinality(S) \in Nat
  BY AppsAssumption, FS_Subset, FewerSeats
<1>2. Cardinality(S \ {x}) = Cardinality(S) - 1
  BY <1>1, FS_RemoveElement
<1>3. Cardinality((S \ {x}) \cup {y}) <= Cardinality(S \ {x}) + 1
  BY OneMoreSeat
<1>4. QED
  BY <1>1, <1>2, <1>3

-----------------------------------------------------------------------------
(* The invariant *)

LEMMA InitInv == Init => IInv
<1> SUFFICES ASSUME Init PROVE IInv
  OBVIOUS
<1>1. TypeOK /\ DecisionsAreCurrent /\ OpenDecisionsHold /\ EnrollmentFollowsAcceptance
  BY DEF Init, TypeOK, DecisionsAreCurrent, OpenDecisionsHold,
     EnrollmentFollowsAcceptance, Idle
<1>2. Taken = {}
  BY DEF Init, Taken, Seated
<1>3. CapacityRespected
  BY <1>2, FS_EmptySet, OfferAssumption DEF CapacityRespected
<1>4. QED
  BY <1>1, <1>3 DEF IInv

\* What the end of request r leaves of the others: all but their chance to commit.
LEMMA OthersGoOn ==
  ASSUME TypeOK, NEW r \in Requests, NEW rows, Finish(r, rows),
         NEW s \in Requests, req'[s].pc # "idle"
  PROVE  /\ s # r
         /\ req'[s].pc = req[s].pc /\ req'[s].on = req[s].on
         /\ req'[s].prev = req[s].prev /\ req'[s].to = req[s].to
         /\ req'[s].next = req[s].next
         /\ req[s].pc = "open" /\ ~req'[s].beaten =>
               ~req[s].beaten /\ ~Serializable(r) /\ req[s].next \notin rows
<1>1. s # r
  BY DEF Finish, Idle
<1>2. req[s] \in Decision
  BY <1>1 DEF Finish, TypeOK, Idle
<1>3. \A q \in Decision : LET b == [q EXCEPT !.beaten = TRUE] IN
         /\ b.pc = q.pc /\ b.on = q.on /\ b.prev = q.prev /\ b.to = q.to
         /\ b.next = q.next /\ b.beaten = TRUE
  BY DEF Decision
<1>4. req'[s] = IF req[s].pc = "open" /\ (Serializable(r) \/ req[s].next \in rows)
                THEN [req[s] EXCEPT !.beaten = TRUE] ELSE req[s]
  BY <1>1 DEF Finish
<1>5. QED
  BY <1>1, <1>2, <1>3, <1>4

\* A decision is alone on its application, and knows as much of its status as
\* the table needs.
LEMMA KnowsItsApplication ==
  ASSUME IInv, NEW r \in Requests, req[r].pc # "idle"
  PROVE  /\ req[r] \in Decision
         /\ req[r].prev \in Seated => status[req[r].on] = req[r].prev
         /\ req[r].prev \in Closed => status[req[r].on] = req[r].prev
         /\ status[req[r].on] \in Closed => req[r].to = status[req[r].on]
         /\ req[r].to = "ENROLLED" => status[req[r].on] \in Seated
         /\ req[r].on \in attempted => req[r].to \in Seated \cup {"CANCELLED"}
         /\ req[r].on # Nothing
<1>1. req[r] \in Decision
  BY DEF IInv, TypeOK, Idle
<1>2. req[r].prev \in Statuses /\ req[r].to \in Statuses /\ req[r].on \in Apps
  BY <1>1 DEF Decision
<1>3. /\ \/ status[req[r].on] = req[r].prev
         \/ /\ req[r].prev = "WAITLISTED" /\ status[req[r].on] = "ACCEPTED"
            /\ req[r].on \notin attempted
      /\ ValidTransition(req[r].prev, req[r].to)
  BY DEF IInv, DecisionsAreCurrent
<1>4. /\ req[r].prev \in Closed => req[r].to = req[r].prev
      /\ req[r].to = "ENROLLED" => req[r].prev \in Seated
      /\ req[r].prev \in Seated => req[r].to \in Seated \cup {"CANCELLED"}
  BY <1>2, <1>3, TableFacts
<1>5. req[r].prev = "CANCELLED" => req[r].to = "CANCELLED"
  BY <1>4 DEF Closed
<1>6. req[r].on \in attempted => status[req[r].on] \in Seated \cup {"CANCELLED"}
  BY DEF IInv, EnrollmentFollowsAcceptance
<1>7. QED
  BY <1>1, <1>2, <1>3, <1>4, <1>5, <1>6, AppsAssumption DEF Seated, Closed

\* The three actions that write no row.
LEMMA QuietStep ==
  ASSUME IInv, OneAtATime, Capacity # 0, NEW r \in Requests,
         \/ \E a \in Apps, to \in Targets : ReadApplication(r, a, to)
         \/ BeginDecision(r)
         \/ Abandon(r)
  PROVE  DecisionsAreCurrent' /\ OpenDecisionsHold'
<1> USE DEF IInv, TypeOK
<1>0. /\ status' = status /\ attempted' = attempted /\ Taken' = Taken
      /\ \A s \in Requests \ {r} : req'[s] = req[s]
  BY DEF ReadApplication, BeginDecision, Abandon, Taken
<1>1. ASSUME NEW a \in Apps, NEW to \in Targets, ReadApplication(r, a, to)
      PROVE  DecisionsAreCurrent' /\ OpenDecisionsHold'
  <2>1. /\ req'[r].on = a /\ req'[r].prev = status[a] /\ req'[r].to = to
        /\ req'[r].pc = "read"
        /\ \A s \in Requests : req[s].on # a
        /\ ValidTransition(status[a], to)
    BY <1>1 DEF ReadApplication
  <2>2. DecisionsAreCurrent'
    BY <1>0, <2>1 DEF DecisionsAreCurrent
  <2>3. OpenDecisionsHold'
    <3> SUFFICES ASSUME NEW s \in Requests, req'[s].pc = "open"
                 PROVE  /\ Serializable(s)'
                        /\ ~req'[s].beaten => RoomLeft(s)'
                        /\ req'[s].next # Nothing => FreesASeat(s)'
                        /\ req'[s].next # Nothing /\ ~req'[s].beaten
                              => status'[req'[s].next] = "WAITLISTED"
      BY DEF OpenDecisionsHold
    <3>1. s # r
      BY <2>1
    <3>2. QED
      BY <1>0, <3>1 DEF OpenDecisionsHold, Serializable, FreesASeat, RoomLeft
  <2>4. QED
    BY <2>2, <2>3
<1>2. CASE BeginDecision(r)
  <2>1. req[r] \in Decision
    BY <1>2, KnowsItsApplication DEF BeginDecision
  <2>2. PICK next \in Promotable(r) :
           req' = [req EXCEPT ![r] = [@ EXCEPT !.pc = "open", !.next = next]]
    BY <1>2 DEF BeginDecision
  <2>3. /\ req'[r].on = req[r].on /\ req'[r].prev = req[r].prev
        /\ req'[r].to = req[r].to /\ req'[r].pc = "open" /\ req'[r].next = next
    BY <2>1, <2>2 DEF Decision
  <2>4. req[r].pc # "idle"
    BY <1>2 DEF BeginDecision
  <2>5. DecisionsAreCurrent'
    BY <1>0, <2>3, <2>4 DEF DecisionsAreCurrent
  <2>6. Serializable(r) /\ RoomLeft(r)
    BY <1>2 DEF BeginDecision, Serializable
  <2>7. next # Nothing => FreesASeat(r) /\ status[next] = "WAITLISTED"
    BY DEF Promotable, Waiting
  <2>8. OpenDecisionsHold'
    <3> SUFFICES ASSUME NEW s \in Requests, req'[s].pc = "open"
                 PROVE  /\ Serializable(s)'
                        /\ ~req'[s].beaten => RoomLeft(s)'
                        /\ req'[s].next # Nothing => FreesASeat(s)'
                        /\ req'[s].next # Nothing /\ ~req'[s].beaten
                              => status'[req'[s].next] = "WAITLISTED"
      BY DEF OpenDecisionsHold
    <3>1. CASE s # r
      BY <1>0, <3>1 DEF OpenDecisionsHold, Serializable, FreesASeat, RoomLeft
    <3>2. CASE s = r
      BY <1>0, <2>3, <2>6, <2>7, <3>2 DEF Serializable, FreesASeat, RoomLeft
    <3>3. QED
      BY <3>1, <3>2
  <2>9. QED
    BY <2>5, <2>8
<1>3. CASE Abandon(r)
  <2>1. req'[r] = Idle
    BY <1>3 DEF Abandon
  <2>2. DecisionsAreCurrent'
    <3>1. \A s \in Requests : req[s].pc # "idle" => req[s].on # Nothing
      BY KnowsItsApplication
    <3>2. QED
      BY <1>0, <2>1, <3>1 DEF DecisionsAreCurrent, Idle
  <2>3. OpenDecisionsHold'
    BY <1>0, <2>1 DEF OpenDecisionsHold, Serializable, FreesASeat, RoomLeft, Idle
  <2>4. QED
    BY <2>2, <2>3
<1>4. QED
  BY <1>1, <1>2, <1>3

\* What both kinds of write do to the rows: their own application gets the
\* status asked for, and a commit accepts the candidate it promotes, who was
\* waiting.
LEMMA WriteEffect ==
  ASSUME IInv, Capacity # 0, NEW r \in Requests, Overwrite(r) \/ CommitDecision(r)
  PROVE  \E rows \in SUBSET Apps :
            /\ Finish(r, rows) /\ req[r].on \in rows
            /\ \A b \in rows : b # req[r].on => status[b] = "WAITLISTED" /\ FreesASeat(r)
            /\ \A b, c \in rows \ {req[r].on} : b = c
            /\ status' = [b \in Apps |-> IF b = req[r].on THEN req[r].to
                                         ELSE IF b \in rows THEN "ACCEPTED"
                                         ELSE status[b]]
<1> DEFINE a == req[r].on
           next == req[r].next
<1>1. req[r].pc # "idle" /\ req[r] \in Decision /\ a \in Apps
  BY KnowsItsApplication DEF Overwrite, CommitDecision, Decision
<1>2. CASE Overwrite(r)
  <2>1. status' = [b \in Apps |-> IF b = a THEN req[r].to
                                  ELSE IF b \in {a} THEN "ACCEPTED" ELSE status[b]]
    BY <1>1, <1>2 DEF Overwrite, IInv, TypeOK
  <2>2. Finish(r, {a}) /\ {a} \in SUBSET Apps
    BY <1>1, <1>2 DEF Overwrite
  <2>3. QED
    BY <2>1, <2>2
<1>3. CASE CommitDecision(r)
  <2> DEFINE rows == {a, next} \ {Nothing}
  <2>1. /\ req[r].pc = "open" /\ Serializable(r) /\ ~req[r].beaten
        /\ next # Nothing => FreesASeat(r) /\ status[next] = "WAITLISTED"
    BY <1>3 DEF CommitDecision, IInv, OpenDecisionsHold
  <2>2. next \in Apps \cup {Nothing}
    BY <1>1 DEF Decision
  <2>3. next # a
    <3>1. CASE next = Nothing
      BY <1>1, <3>1, AppsAssumption
    <3>2. CASE next # Nothing
      BY <1>1, <2>1, <3>2, KnowsItsApplication DEF FreesASeat, Seated
    <3>3. QED
      BY <3>1, <3>2
  <2>4. status' = [b \in Apps |-> IF b = a THEN req[r].to
                                  ELSE IF b \in rows THEN "ACCEPTED" ELSE status[b]]
    BY <1>1, <1>3, <2>2, <2>3, AppsAssumption DEF CommitDecision
  <2>5. Finish(r, rows) /\ rows \in SUBSET Apps /\ a \in rows
    BY <1>1, <1>3, <2>2, AppsAssumption DEF CommitDecision
  <2>6. \A b \in rows : b # a => b = next /\ next # Nothing
    OBVIOUS
  <2> HIDE DEF rows
  <2>7. QED
    BY <2>1, <2>4, <2>5, <2>6
<1>4. QED
  BY <1>2, <1>3

\* A decision that can still commit does not add to the seats beyond the
\* capacity: it had room when it began, or it hands one seat over.
LEMMA WriteKeepsCapacity ==
  ASSUME IInv, Capacity # 0, NEW r \in Requests, Overwrite(r) \/ CommitDecision(r)
  PROVE  /\ CapacityRespected'
         /\ ~Serializable(r) => Taken' \subseteq Taken
<1> DEFINE a == req[r].on
<1>1. PICK rows \in SUBSET Apps :
         /\ Finish(r, rows) /\ a \in rows
         /\ \A b \in rows : b # a => status[b] = "WAITLISTED" /\ FreesASeat(r)
         /\ \A b, c \in rows \ {a} : b = c
         /\ status' = [b \in Apps |-> IF b = a THEN req[r].to
                                      ELSE IF b \in rows THEN "ACCEPTED" ELSE status[b]]
  BY WriteEffect
<1>2. a \in Apps /\ req[r].pc # "idle" /\ Taken \in SUBSET Apps /\ Taken' \in SUBSET Apps
  BY <1>1 DEF Taken, Overwrite, CommitDecision
<1>3. Cardinality(Taken) \in Nat /\ Cardinality(Taken) <= Capacity
  BY <1>2, FewerSeats DEF IInv, CapacityRespected
<1>4. CASE FreesASeat(r)
  <2>1. status[a] \in Seated /\ a \in Taken
    BY <1>2, <1>4, KnowsItsApplication DEF FreesASeat, Taken
  <2>2. req[r].to \notin Seated
    BY <1>4 DEF FreesASeat, Closed, Seated
  <2>3. \E y \in Apps : Taken' \subseteq (Taken \ {a}) \cup {y}
    <3>1. CASE rows = {a}
      BY <1>1, <1>2, <2>2, <3>1 DEF Taken
    <3>2. CASE rows # {a}
      <4>1. PICK y \in rows : y # a
        BY <1>1, <3>2
      <4>2. Taken' \subseteq (Taken \ {a}) \cup {y}
        BY <1>1, <1>2, <2>2, <4>1 DEF Taken
      <4>3. QED
        BY <4>1, <4>2
    <3>3. QED
      BY <3>1, <3>2
  <2>4. PICK y \in Apps : Taken' \subseteq (Taken \ {a}) \cup {y}
    BY <2>3
  <2>5. /\ Cardinality(Taken') <= Cardinality((Taken \ {a}) \cup {y})
        /\ Cardinality(Taken') \in Nat /\ Cardinality((Taken \ {a}) \cup {y}) \in Nat
    BY <1>2, <2>4, FewerSeats
  <2>6. Cardinality((Taken \ {a}) \cup {y}) <= Cardinality(Taken)
    BY <1>2, <2>1, SeatHandedOver
  <2>7. CapacityRespected'
    BY <1>3, <2>5, <2>6, OfferAssumption DEF CapacityRespected
  <2>8. Serializable(r)
    BY <1>4 DEF Serializable
  <2>9. QED
    BY <2>7, <2>8
<1>5. CASE ~FreesASeat(r)
  <2>1. rows = {a}
    BY <1>1, <1>5
  <2>2. Taken' \subseteq IF req[r].to \in Seated THEN Taken \cup {a} ELSE Taken
    BY <1>1, <1>2, <2>1 DEF Taken
  <2>3. CASE a \in Taken \/ req[r].to \notin Seated
    <3>1. Taken' \subseteq Taken
      BY <2>2, <2>3
    <3>2. Cardinality(Taken') <= Cardinality(Taken) /\ Cardinality(Taken') \in Nat
      BY <1>2, <3>1, FewerSeats
    <3>3. QED
      BY <1>3, <3>1, <3>2, OfferAssumption DEF CapacityRespected
  <2>4. CASE a \notin Taken /\ req[r].to \in Seated
    <3>1. req[r].to = "ACCEPTED"
      BY <1>2, <2>4, KnowsItsApplication DEF Seated, Taken
    <3>2. Serializable(r) /\ CommitDecision(r)
      BY <3>1 DEF Serializable, Overwrite
    <3>3. req[r].prev # "ACCEPTED"
      BY <1>2, <2>4, KnowsItsApplication DEF Seated, Taken
    <3>4. Cardinality(Taken) < Capacity
      BY <3>1, <3>2, <3>3 DEF CommitDecision, IInv, OpenDecisionsHold, RoomLeft
    <3>5. Cardinality(Taken \cup {a}) <= Cardinality(Taken) + 1
      BY <1>2, OneMoreSeat
    <3>6. /\ Cardinality(Taken') <= Cardinality(Taken \cup {a})
          /\ Cardinality(Taken') \in Nat /\ Cardinality(Taken \cup {a}) \in Nat
      BY <1>2, <2>2, <2>4, FewerSeats
    <3>7. QED
      BY <1>3, <3>2, <3>4, <3>5, <3>6, OfferAssumption DEF CapacityRespected
  <2>5. QED
    BY <2>3, <2>4
<1>6. QED
  BY <1>4, <1>5

LEMMA WriteStep ==
  ASSUME IInv, OneAtATime, Capacity # 0, NEW r \in Requests,
         Overwrite(r) \/ CommitDecision(r)
  PROVE  DecisionsAreCurrent' /\ OpenDecisionsHold' /\ EnrollmentFollowsAcceptance'
<1> DEFINE a == req[r].on
<1>1. PICK rows \in SUBSET Apps :
         /\ Finish(r, rows) /\ a \in rows
         /\ \A b \in rows : b # a => status[b] = "WAITLISTED" /\ FreesASeat(r)
         /\ \A b, c \in rows \ {a} : b = c
         /\ status' = [b \in Apps |-> IF b = a THEN req[r].to
                                      ELSE IF b \in rows THEN "ACCEPTED" ELSE status[b]]
  BY WriteEffect
<1>2. req[r].pc # "idle" /\ a \in Apps
  BY <1>1 DEF Overwrite, CommitDecision
<1>3. attempted' = attempted \cup IF req[r].to \in Seated THEN {a} ELSE {}
  BY DEF Overwrite, CommitDecision, Attempt
<1>4. ASSUME NEW s \in Requests, req'[s].pc # "idle"
      PROVE  /\ s # r
             /\ req'[s].pc = req[s].pc /\ req'[s].on = req[s].on
             /\ req'[s].prev = req[s].prev /\ req'[s].to = req[s].to
             /\ req'[s].next = req[s].next
             /\ req[s].pc = "open" /\ ~req'[s].beaten =>
                   ~req[s].beaten /\ ~Serializable(r) /\ req[s].next \notin rows
  BY <1>1, <1>4, OthersGoOn DEF IInv
<1>5. \A s \in Requests : s # r => req[s].on # a
  BY <1>2 DEF IInv, DecisionsAreCurrent
<1>6. DecisionsAreCurrent'
  <2> SUFFICES ASSUME NEW s \in Requests, req'[s].pc # "idle"
               PROVE  /\ \/ status'[req'[s].on] = req'[s].prev
                         \/ /\ req'[s].prev = "WAITLISTED"
                            /\ status'[req'[s].on] = "ACCEPTED"
                            /\ req'[s].on \notin attempted'
                      /\ ValidTransition(req'[s].prev, req'[s].to)
                      /\ \A t \in Requests : req'[t].on = req'[s].on => t = s
    BY DEF DecisionsAreCurrent, ValidTransition
  <2>1. /\ s # r /\ req'[s].pc = req[s].pc /\ req'[s].on = req[s].on
        /\ req'[s].prev = req[s].prev /\ req'[s].to = req[s].to
    BY <1>4
  <2>2. req[s].on # a /\ req[s].on \in Apps /\ req[s].on # Nothing
    BY <1>5, <2>1, KnowsItsApplication DEF Decision
  <2>3. /\ \/ status[req[s].on] = req[s].prev
           \/ /\ req[s].prev = "WAITLISTED" /\ status[req[s].on] = "ACCEPTED"
              /\ req[s].on \notin attempted
        /\ ValidTransition(req[s].prev, req[s].to)
        /\ \A t \in Requests : req[t].on = req[s].on => t = s
    BY <2>1 DEF IInv, DecisionsAreCurrent
  <2>4. req[s].on \in attempted' <=> req[s].on \in attempted
    BY <1>3, <2>2
  <2>10. \A t \in Requests : req'[t].on = req'[s].on => t = s
    <3> SUFFICES ASSUME NEW t \in Requests, req'[t].on = req'[s].on PROVE t = s
      OBVIOUS
    <3>1. t # r
      BY <1>1, <2>1, <2>2 DEF Finish, Idle
    <3>2. req'[t].on = req[t].on
      <4>1. req[t] \in Decision \cup {Idle}
        BY DEF IInv, TypeOK
      <4>2. \A q \in Decision : [q EXCEPT !.beaten = TRUE].on = q.on
        BY DEF Decision
      <4>3. req[t].pc = "open" => req[t] \in Decision
        BY <4>1 DEF Idle
      <4>4. QED
        BY <1>1, <3>1, <4>2, <4>3 DEF Finish
    <3>3. QED
      BY <2>1, <2>3, <3>2
  <2>5. CASE req[s].on \notin rows
    <3>1. status'[req[s].on] = status[req[s].on]
      BY <1>1, <2>2, <2>5
    <3>2. QED
      BY <2>1, <2>3, <2>4, <2>10, <3>1
  <2>6. CASE req[s].on \in rows
    <3>1. status[req[s].on] = "WAITLISTED" /\ status'[req[s].on] = "ACCEPTED"
      BY <1>1, <2>2, <2>6
    <3>2. req[s].prev = "WAITLISTED"
      BY <2>3, <3>1
    <3>3. req[s].on \notin attempted
      BY <3>1 DEF IInv, EnrollmentFollowsAcceptance, Seated
    <3>4. QED
      BY <2>1, <2>3, <2>4, <2>10, <3>1, <3>2, <3>3
  <2>7. QED
    BY <2>5, <2>6
<1>7. OpenDecisionsHold'
  <2> SUFFICES ASSUME NEW s \in Requests, req'[s].pc = "open"
               PROVE  /\ Serializable(s)'
                      /\ ~req'[s].beaten => RoomLeft(s)'
                      /\ req'[s].next # Nothing => FreesASeat(s)'
                      /\ req'[s].next # Nothing /\ ~req'[s].beaten
                            => status'[req'[s].next] = "WAITLISTED"
    BY DEF OpenDecisionsHold
  <2>1. /\ s # r /\ req[s].pc = "open" /\ req'[s].prev = req[s].prev
        /\ req'[s].to = req[s].to /\ req'[s].next = req[s].next
        /\ ~req'[s].beaten => ~req[s].beaten /\ ~Serializable(r) /\ req[s].next \notin rows
    BY <1>4
  <2>2. /\ Serializable(s)
        /\ ~req[s].beaten => RoomLeft(s)
        /\ req[s].next # Nothing => FreesASeat(s)
        /\ req[s].next # Nothing /\ ~req[s].beaten => status[req[s].next] = "WAITLISTED"
    BY <2>1 DEF IInv, OpenDecisionsHold
  <2>3. Serializable(s)' /\ (req'[s].next # Nothing => FreesASeat(s)')
    BY <2>1, <2>2 DEF Serializable, FreesASeat
  <2>4. ~req'[s].beaten => RoomLeft(s)'
    <3> SUFFICES ASSUME ~req'[s].beaten, req[s].to = "ACCEPTED", req[s].prev # "ACCEPTED"
                 PROVE  Cardinality(Taken') < Capacity
      BY <2>1 DEF RoomLeft
    <3>1. Cardinality(Taken) < Capacity /\ Taken' \subseteq Taken
      BY <2>1, <2>2, WriteKeepsCapacity DEF RoomLeft
    <3>2. /\ Cardinality(Taken') \in Nat /\ Cardinality(Taken) \in Nat
          /\ Cardinality(Taken') <= Cardinality(Taken)
      <4>1. Taken \in SUBSET Apps
        BY DEF Taken
      <4>2. QED
        BY <3>1, <4>1, FewerSeats
    <3>3. QED
      BY <3>1, <3>2, OfferAssumption
  <2>5. ASSUME req'[s].next # Nothing, ~req'[s].beaten
        PROVE  status'[req'[s].next] = "WAITLISTED"
    <3>1. req[s].next \in Apps
      BY <2>1, <2>5, KnowsItsApplication DEF Decision
    <3>2. QED
      BY <1>1, <2>1, <2>2, <2>5, <3>1
  <2>6. QED
    BY <2>3, <2>4, <2>5
<1>8. EnrollmentFollowsAcceptance'
  <2> SUFFICES ASSUME NEW b \in attempted'
               PROVE  status'[b] \in Seated \cup {"CANCELLED"}
    BY DEF EnrollmentFollowsAcceptance
  <2>1. CASE b = a
    <3>1. req[r].to \in Seated \cup {"CANCELLED"}
      BY <1>2, <1>3, <2>1, KnowsItsApplication
    <3>2. QED
      BY <1>1, <1>2, <2>1, <3>1
  <2>2. CASE b # a
    <3>1. b \in attempted /\ b \in Apps /\ status[b] \in Seated \cup {"CANCELLED"}
      BY <1>3, <2>2 DEF IInv, TypeOK, EnrollmentFollowsAcceptance
    <3>2. QED
      BY <1>1, <2>2, <3>1 DEF Seated
  <2>3. QED
    BY <2>1, <2>2
<1>9. QED
  BY <1>6, <1>7, <1>8

\* One step of the invariant, by the kind of step.
LEMMA InvStep ==
  ASSUME OneAtATime, Capacity # 0
  PROVE  IInv /\ [Next]_vars => IInv'
<1> SUFFICES ASSUME IInv, [Next]_vars PROVE IInv'
  OBVIOUS
<1>0. TypeOK'
  BY TypeStep DEF IInv
<1>1. ASSUME NEW a \in Apps, Submit(a) PROVE IInv'
  <2>1. /\ status' = [status EXCEPT ![a] = "PENDING"] /\ status[a] = "absent"
        /\ attempted' = attempted /\ req' = req
    BY <1>1 DEF Submit
  <2>2. Taken' = Taken /\ status \in [Apps -> Statuses \cup {"absent"}]
    BY <2>1 DEF Taken, Seated, IInv, TypeOK
  <2>3. \A r \in Requests : req[r].pc # "idle" => req[r].on # a
    <3> SUFFICES ASSUME NEW r \in Requests, req[r].pc # "idle", req[r].on = a PROVE FALSE
      OBVIOUS
    <3>1. req[r].prev \in Statuses
      BY KnowsItsApplication DEF Decision
    <3>2. QED
      BY <2>1, <3>1 DEF IInv, DecisionsAreCurrent, Statuses
  <2>4. DecisionsAreCurrent'
    BY <2>1, <2>2, <2>3 DEF IInv, DecisionsAreCurrent
  <2>5. OpenDecisionsHold'
    BY <2>1, <2>2 DEF IInv, OpenDecisionsHold, RoomLeft, Serializable, FreesASeat
  <2>6. CapacityRespected' /\ EnrollmentFollowsAcceptance'
    BY <2>1, <2>2 DEF IInv, CapacityRespected, EnrollmentFollowsAcceptance, Seated, TypeOK
  <2>7. QED
    BY <1>0, <2>4, <2>5, <2>6 DEF IInv
<1>2. ASSUME NEW r \in Requests,
             \/ \E a \in Apps, to \in Targets : ReadApplication(r, a, to)
             \/ BeginDecision(r)
             \/ Abandon(r)
      PROVE  IInv'
  <2>1. status' = status /\ attempted' = attempted
    BY <1>2 DEF ReadApplication, BeginDecision, Abandon
  <2>2. CapacityRespected' /\ EnrollmentFollowsAcceptance'
    BY <2>1 DEF IInv, CapacityRespected, EnrollmentFollowsAcceptance, Taken
  <2>3. QED
    BY <1>0, <1>2, <2>2, QuietStep DEF IInv
<1>3. ASSUME NEW r \in Requests, Overwrite(r) \/ CommitDecision(r) PROVE IInv'
  BY <1>0, <1>3, WriteStep, WriteKeepsCapacity DEF IInv
<1>4. CASE UNCHANGED vars
  <2>1. Taken' = Taken
    BY <1>4 DEF vars, Taken
  <2>2. QED
    BY <1>0, <1>4, <2>1 DEF vars, IInv, DecisionsAreCurrent, OpenDecisionsHold, RoomLeft,
       Serializable, FreesASeat, CapacityRespected, EnrollmentFollowsAcceptance
<1>5. QED
  BY <1>1, <1>2, <1>3, <1>4 DEF Next

LEMMA Inductive ==
  ASSUME OneAtATime, Capacity # 0
  PROVE  Spec => []IInv
<1>1. IInv /\ [Next]_vars => IInv'
  BY InvStep
<1>2. QED
  BY <1>1, InitInv, PTL DEF Spec

-----------------------------------------------------------------------------
(* The theorems.  OneAtATime is what the code needs and does not ensure; with *)
(* no capacity a promotion is not checked against what was committed since it *)
(* looked for a candidate.                                                    *)

\* updateStatus under Serializable isolation: the seats taken never exceed the
\* capacity, whatever the number of candidates, seats and decisions under way.
THEOREM CapacityHolds ==
  ASSUME OneAtATime, Capacity # 0
  PROVE  Spec => []CapacityRespected
<1>1. IInv => CapacityRespected
  BY DEF IInv
<1>2. QED
  BY <1>1, Inductive, PTL

\* A decision under way on an application whose timeline tells of an enrollment
\* was made with the acceptance in view, and is the only one there.  This needs
\* no capacity: whatever a promotion overwrites, it accepts.
AttemptsKnown ==
    \A r \in Requests : req[r].pc # "idle" =>
        /\ req[r].on \in attempted => req[r].to \in Seated \cup {"CANCELLED"}
        /\ \A s \in Requests : req[s].on = req[r].on => s = r

LEMMA AttemptsStep ==
  ASSUME OneAtATime
  PROVE  TypeOK /\ AttemptsKnown /\ EnrollmentFollowsAcceptance /\ [Next]_vars
            => AttemptsKnown' /\ EnrollmentFollowsAcceptance'
<1> SUFFICES ASSUME TypeOK, AttemptsKnown, EnrollmentFollowsAcceptance, [Next]_vars
             PROVE  AttemptsKnown' /\ EnrollmentFollowsAcceptance'
  OBVIOUS
<1> USE DEF TypeOK
<1>1. \A r \in Requests : req[r].pc # "idle" =>
         req[r] \in Decision /\ req[r].on \in Apps /\ req[r].on # Nothing
  BY AppsAssumption DEF Idle, Decision
<1>2. ASSUME NEW a \in Apps, Submit(a)
      PROVE  AttemptsKnown' /\ EnrollmentFollowsAcceptance'
  <2>1. /\ status[a] = "absent" /\ status' = [status EXCEPT ![a] = "PENDING"]
        /\ attempted' = attempted /\ req' = req
    BY <1>2 DEF Submit
  <2>2. a \notin attempted
    BY <2>1 DEF EnrollmentFollowsAcceptance, Seated
  <2>3. QED
    BY <2>1, <2>2 DEF AttemptsKnown, EnrollmentFollowsAcceptance
<1>3. ASSUME NEW r \in Requests, NEW a \in Apps, NEW to \in Targets, ReadApplication(r, a, to)
      PROVE  AttemptsKnown' /\ EnrollmentFollowsAcceptance'
  <2>1. /\ status' = status /\ attempted' = attempted
        /\ req'[r].on = a /\ req'[r].to = to /\ ValidTransition(status[a], to)
        /\ status[a] # "absent"
        /\ \A s \in Requests : req[s].on # a
        /\ \A s \in Requests \ {r} : req'[s] = req[s]
    BY <1>3 DEF ReadApplication
  <2>2. status[a] \in Statuses /\ to \in Statuses
    BY <2>1, OfferAssumption
  <2>3. a \in attempted => to \in Seated \cup {"CANCELLED"}
    BY <2>1, <2>2, TableFacts DEF EnrollmentFollowsAcceptance, Closed
  <2>4. QED
    BY <2>1, <2>3 DEF AttemptsKnown, EnrollmentFollowsAcceptance
<1>4. ASSUME NEW r \in Requests, Overwrite(r) \/ CommitDecision(r)
      PROVE  AttemptsKnown' /\ EnrollmentFollowsAcceptance'
  <2> DEFINE a == req[r].on
  <2>1. /\ req[r].pc # "idle"
        /\ attempted' = attempted \cup IF req[r].to \in Seated THEN {a} ELSE {}
    BY <1>4 DEF Overwrite, CommitDecision, Attempt
  <2>2. PICK rows : Finish(r, rows)
    BY <1>4 DEF Overwrite, CommitDecision
  <2>3. \A b \in Apps : \/ status'[b] = status[b] /\ b # a
                        \/ status'[b] = "ACCEPTED"
                        \/ b = a /\ status'[b] = req[r].to
    BY <1>4 DEF Overwrite, CommitDecision
  <2>4. EnrollmentFollowsAcceptance'
    <3> SUFFICES ASSUME NEW b \in attempted'
                 PROVE  status'[b] \in Seated \cup {"CANCELLED"}
      BY DEF EnrollmentFollowsAcceptance
    <3>1. b \in Apps /\ (b # a => b \in attempted)
      BY <1>1, <2>1
    <3>2. b = a => req[r].to \in Seated \cup {"CANCELLED"}
      BY <2>1 DEF AttemptsKnown
    <3>3. b \in attempted => status[b] \in Seated \cup {"CANCELLED"}
      BY DEF EnrollmentFollowsAcceptance
    <3>4. QED
      BY <2>3, <3>1, <3>2, <3>3 DEF Seated
  <2>5. \A s \in Requests \ {r} : req'[s].on = req[s].on
    <3> SUFFICES ASSUME NEW s \in Requests \ {r} PROVE req'[s].on = req[s].on
      OBVIOUS
    <3>1. req'[s] \in {req[s], [req[s] EXCEPT !.beaten = TRUE]}
      BY <2>2 DEF Finish
    <3>2. req'[s] # req[s] => req[s].pc = "open"
      BY <2>2 DEF Finish
    <3>3. req[s].pc = "open" => [req[s] EXCEPT !.beaten = TRUE].on = req[s].on
      BY <1>1 DEF Decision
    <3>4. QED
      BY <3>1, <3>2, <3>3
  <2>6. AttemptsKnown'
    <3> SUFFICES ASSUME NEW s \in Requests, req'[s].pc # "idle"
                 PROVE  /\ req'[s].on \in attempted' => req'[s].to \in Seated \cup {"CANCELLED"}
                        /\ \A t \in Requests : req'[t].on = req'[s].on => t = s
      BY DEF AttemptsKnown
    <3>1. /\ s # r /\ req'[s].pc = req[s].pc /\ req'[s].on = req[s].on
          /\ req'[s].to = req[s].to
      BY <2>2, OthersGoOn
    <3>2. /\ req[s].on \in attempted => req[s].to \in Seated \cup {"CANCELLED"}
          /\ \A t \in Requests : req[t].on = req[s].on => t = s
          /\ req[s].on # Nothing
      BY <1>1, <3>1 DEF AttemptsKnown
    <3>3. req[s].on \notin {a} /\ req'[r].on = Nothing
      BY <2>2, <3>1, <3>2 DEF Finish, Idle
    <3>4. QED
      BY <2>1, <2>5, <3>1, <3>2, <3>3
  <2>7. QED
    BY <2>4, <2>6
<1>5. ASSUME NEW r \in Requests, BeginDecision(r) \/ Abandon(r)
      PROVE  AttemptsKnown' /\ EnrollmentFollowsAcceptance'
  <2>1. status' = status /\ attempted' = attempted /\ req[r].pc # "idle"
    BY <1>5 DEF BeginDecision, Abandon
  <2>2. EnrollmentFollowsAcceptance'
    BY <2>1 DEF EnrollmentFollowsAcceptance
  <2>3. /\ \A s \in Requests \ {r} : req'[s] = req[s]
        /\ \/ req'[r].on = req[r].on /\ req'[r].to = req[r].to
           \/ req'[r] = Idle
    <3>1. /\ req[r] \in Decision
          /\ req \in [Requests -> Decision \cup {Idle}]
      BY <1>1, <2>1 DEF TypeOK, Idle
    <3>2. CASE BeginDecision(r)
      <4>1. PICK next : req' = [req EXCEPT ![r] = [@ EXCEPT !.pc = "open",
                                                           !.next = next]]
        BY <3>2 DEF BeginDecision
      <4>2. /\ \A s \in Requests \ {r} : req'[s] = req[s]
            /\ req'[r] = [req[r] EXCEPT !.pc = "open", !.next = next]
        BY <3>1, <4>1
      <4>3. req'[r].on = req[r].on /\ req'[r].to = req[r].to
        BY <3>1, <4>2 DEF Decision
      <4>4. QED
        BY <4>2, <4>3
    <3>3. CASE Abandon(r)
      BY <3>1, <3>3 DEF Abandon
    <3>4. QED
      BY <1>5, <3>2, <3>3
  <2>4. AttemptsKnown'
    BY <1>1, <2>1, <2>3 DEF AttemptsKnown, Idle
  <2>5. QED
    BY <2>2, <2>4
<1>6. CASE UNCHANGED vars
  BY <1>6 DEF vars, AttemptsKnown, EnrollmentFollowsAcceptance
<1>7. QED
  BY <1>2, <1>3, <1>4, <1>5, <1>6 DEF Next

\* The timeline tells of an enrollment only for a candidate who is accepted,
\* enrolled or cancelled since, with a capacity or without.
THEOREM EnrollmentOnlyAfterAcceptance ==
  ASSUME OneAtATime
  PROVE  Spec => []EnrollmentFollowsAcceptance
<1>1. Init => TypeOK /\ AttemptsKnown /\ EnrollmentFollowsAcceptance
  BY DEF Init, TypeOK, AttemptsKnown, EnrollmentFollowsAcceptance, Idle
<1>2. TypeOK /\ AttemptsKnown /\ EnrollmentFollowsAcceptance /\ [Next]_vars
         => TypeOK' /\ AttemptsKnown' /\ EnrollmentFollowsAcceptance'
  BY TypeStep, AttemptsStep
<1>3. QED
  BY <1>1, <1>2, PTL DEF Spec

\* What a step makes of the status of an application.
LEMMA StatusStep ==
  ASSUME OneAtATime, Capacity # 0, IInv, [Next]_vars, NEW a \in Apps
  PROVE  /\ status[a] \in Closed => status'[a] = status[a]
         /\ status'[a] = "ACCEPTED" => ValidTransition(status[a], "ACCEPTED")
<1>1. CASE status'[a] = status[a]
  BY <1>1 DEF ValidTransition
<1>2. CASE \E b \in Apps : Submit(b)
  <2>1. CASE status[a] = "absent"
    BY <1>2, <2>1 DEF Submit, Closed, IInv, TypeOK
  <2>2. CASE status[a] # "absent"
    BY <1>1, <1>2, <2>2 DEF Submit, IInv, TypeOK
  <2>3. QED
    BY <2>1, <2>2
<1>3. ASSUME NEW r \in Requests, Overwrite(r) \/ CommitDecision(r)
      PROVE  /\ status[a] \in Closed => status'[a] = status[a]
             /\ status'[a] = "ACCEPTED" => ValidTransition(status[a], "ACCEPTED")
  <2>1. PICK rows \in SUBSET Apps :
           /\ \A b \in rows : b # req[r].on => status[b] = "WAITLISTED"
           /\ status' = [b \in Apps |-> IF b = req[r].on THEN req[r].to
                                        ELSE IF b \in rows THEN "ACCEPTED" ELSE status[b]]
    BY <1>3, WriteEffect
  <2>2. CASE a # req[r].on /\ a \in rows
    BY <2>1, <2>2 DEF Closed, ValidTransition, Transitions
  <2>3. CASE a # req[r].on /\ a \notin rows
    BY <1>1, <2>1, <2>3
  <2>4. CASE a = req[r].on
    <3>1. req[r].pc # "idle" /\ status'[a] = req[r].to
      BY <1>3, <2>1, <2>4 DEF Overwrite, CommitDecision
    <3>2. ValidTransition(req[r].prev, req[r].to)
          /\ (status[a] = req[r].prev \/ status[a] = "ACCEPTED")
      BY <2>4, <3>1 DEF IInv, DecisionsAreCurrent
    <3>3. QED
      BY <2>4, <3>1, <3>2, KnowsItsApplication DEF ValidTransition
  <2>5. QED
    BY <2>2, <2>3, <2>4
<1>4. CASE UNCHANGED status
  BY <1>1, <1>4
<1>5. QED
  BY <1>2, <1>3, <1>4 DEF Next, vars, ReadApplication, BeginDecision, Abandon

\* APPLICATION_STATUS_TRANSITIONS: a rejected or cancelled application stays so.
THEOREM TerminalStays ==
  ASSUME OneAtATime, Capacity # 0
  PROVE  Spec => TerminalIsFinal
<1>1. IInv /\ [Next]_vars
        => [\A a \in Apps : status[a] \in Closed => status'[a] = status[a]]_vars
  BY StatusStep
<1>2. QED
  BY <1>1, Inductive, PTL DEF Spec, TerminalIsFinal

\* Nobody is accepted, or promoted, from a status that cannot be.
THEOREM AcceptanceFollowsTable ==
  ASSUME OneAtATime, Capacity # 0
  PROVE  Spec => AcceptedByTheTable
<1>1. IInv /\ [Next]_vars
        => [\A a \in Apps : status'[a] = "ACCEPTED"
               => ValidTransition(status[a], "ACCEPTED")]_vars
  BY StatusStep
<1>2. QED
  BY <1>1, Inductive, PTL DEF Spec, AcceptedByTheTable
=============================================================================
