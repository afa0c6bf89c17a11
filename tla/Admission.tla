----------------------------- MODULE Admission -----------------------------
(***************************************************************************)
(* Decisions on the applications to one offer: ApplicationService          *)
(* submitApplications, updateStatus with applyStatusTransaction, and the   *)
(* routes scheduleTest, scheduleInterview and recordScore                  *)
(* (src/backend/src/modules/application/application.service.ts).           *)
(*                                                                         *)
(* A request reads its application, checks the transition it asks for, and *)
(* writes later: whatever is committed in between it does not see again.   *)
(* The write that may change the number of seats taken runs in a           *)
(* Serializable transaction, the others at the default level.              *)
(*                                                                         *)
(* A Serializable transaction reads as of its snapshot (BeginDecision) and *)
(* takes effect at its commit (CommitDecision), in which another           *)
(* Serializable commit, or a change of a row it updates, since the         *)
(* snapshot "beats" it: PostgreSQL refuses it (P2034), or lets it through  *)
(* when running the two one after the other has the same outcome, and that *)
(* is another behaviour of this model.  Commits of the default level are   *)
(* not checked against what it read, only against the rows it updates.     *)
(***************************************************************************)
EXTENDS Naturals, FiniteSets

CONSTANTS
    Apps,         \* applications to the offer
    Requests,     \* decisions that may be under way at once
    Targets,      \* statuses the requests may ask for
    Capacity,     \* Offer.capacity, at least 1; 0 stands for an offer without one
    Rank,         \* the order of submittedAt
    OneAtATime,   \* TRUE: nobody decides twice at once on one application
    Nothing       \* "no application"

Statuses == {"PENDING", "UNDER_REVIEW", "PRESELECTED", "TEST_SCHEDULED",
             "TEST_COMPLETED", "INTERVIEW_SCHEDULED", "INTERVIEW_COMPLETED",
             "ACCEPTED", "REJECTED", "WAITLISTED", "ENROLLED", "CANCELLED"}

ASSUME AppsAssumption ==
    /\ IsFiniteSet(Apps)
    /\ Nothing \notin Apps
    /\ Rank \in [Apps -> Nat]
    /\ \A a, b \in Apps : Rank[a] = Rank[b] => a = b
ASSUME OfferAssumption ==
    /\ Targets \subseteq Statuses
    /\ Capacity \in Nat
    /\ OneAtATime \in BOOLEAN

VARIABLES
    status,     \* Application.status; "absent" before it is submitted
    attempted,  \* applications whose timeline tells of an automatic enrollment,
                \* done or found impossible
    req         \* per request: what it read, wants, and will promote

vars == <<status, attempted, req>>

-----------------------------------------------------------------------------
Seated == {"ACCEPTED", "ENROLLED"}
Closed == {"REJECTED", "CANCELLED"}
Early  == {"PENDING", "UNDER_REVIEW", "PRESELECTED"}

\* APPLICATION_STATUS_TRANSITIONS.
Transitions ==
    ((Statuses \ Closed) \X {"CANCELLED"})
    \cup ({"PENDING"} \X {"UNDER_REVIEW", "PRESELECTED"})
    \cup (Early \X {"TEST_SCHEDULED"})
    \cup ((Early \cup {"TEST_COMPLETED"}) \X {"INTERVIEW_SCHEDULED"})
    \cup ((Early \cup {"TEST_COMPLETED", "INTERVIEW_COMPLETED"})
             \X {"ACCEPTED", "REJECTED", "WAITLISTED"})
    \cup ({"WAITLISTED"} \X {"ACCEPTED", "REJECTED"})
    \cup {<<"UNDER_REVIEW", "PRESELECTED">>,
          <<"TEST_SCHEDULED", "TEST_COMPLETED">>,
          <<"INTERVIEW_SCHEDULED", "INTERVIEW_COMPLETED">>,
          <<"ACCEPTED", "ENROLLED">>}

\* Variant of ValidTransition that only protects the closed applications.
ValidUnlessClosed(prev, to) == prev = to \/ prev \notin Closed

\* assertValidTransition.
ValidTransition(prev, to) == prev = to \/ <<prev, to>> \in Transitions

Idle     == [pc |-> "idle", on |-> Nothing, prev |-> "PENDING", to |-> "PENDING",
             next |-> Nothing, beaten |-> FALSE]
Decision == [pc : {"read", "open"}, on : Apps, prev : Statuses, to : Statuses,
             next : Apps \cup {Nothing}, beaten : BOOLEAN]

TypeOK ==
    /\ status \in [Apps -> Statuses \cup {"absent"}]
    /\ attempted \subseteq Apps
    /\ req \in [Requests -> Decision \cup {Idle}]

Init ==
    /\ status = [a \in Apps |-> "absent"]
    /\ attempted = {}
    /\ req = [r \in Requests |-> Idle]

Taken == {a \in Apps : status[a] \in Seated}
Waiting == {a \in Apps : status[a] = "WAITLISTED"}

FreesASeat(r) == req[r].prev \in Seated /\ req[r].to \in Closed

\* touchesCapacity: the offer has a capacity.
Serializable(r) == Capacity # 0 /\ (req[r].to = "ACCEPTED" \/ FreesASeat(r))

\* Whether an open transaction holds the lock of the row of a.
Locked(a) == \E r \in Requests : req[r].pc = "open" /\ req[r].on = a

\* Whom a decision will promote: when it frees a seat, the candidate who has
\* waited longest, its own application not counted.
Promotable(r) ==
    LET waiting == Waiting \ {req[r].on} IN
    IF FreesASeat(r) /\ waiting # {}
    THEN {a \in waiting : \A b \in waiting : Rank[a] <= Rank[b]}
    ELSE {Nothing}

-----------------------------------------------------------------------------
\* Variant of Submit with a status that is not one of the enumeration.
SubmitDraft(a) ==
    /\ status[a] = "absent"
    /\ status' = [status EXCEPT ![a] = "DRAFT"]
    /\ UNCHANGED <<attempted, req>>

\* submitApplications, for one offer; Rank names the candidates in order.
Submit(a) ==
    /\ status[a] = "absent"
    /\ \A b \in Apps : Rank[b] < Rank[a] => status[b] # "absent"
    /\ status' = [status EXCEPT ![a] = "PENDING"]
    /\ UNCHANGED <<attempted, req>>

\* The application is read and the transition checked, before any transaction.
ReadApplication(r, a, to) ==
    /\ req[r] = Idle
    /\ status[a] # "absent"
    /\ ValidTransition(status[a], to)
    /\ OneAtATime => \A s \in Requests : req[s].on # a
    /\ req' = [req EXCEPT ![r] = [pc |-> "read", on |-> a, prev |-> status[a], to |-> to,
                                  next |-> Nothing, beaten |-> FALSE]]
    /\ UNCHANGED <<status, attempted>>

\* The end of request r, which wrote the given rows: an open transaction is
\* beaten if both are Serializable, or if it is about to update one of them.
Finish(r, rows) ==
    req' = [s \in Requests |->
               IF s = r THEN Idle
               ELSE IF /\ req[s].pc = "open"
                       /\ Serializable(r) \/ req[s].next \in rows
                    THEN [req[s] EXCEPT !.beaten = TRUE]
                    ELSE req[s]]

\* Acceptance enrolls the student, or the timeline says why it could not: the
\* offer has no active program, or the school no current year.
Attempt(r) ==
    attempted' = attempted \cup IF req[r].to \in Seated THEN {req[r].on} ELSE {}

\* A transaction that reads nothing, and the three routes that just write: the
\* status is overwritten whatever it has become.
Overwrite(r) ==
    LET a == req[r].on IN
    /\ req[r].pc = "read"
    /\ ~Serializable(r) /\ ~FreesASeat(r)
    /\ ~Locked(a)
    /\ status' = [status EXCEPT ![a] = req[r].to]
    /\ Attempt(r)
    /\ Finish(r, {a})

\* Variant of RoomLeft with one seat too many.
OneSeatMore(r) ==
    req[r].to = "ACCEPTED" /\ req[r].prev # "ACCEPTED" => Cardinality(Taken) <= Capacity

\* The capacity check, made for an acceptance that is new to this request.
RoomLeft(r) ==
    req[r].to = "ACCEPTED" /\ req[r].prev # "ACCEPTED" => Cardinality(Taken) < Capacity

\* The transaction begins: the capacity is checked, the row of the application
\* locked, and the candidate to promote looked up if a seat is freed.
BeginDecision(r) ==
    /\ req[r].pc = "read"
    /\ Serializable(r) \/ FreesASeat(r)
    /\ ~Locked(req[r].on)
    /\ Serializable(r) => RoomLeft(r)
    /\ \E next \in Promotable(r) :
          req' = [req EXCEPT ![r] = [@ EXCEPT !.pc = "open", !.next = next]]
    /\ UNCHANGED <<status, attempted>>

\* Variant of CommitDecision at the default isolation level.
CommitUnchecked(r) ==
    LET a == req[r].on
        next == req[r].next
    IN
    /\ req[r].pc = "open"
    /\ next = Nothing \/ ~Locked(next)
    /\ status' = [b \in Apps |-> IF b = next THEN "ACCEPTED"
                                 ELSE IF b = a THEN req[r].to ELSE status[b]]
    /\ Attempt(r)
    /\ Finish(r, {a, next} \ {Nothing})

\* The transaction commits its decision, and the promotion with it.  The
\* promoted candidate is accepted, but nothing is done to enroll him.
CommitDecision(r) ==
    LET a == req[r].on
        next == req[r].next
    IN
    /\ req[r].pc = "open"
    /\ Serializable(r) => ~req[r].beaten
    /\ next = Nothing \/ ~Locked(next)
    /\ status' = [b \in Apps |-> IF b = next THEN "ACCEPTED"
                                 ELSE IF b = a THEN req[r].to ELSE status[b]]
    /\ Attempt(r)
    /\ Finish(r, {a, next} \ {Nothing})

\* The offer is full, the transaction is refused, or the server dies.
Abandon(r) ==
    /\ req[r].pc # "idle"
    /\ req' = [req EXCEPT ![r] = Idle]
    /\ UNCHANGED <<status, attempted>>

Next ==
    \/ \E a \in Apps : Submit(a)
    \/ \E r \in Requests, a \in Apps, to \in Targets : ReadApplication(r, a, to)
    \/ \E r \in Requests : \/ Overwrite(r)
                           \/ BeginDecision(r)
                           \/ CommitDecision(r)
                           \/ Abandon(r)

Spec == Init /\ [][Next]_vars

-----------------------------------------------------------------------------
(* Properties *)

\* updateStatus: "Verification de capacite + ecriture du statut (+ promotion)
\* sous isolation Serializable".  However decisions, promotions and refusals on
\* different candidates interleave, the seats taken never exceed the capacity.
CapacityRespected == Capacity # 0 => Cardinality(Taken) <= Capacity

\* APPLICATION_STATUS_TRANSITIONS: "REJECTED et CANCELLED sont des etats
\* terminaux", for the routes that bypass updateStatus and for promotions too.
TerminalIsFinal ==
    [][\A a \in Apps : status[a] \in Closed => status'[a] = status[a]]_vars

\* Nobody is rejected, kept waiting or under examination while the timeline
\* says that an enrollment was attempted: an enrollment follows a decision to
\* accept, and only a cancellation comes after it.
EnrollmentFollowsAcceptance ==
    \A a \in attempted : status[a] \in Seated \cup {"CANCELLED"}

\* A candidate becomes ACCEPTED only from a status that may be accepted, the one
\* promoted by somebody else's cancellation included: never one who was turned
\* down, or has a test to take, since the decision began.
AcceptedByTheTable ==
    [][\A a \in Apps :
           status'[a] = "ACCEPTED" => ValidTransition(status[a], "ACCEPTED")]_vars

-----------------------------------------------------------------------------
(* The inductive invariant behind CapacityRespected and TerminalIsFinal, for  *)
(* an offer with a capacity, decided on by one request at a time per          *)
(* candidate                                                                  *)

\* A decision under way knows the status of its application, unless a promotion
\* has turned WAITLISTED into ACCEPTED; it is the only one on it.
DecisionsAreCurrent ==
    \A r \in Requests : req[r].pc # "idle" =>
        /\ \/ status[req[r].on] = req[r].prev
           \/ /\ req[r].prev = "WAITLISTED"
              /\ status[req[r].on] = "ACCEPTED"
              /\ req[r].on \notin attempted
        /\ ValidTransition(req[r].prev, req[r].to)
        /\ \A s \in Requests : req[s].on = req[r].on => s = r

\* An open transaction that may still commit has room for whom it accepts, and
\* the candidate it promotes is still waiting.
OpenDecisionsHold ==
    \A r \in Requests : req[r].pc = "open" =>
        /\ Serializable(r)
        /\ ~req[r].beaten => RoomLeft(r)
        /\ req[r].next # Nothing => FreesASeat(r)
        /\ req[r].next # Nothing /\ ~req[r].beaten => status[req[r].next] = "WAITLISTED"

IInv ==
    /\ TypeOK
    /\ DecisionsAreCurrent
    /\ OpenDecisionsHold
    /\ CapacityRespected
    /\ EnrollmentFollowsAcceptance
=============================================================================
