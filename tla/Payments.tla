------------------------------ MODULE Payments ------------------------------
(***************************************************************************)
(* Tuition payments: PaymentService.initiatePayment, reconcilePayment and  *)
(* processRefund (src/backend/src/modules/payment/payment.service.ts) over *)
(* the rows they share in PostgreSQL, and the payment provider they call.  *)
(*                                                                         *)
(* HTTP requests and webhook deliveries are processes that interleave.     *)
(* initiatePayment checks and creates in a Serializable transaction, which *)
(* is one step here: what it reads and writes is as of its snapshot, and a *)
(* conflict (P2034) only refuses the request.  reconcilePayment runs in a  *)
(* transaction of the default level, Read Committed: every statement sees  *)
(* what is committed when the statement runs, so its reads are steps of    *)
(* their own.  Its first statement updates the payment row and keeps that  *)
(* row locked until commit; its last writes and its commit are one step,   *)
(* since nobody sees them apart.                                           *)
(*                                                                         *)
(* Timing assumption: a provider call ends (answer, error or crash) within *)
(* the 15 minutes a payment lives, the SDK giving up long before.          *)
(***************************************************************************)
EXTENDS Naturals, FiniteSets

CONSTANTS
    Applications,   \* application rows
    PaymentIds,     \* payment rows that may come to exist
    AppOf,          \* the application a payment row belongs to
    Requests,       \* initiatePayment calls that may run at once
    Deliveries,     \* webhook deliveries that may run at once
    FlakyProvider,  \* TRUE: MockPaymentProvider, whose confirmPayment draws
                    \* FAILED at random; FALSE: StripePaymentProvider
    Nothing         \* "no row", in the slot of an idle process

ASSUME AppOfAssumption == AppOf \in [PaymentIds -> Applications]
ASSUME DeliveriesAssumption == IsFiniteSet(Deliveries)
ASSUME FlakyAssumption == FlakyProvider \in BOOLEAN
ASSUME NothingAssumption == Nothing \notin PaymentIds \cup Applications

VARIABLES
    appStatus,  \* Application.status, as far as payments tell it apart
    enrolled,   \* applications whose student has an ACTIVE StudentEnrollment
    pay,        \* Payment.status; "absent" while the row does not exist
    hasRef,     \* payments whose providerRef is stored
    overdue,    \* payments whose expiresAt is past
    ledger,     \* payments that have a Transaction row
    note,       \* what the ApplicationTimeline says of a confirmed payment
    refund,     \* Refund.status; "none" while the row does not exist
    session,    \* the provider's side: the checkout session of a payment
    refundCalls,\* the provider's side: refunds it accepted for a payment
    moneyBack,  \* the provider's side: how far the money of a refund is
    req,        \* per initiatePayment call: where it stands
    del         \* per webhook delivery: where it stands

db       == <<appStatus, enrolled, pay, hasRef, overdue, ledger, note, refund>>
provider == <<session, refundCalls, moneyBack>>
vars     == <<db, provider, req, del>>

-----------------------------------------------------------------------------
(* Values *)

AppStatuses == {"ACCEPTED", "ENROLLED", "CANCELLED"}
Live        == {"PENDING", "PROCESSING"}
PayStatuses == Live \cup {"absent", "COMPLETED", "FAILED", "EXPIRED"}
Notes       == {"none", "enrolled", "duplicate", "cancelled", "unplaced"}
Refunds     == {"none", "PENDING", "COMPLETED", "FAILED"}
Sessions    == {"none", "open", "paid", "expired"}
Returns     == {"none", "pending", "returned", "failed"}

Idle     == [pc |-> "idle", on |-> Nothing]
ReqState == {Idle} \cup [pc : {"checked"}, on : Applications]
                   \cup [pc : {"calling"}, on : PaymentIds]

\* confirmed and declined: the provider answered, the transaction has not
\* begun; claimed, alone and enrolling: inside the transaction; refunding and
\* refunded: after it, in processRefund.
InTx     == {"claimed", "alone", "enrolling"}
DelState == {Idle}
    \cup [pc : {"confirmed", "declined", "refunding", "refunded"} \cup InTx,
          on : PaymentIds]

TypeOK ==
    /\ appStatus \in [Applications -> AppStatuses]
    /\ enrolled \subseteq Applications
    /\ pay \in [PaymentIds -> PayStatuses]
    /\ hasRef \subseteq PaymentIds
    /\ overdue \subseteq PaymentIds
    /\ ledger \subseteq PaymentIds
    /\ note \in [PaymentIds -> Notes]
    /\ refund \in [PaymentIds -> Refunds]
    /\ session \in [PaymentIds -> Sessions]
    /\ refundCalls \in [PaymentIds -> Nat]
    /\ moneyBack \in [PaymentIds -> Returns]
    /\ req \in [Requests -> ReqState]
    /\ del \in [Deliveries -> DelState]

\* The applications have just been accepted, which may have enrolled the student.
Init ==
    /\ appStatus = [a \in Applications |-> "ACCEPTED"]
    /\ enrolled \in SUBSET Applications
    /\ pay = [p \in PaymentIds |-> "absent"]
    /\ hasRef = {}
    /\ overdue = {}
    /\ ledger = {}
    /\ note = [p \in PaymentIds |-> "none"]
    /\ refund = [p \in PaymentIds |-> "none"]
    /\ session = [p \in PaymentIds |-> "none"]
    /\ refundCalls = [p \in PaymentIds |-> 0]
    /\ moneyBack = [p \in PaymentIds |-> "none"]
    /\ req = [r \in Requests |-> Idle]
    /\ del = [d \in Deliveries |-> Idle]

SiblingsOf(p) == {q \in PaymentIds : AppOf[q] = AppOf[p]}

\* The row lock that an open reconciliation holds on its payment.
Locked(p) == \E d \in Deliveries : del[d].on = p /\ del[d].pc \in InTx

ReqGoes(r, pc, on) == req' = [req EXCEPT ![r] = [pc |-> pc, on |-> on]]
ReqEnds(r)         == req' = [req EXCEPT ![r] = Idle]
DelGoes(d, pc)     == del' = [del EXCEPT ![d] = [pc |-> pc, on |-> del[d].on]]
DelEnds(d)         == del' = [del EXCEPT ![d] = Idle]

-----------------------------------------------------------------------------
(* initiatePayment *)

\* The application is read and found ACCEPTED, outside any transaction.
BeginInitiate(r, a) ==
    /\ req[r] = Idle
    /\ appStatus[a] = "ACCEPTED"
    /\ ReqGoes(r, "checked", a)
    /\ UNCHANGED <<db, provider, del>>

Stale(p) == pay[p] \in Live /\ p \in overdue

\* Variant of CreatePayment that only looks for a payment already COMPLETED.
CreateBesideLivePayment(r, p) ==
    /\ req[r] = [pc |-> "checked", on |-> AppOf[p]]
    /\ pay[p] = "absent"
    /\ \A q \in SiblingsOf(p) : pay[q] # "COMPLETED"
    /\ pay' = [pay EXCEPT ![p] = "PENDING"]
    /\ ReqGoes(r, "calling", p)
    /\ UNCHANGED <<appStatus, enrolled, hasRef, overdue, ledger, note, refund,
                   provider, del>>

\* The Serializable transaction: overdue attempts become EXPIRED; unless one
\* is still in progress or completed, a PENDING payment is created.  An overdue
\* row locked by a reconciliation makes it wait, then fail as a conflict.
CreatePayment(r, p) ==
    /\ req[r] = [pc |-> "checked", on |-> AppOf[p]]
    /\ pay[p] = "absent"
    /\ \A q \in SiblingsOf(p) :
           IF Stale(q) THEN ~Locked(q) ELSE pay[q] \notin Live \cup {"COMPLETED"}
    /\ pay' = [q \in PaymentIds |->
                  IF q = p THEN "PENDING"
                  ELSE IF AppOf[q] = AppOf[p] /\ Stale(q) THEN "EXPIRED"
                  ELSE pay[q]]
    /\ ReqGoes(r, "calling", p)
    /\ UNCHANGED <<appStatus, enrolled, hasRef, overdue, ledger, note, refund,
                   provider, del>>

\* A payment in progress or completed, a serialization conflict or a crash:
\* the transaction rolls back, the EXPIRED marks with it.
RefusePayment(r) ==
    /\ req[r].pc = "checked"
    /\ ReqEnds(r)
    /\ UNCHANGED <<db, provider, del>>

\* The provider opened a session and its reference is stored.  Only now does
\* the student get the URL to pay at, so the session counts as open from here.
StoreReference(r) ==
    LET p == req[r].on IN
    /\ req[r].pc = "calling"
    /\ pay' = [pay EXCEPT ![p] = "PROCESSING"]
    /\ hasRef' = hasRef \cup {p}
    /\ session' = [session EXCEPT ![p] = "open"]
    /\ ReqEnds(r)
    /\ UNCHANGED <<appStatus, enrolled, overdue, ledger, note, refund,
                   refundCalls, moneyBack, del>>

\* The provider call fails: the payment is FAILED rather than left PENDING.
ProviderFails(r) ==
    /\ req[r].pc = "calling"
    /\ pay' = [pay EXCEPT ![req[r].on] = "FAILED"]
    /\ ReqEnds(r)
    /\ UNCHANGED <<appStatus, enrolled, hasRef, overdue, ledger, note, refund,
                   provider, del>>

\* The server dies during the call: the payment stays PENDING until it expires.
RequestDies(r) ==
    /\ req[r].pc = "calling"
    /\ ReqEnds(r)
    /\ UNCHANGED <<db, provider, del>>

\* expiresAt passes.  Not during the provider call (timing assumption).
BecomeOverdue(p) ==
    /\ pay[p] \in Live
    /\ p \notin overdue
    /\ \A r \in Requests : req[r] # [pc |-> "calling", on |-> p]
    /\ overdue' = overdue \cup {p}
    /\ UNCHANGED <<appStatus, enrolled, pay, hasRef, ledger, note, refund,
                   provider, req, del>>

-----------------------------------------------------------------------------
(* The provider and the school *)

\* The mock provider has no sessions: its draw of COMPLETED is this step and the
\* answer that follows, its draw of FAILED an answer of its own.
StudentPays(p) ==
    /\ session[p] = "open"
    /\ session' = [session EXCEPT ![p] = "paid"]
    /\ UNCHANGED <<db, refundCalls, moneyBack, req, del>>

SessionExpires(p) ==
    /\ session[p] = "open"
    /\ session' = [session EXCEPT ![p] = "expired"]
    /\ UNCHANGED <<db, refundCalls, moneyBack, req, del>>

\* A pending refund is executed, or fails.  Nothing here listens to it.
RefundSettles(p) ==
    /\ moneyBack[p] = "pending"
    /\ \E how \in {"returned", "failed"} : moneyBack' = [moneyBack EXCEPT ![p] = how]
    /\ UNCHANGED <<db, session, refundCalls, req, del>>

\* A school cancels an accepted or enrolled application (updateStatus).  The
\* StudentEnrollment, if any, stays as it is.
CancelApplication(a) ==
    /\ appStatus[a] \in {"ACCEPTED", "ENROLLED"}
    /\ appStatus' = [appStatus EXCEPT ![a] = "CANCELLED"]
    /\ UNCHANGED <<enrolled, pay, hasRef, overdue, ledger, note, refund,
                   provider, req, del>>

\* A school declares an accepted application ENROLLED (updateStatus), which
\* enrolls the student when the offer has a program and the school a year.
EnrollByHand(a) ==
    /\ appStatus[a] = "ACCEPTED"
    /\ appStatus' = [appStatus EXCEPT ![a] = "ENROLLED"]
    /\ enrolled' \in {enrolled, enrolled \cup {a}}
    /\ UNCHANGED <<pay, hasRef, overdue, ledger, note, refund, provider, req, del>>

-----------------------------------------------------------------------------
(* reconcilePayment *)

\* Variant of Confirm that believes the webhook instead of asking the provider.
ConfirmOnWebhookAlone(d, p) ==
    /\ del[d] = Idle
    /\ p \in hasRef
    /\ pay[p] # "COMPLETED"
    /\ del' = [del EXCEPT ![d] = [pc |-> "confirmed", on |-> p]]
    /\ UNCHANGED <<db, provider, req>>

\* Variant of Confirm that drops webhooks of payments no longer in progress.
ConfirmLiveOnly(d, p) ==
    /\ del[d] = Idle
    /\ p \in hasRef
    /\ pay[p] \in Live
    /\ session[p] = "paid"
    /\ del' = [del EXCEPT ![d] = [pc |-> "confirmed", on |-> p]]
    /\ UNCHANGED <<db, provider, req>>

\* A webhook finds its payment by providerRef, not COMPLETED yet, and the
\* provider confirms that the session is paid.  The provider may send the same
\* event again at any time, and events in any order.
Confirm(d, p) ==
    /\ del[d] = Idle
    /\ p \in hasRef
    /\ pay[p] # "COMPLETED"
    /\ session[p] = "paid"
    /\ del' = [del EXCEPT ![d] = [pc |-> "confirmed", on |-> p]]
    /\ UNCHANGED <<db, provider, req>>

\* The same, and the provider answers FAILED.  (PENDING ends the delivery with
\* no change.)
Decline(d, p) ==
    /\ del[d] = Idle
    /\ p \in hasRef
    /\ pay[p] # "COMPLETED"
    /\ session[p] = "expired" \/ FlakyProvider
    /\ del' = [del EXCEPT ![d] = [pc |-> "declined", on |-> p]]
    /\ UNCHANGED <<db, provider, req>>

\* Variant of MarkFailed whose update is not conditioned on the status.
MarkFailedAnyway(d) ==
    LET p == del[d].on IN
    /\ del[d].pc = "declined"
    /\ ~Locked(p)
    /\ pay' = [pay EXCEPT ![p] = "FAILED"]
    /\ DelEnds(d)
    /\ UNCHANGED <<appStatus, enrolled, hasRef, overdue, ledger, note, refund,
                   provider, req>>

\* FAILED: the conditional update is all the transaction does.
MarkFailed(d) ==
    LET p == del[d].on IN
    /\ del[d].pc = "declined"
    /\ ~Locked(p)
    /\ pay' = IF pay[p] = "COMPLETED" THEN pay ELSE [pay EXCEPT ![p] = "FAILED"]
    /\ DelEnds(d)
    /\ UNCHANGED <<appStatus, enrolled, hasRef, overdue, ledger, note, refund,
                   provider, req>>

\* Variant of Claim whose update is not conditioned on the status.
ClaimAnyway(d) ==
    /\ del[d].pc = "confirmed"
    /\ ~Locked(del[d].on)
    /\ DelGoes(d, "claimed")
    /\ UNCHANGED <<db, provider, req>>

\* COMPLETED: updateMany where status is not COMPLETED locks the row.  When
\* another delivery has completed it meanwhile, count is 0 and this one ends.
Claim(d) ==
    /\ del[d].pc = "confirmed"
    /\ ~Locked(del[d].on)
    /\ IF pay[del[d].on] = "COMPLETED" THEN DelEnds(d) ELSE DelGoes(d, "claimed")
    /\ UNCHANGED <<db, provider, req>>

OtherCompleted(p) == \E q \in SiblingsOf(p) \ {p} : pay[q] = "COMPLETED"

\* What every COMPLETED commit writes: the payment and its Transaction row,
\* and the timeline entry that says what became of the money.
Settle(p, what) ==
    /\ pay' = [pay EXCEPT ![p] = "COMPLETED"]
    /\ ledger' = ledger \cup {p}
    /\ note' = [note EXCEPT ![p] = what]
    /\ UNCHANGED <<hasRef, overdue, provider, req>>

\* Variant of FlagDuplicate that leaves no trace in the timeline.
FlagNothing(d) ==
    LET p == del[d].on IN
    /\ del[d].pc = "claimed"
    /\ OtherCompleted(p)
    /\ Settle(p, "none")
    /\ DelEnds(d)
    /\ UNCHANGED <<appStatus, enrolled, refund>>

\* Another payment of the application is COMPLETED: this one is recorded and
\* flagged for manual review, with no enrollment.
FlagDuplicate(d) ==
    LET p == del[d].on IN
    /\ del[d].pc = "claimed"
    /\ OtherCompleted(p)
    /\ Settle(p, "duplicate")
    /\ DelEnds(d)
    /\ UNCHANGED <<appStatus, enrolled, refund>>

\* Variant of FindNoOther that does not look for another payment.
NeverLook(d) ==
    /\ del[d].pc = "claimed"
    /\ DelGoes(d, "alone")
    /\ UNCHANGED <<db, provider, req>>

FindNoOther(d) ==
    /\ del[d].pc = "claimed"
    /\ ~OtherCompleted(del[d].on)
    /\ DelGoes(d, "alone")
    /\ UNCHANGED <<db, provider, req>>

Eligible(p) == appStatus[AppOf[p]] \in {"ACCEPTED", "ENROLLED"}

\* The application no longer allows enrollment: a PENDING Refund row is created
\* in the transaction, the refund itself follows outside it.
MarkForRefund(d) ==
    LET p == del[d].on IN
    /\ del[d].pc = "alone"
    /\ ~Eligible(p)
    /\ Settle(p, "cancelled")
    /\ refund' = [refund EXCEPT ![p] = "PENDING"]
    /\ DelGoes(d, "refunding")
    /\ UNCHANGED <<appStatus, enrolled>>

\* The offer has no active program, or the school no current academic year.
LeaveUnplaced(d) ==
    LET p == del[d].on IN
    /\ del[d].pc = "alone"
    /\ Eligible(p)
    /\ Settle(p, "unplaced")
    /\ DelEnds(d)
    /\ UNCHANGED <<appStatus, enrolled, refund>>

\* Application read as ACCEPTED or ENROLLED, program and year found ...
PlanEnrollment(d) ==
    /\ del[d].pc = "alone"
    /\ Eligible(del[d].on)
    /\ DelGoes(d, "enrolling")
    /\ UNCHANGED <<db, provider, req>>

\* ... then ENROLLED is written whatever the status is by now, and committed.
Enroll(d) ==
    LET p == del[d].on IN
    /\ del[d].pc = "enrolling"
    /\ appStatus' = [appStatus EXCEPT ![AppOf[p]] = "ENROLLED"]
    /\ enrolled' = enrolled \cup {AppOf[p]}
    /\ Settle(p, "enrolled")
    /\ DelEnds(d)
    /\ UNCHANGED refund

-----------------------------------------------------------------------------
(* processRefund *)

\* The provider accepts the refund: it has executed it, or answers 'pending',
\* which counts as success as well.
RefundAtProvider(d) ==
    LET p == del[d].on IN
    /\ del[d].pc = "refunding"
    /\ refundCalls' = [refundCalls EXCEPT ![p] = @ + 1]
    /\ \E how \in {"pending", "returned"} : moneyBack' = [moneyBack EXCEPT ![p] = how]
    /\ DelGoes(d, "refunded")
    /\ UNCHANGED <<db, session, req>>

\* Variant of RefundRefused that stores the provider's word for it.
RefundRefusedRaw(d) ==
    /\ del[d].pc = "refunding"
    /\ refund' = [refund EXCEPT ![del[d].on] = "canceled"]
    /\ DelEnds(d)
    /\ UNCHANGED <<appStatus, enrolled, pay, hasRef, overdue, ledger, note,
                   provider, req>>

\* The provider answers that it will not.
RefundRefused(d) ==
    /\ del[d].pc = "refunding"
    /\ refund' = [refund EXCEPT ![del[d].on] = "FAILED"]
    /\ DelEnds(d)
    /\ UNCHANGED <<appStatus, enrolled, pay, hasRef, overdue, ledger, note,
                   provider, req>>

RecordRefund(d) ==
    /\ del[d].pc = "refunded"
    /\ refund' = [refund EXCEPT ![del[d].on] = "COMPLETED"]
    /\ DelEnds(d)
    /\ UNCHANGED <<appStatus, enrolled, pay, hasRef, overdue, ledger, note,
                   provider, req>>

\* A crash, a database error or a provider exception at any point of a
\* delivery: an open transaction rolls back; a refund under way is abandoned,
\* its row left PENDING (processRefund catches and only logs).
DeliveryDies(d) ==
    /\ del[d] # Idle
    /\ DelEnds(d)
    /\ UNCHANGED <<db, provider, req>>

-----------------------------------------------------------------------------
InitiateStep ==
    \/ \E r \in Requests, a \in Applications : BeginInitiate(r, a)
    \/ \E r \in Requests, p \in PaymentIds : CreatePayment(r, p)
    \/ \E r \in Requests : \/ RefusePayment(r)
                           \/ StoreReference(r)
                           \/ ProviderFails(r)
                           \/ RequestDies(r)

OutsideStep ==
    \/ \E p \in PaymentIds : \/ BecomeOverdue(p)
                             \/ StudentPays(p)
                             \/ SessionExpires(p)
                             \/ RefundSettles(p)
    \/ \E a \in Applications : CancelApplication(a) \/ EnrollByHand(a)

\* The steps of a delivery's transaction that commit or lead to a commit.
TxStep(d) ==
    \/ Claim(d)
    \/ FlagDuplicate(d)
    \/ FindNoOther(d)
    \/ MarkForRefund(d)
    \/ LeaveUnplaced(d)
    \/ PlanEnrollment(d)
    \/ Enroll(d)

RefundStep(d) == RefundAtProvider(d) \/ RefundRefused(d) \/ RecordRefund(d)

WebhookStep ==
    \E d \in Deliveries :
        \/ \E p \in PaymentIds : Confirm(d, p) \/ Decline(d, p)
        \/ MarkFailed(d)
        \/ TxStep(d)
        \/ RefundStep(d)
        \/ DeliveryDies(d)

Next == InitiateStep \/ OutsideStep \/ WebhookStep

Spec == Init /\ [][Next]_vars

\* A provider resends an event until it is acknowledged, the server runs the
\* handlers it started, and failures do not hit every delivery forever at the
\* same point: a step that is possible again and again is taken.
Fairness ==
    /\ \A p \in PaymentIds : SF_vars(\E d \in Deliveries : Confirm(d, p))
    /\ \A d \in Deliveries :
        /\ SF_vars(Claim(d))
        /\ SF_vars(FlagDuplicate(d) \/ FindNoOther(d))
        /\ SF_vars(MarkForRefund(d) \/ LeaveUnplaced(d) \/ PlanEnrollment(d))
        /\ SF_vars(Enroll(d))
        /\ WF_vars(MarkFailed(d) \/ RefundStep(d))

FairSpec == Spec /\ Fairness

-----------------------------------------------------------------------------
(* Properties *)

\* reconcilePayment: "Paiement + candidature + inscription + releve doivent
\* etre atomiques".  Whatever fails or is delivered twice, a Transaction row
\* exists exactly for the payments that are COMPLETED.
LedgerIsExact == \A p \in PaymentIds : p \in ledger <=> pay[p] = "COMPLETED"

\* reconcilePayment: no confirmed money without a trace of what became of it,
\* and the trace is true: "enrolled" only with a StudentEnrollment, "duplicate"
\* only beside another COMPLETED payment of the application, and a Refund row
\* exactly for the payments found alone on a closed application.  A late payment
\* of a closed application beside a COMPLETED one is a duplicate: flagged for a
\* person, with no Refund row.
MoneyIsExplained ==
    \A p \in PaymentIds :
        /\ pay[p] = "COMPLETED" <=> note[p] # "none"
        /\ note[p] = "enrolled" => AppOf[p] \in enrolled
        /\ note[p] = "duplicate" => OtherCompleted(p)
        /\ note[p] = "cancelled" <=> refund[p] # "none"

\* confirmPayment: a webhook is never believed; only a session the provider
\* says was paid makes a payment COMPLETED, expired or failed attempts included.
MoneyIsReal ==
    \A p \in PaymentIds : pay[p] = "COMPLETED" => session[p] = "paid"

\* initiatePayment's promise against double payment: over any interleaving of
\* requests, expiries, crashes and webhooks, an application never has two
\* attempts in progress.
OneLivePayment ==
    \A p, q \in PaymentIds :
        AppOf[p] = AppOf[q] /\ pay[p] \in Live /\ pay[q] \in Live => p = q

\* processRefund runs only for the delivery that claimed the payment: no refund
\* is asked for twice, and no money is sent back for a payment that was not marked
\* for it.  A Refund row says COMPLETED only if the provider accepted the refund:
\* the money may still be on its way, or bounce with nobody to notice.
RefundedOnce ==
    \A p \in PaymentIds :
        /\ refundCalls[p] <= 1
        /\ moneyBack[p] = "none" <=> refundCalls[p] = 0
        /\ refundCalls[p] = 1 => note[p] = "cancelled"
        /\ refund[p] = "COMPLETED" => refundCalls[p] = 1

\* reconcilePayment: "La mise a jour conditionnee sur status: { not:
\* 'COMPLETED' }".  Late, repeated or contradictory answers of the provider
\* never take a COMPLETED payment back, nor settle it a second time.
CompletedForGood ==
    [][\A p \in PaymentIds :
           pay[p] = "COMPLETED" => pay'[p] = "COMPLETED" /\ note'[p] = note[p]]_vars

\* Two payments of one application both pass for the one that enrolls the
\* student only when their transactions were open at the same time: never more
\* of them than deliveries running at once.
SilentDuplicatesNeedOverlap ==
    \A a \in Applications :
        Cardinality({p \in PaymentIds : AppOf[p] = a /\ note[p] = "enrolled"})
            <= Cardinality(Deliveries)

\* A student who paid is recorded as having paid, even when the attempt had
\* expired or failed here meanwhile and deliveries crash along the way.
PaidIsRecorded ==
    \A p \in PaymentIds : session[p] = "paid" ~> pay[p] = "COMPLETED"

\* What reconciliation promises, as a specification of its own.
Settlement == INSTANCE PaymentSettlement WITH settled <- note, owed <- refund
RefinesSettlement == Settlement!Spec

-----------------------------------------------------------------------------
(* The inductive invariant behind the safety properties *)

\* A call in progress owns its payment: PENDING, in time, no reference yet.
CallsOwnTheirPayment ==
    \A r \in Requests : req[r].pc = "calling" =>
        /\ pay[req[r].on] = "PENDING"
        /\ req[r].on \notin hasRef \cup overdue
        /\ \A s \in Requests : req[s] = req[r] => s = r

\* Nothing is known of a payment before its reference is stored.
ReferenceComesFirst ==
    \A p \in PaymentIds :
        /\ p \in hasRef => pay[p] # "absent"
        /\ p \in overdue => pay[p] # "absent"
        /\ p \notin hasRef => \A d \in Deliveries : del[d].on # p

\* A delivery in its transaction holds the only lock on a payment that was paid
\* and is not COMPLETED; one in processRefund is the only one there, and knows
\* how far the refund is.
InOrder(d) ==
    LET p == del[d].on
        Beside(pcs) == {e \in Deliveries \ {d} : del[e].on = p /\ del[e].pc \in pcs}
    IN
    /\ del[d].pc \in InTx \cup {"confirmed"} => session[p] = "paid"
    /\ del[d].pc \in InTx => pay[p] # "COMPLETED" /\ Beside(InTx) = {}
    /\ del[d].pc \in {"refunding", "refunded"} =>
          refund[p] = "PENDING" /\ Beside({"refunding", "refunded"}) = {}
    /\ del[d].pc = "refunding" => refundCalls[p] = 0
    /\ del[d].pc = "refunded" => refundCalls[p] = 1

DeliveriesInOrder == \A d \in Deliveries : InOrder(d)

IInv ==
    /\ TypeOK
    /\ CallsOwnTheirPayment
    /\ ReferenceComesFirst
    /\ DeliveriesInOrder
    /\ LedgerIsExact
    /\ MoneyIsExplained
    /\ MoneyIsReal
    /\ OneLivePayment
    /\ RefundedOnce

-----------------------------------------------------------------------------
(* Claims of the repository that the interleavings refute *)

\* payment.service.ts:354-356: a second payment is flagged "plutot que de
\* laisser passer un double encaissement en silence".
NoSilentDoubleCharge ==
    \A p, q \in PaymentIds :
        AppOf[p] = AppOf[q] /\ note[p] = "enrolled" /\ note[q] = "enrolled" => p = q

\* payment.service.ts:275-279: when the application is no longer eligible, "le
\* candidat n'est jamais inscrit"; a cancelled application stays cancelled.
CancelledIsNeverEnrolled ==
    [][\A a \in Applications :
           appStatus[a] = "CANCELLED" => appStatus'[a] # "ENROLLED"]_vars
=============================================================================
