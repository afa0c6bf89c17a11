--------------------------- MODULE PaymentsProofs ---------------------------
(***************************************************************************)
(* Proofs about Payments, for any sets of applications, payments, requests *)
(* and deliveries, and for either provider.                                *)
(***************************************************************************)
EXTENDS Payments, FiniteSetTheorems, TLAPS

\* Every step of reconcilePayment, initiatePayment and processRefund leaves
\* each variable in its type.
LEMMA TypeStep == TypeOK /\ [Next]_vars => TypeOK'
<1> SUFFICES ASSUME TypeOK, [Next]_vars PROVE TypeOK'
  OBVIOUS
<1> USE AppOfAssumption DEF TypeOK, db, provider, AppStatuses, Live, PayStatuses,
        Notes, Refunds, Returns, Sessions, Idle, ReqState, InTx, DelState,
        ReqGoes, ReqEnds, DelGoes, DelEnds, Settle
<1>1. CASE InitiateStep
  <2>1. ASSUME NEW r \in Requests, NEW a \in Applications, BeginInitiate(r, a)
        PROVE  TypeOK'
    BY <2>1 DEF BeginInitiate
  <2>2. ASSUME NEW r \in Requests, NEW p \in PaymentIds, CreatePayment(r, p)
        PROVE  TypeOK'
    BY <2>2 DEF CreatePayment
  <2>3. ASSUME NEW r \in Requests, RefusePayment(r) PROVE TypeOK'
    BY <2>3 DEF RefusePayment
  <2>4. ASSUME NEW r \in Requests, StoreReference(r) PROVE TypeOK'
    BY <2>4 DEF StoreReference
  <2>5. ASSUME NEW r \in Requests, ProviderFails(r) PROVE TypeOK'
    BY <2>5 DEF ProviderFails
  <2>6. ASSUME NEW r \in Requests, RequestDies(r) PROVE TypeOK'
    BY <2>6 DEF RequestDies
  <2>7. QED
    BY <1>1, <2>1, <2>2, <2>3, <2>4, <2>5, <2>6 DEF InitiateStep
<1>2. CASE OutsideStep
  BY <1>2 DEF OutsideStep, BecomeOverdue, StudentPays, SessionExpires, RefundSettles, CancelApplication,
     EnrollByHand
<1>3. CASE WebhookStep
  <2> SUFFICES ASSUME NEW d \in Deliveries,
                      \/ \E p \in PaymentIds : Confirm(d, p) \/ Decline(d, p)
                      \/ MarkFailed(d) \/ TxStep(d) \/ RefundStep(d) \/ DeliveryDies(d)
               PROVE  TypeOK'
    BY <1>3 DEF WebhookStep
  <2>1. ASSUME NEW p \in PaymentIds, Confirm(d, p) \/ Decline(d, p) PROVE TypeOK'
    BY <2>1 DEF Confirm, Decline
  <2>2. CASE MarkFailed(d)
    BY <2>2 DEF MarkFailed
  <2>3. CASE Claim(d)
    BY <2>3 DEF Claim
  <2>4. CASE FlagDuplicate(d)
    BY <2>4 DEF FlagDuplicate
  <2>5. CASE FindNoOther(d)
    BY <2>5 DEF FindNoOther
  <2>6. CASE MarkForRefund(d)
    BY <2>6 DEF MarkForRefund
  <2>7. CASE LeaveUnplaced(d)
    BY <2>7 DEF LeaveUnplaced
  <2>8. CASE PlanEnrollment(d)
    BY <2>8 DEF PlanEnrollment
  <2>9. CASE Enroll(d)
    BY <2>9 DEF Enroll
  <2>10. CASE RefundStep(d)
    BY <2>10 DEF RefundStep, RefundAtProvider, RefundRefused, RecordRefund
  <2>11. CASE DeliveryDies(d)
    BY <2>11 DEF DeliveryDies
  <2>12. QED
    BY <2>1, <2>2, <2>3, <2>4, <2>5, <2>6, <2>7, <2>8, <2>9, <2>10, <2>11 DEF TxStep
<1>4. CASE UNCHANGED vars
  BY <1>4 DEF vars
<1>5. QED
  BY <1>1, <1>2, <1>3, <1>4 DEF Next

\* The provider has accepted no refund for a payment without a Refund row.
LEMMA NotRefundedYet ==
  ASSUME IInv, NEW p \in PaymentIds, refund[p] = "none"
  PROVE  refundCalls[p] = 0
BY DEF IInv, TypeOK, MoneyIsExplained, RefundedOnce

\* A COMPLETED payment is in no hands that could write its status: not in a
\* call's, not in an open transaction's, and the other writes are conditioned.
LEMMA CompletedRemains ==
  ASSUME IInv, [Next]_vars, NEW p \in PaymentIds, pay[p] = "COMPLETED"
  PROVE  pay'[p] = "COMPLETED"
<1> USE DEF db, provider, vars
<1>0. pay \in [PaymentIds -> PayStatuses]
  BY DEF IInv, TypeOK
<1>1. CASE InitiateStep
  <2>1. \A r \in Requests : req[r].pc = "calling" => req[r].on # p
    BY DEF IInv, CallsOwnTheirPayment
  <2>2. QED
    BY <1>0, <1>1, <2>1 DEF InitiateStep, BeginInitiate, CreatePayment, RefusePayment,
       StoreReference, ProviderFails, RequestDies, Stale, Live
<1>2. CASE OutsideStep \/ UNCHANGED vars
  BY <1>2 DEF OutsideStep, BecomeOverdue, StudentPays, SessionExpires, RefundSettles,
     CancelApplication, EnrollByHand
<1>3. CASE WebhookStep
  <2> SUFFICES ASSUME NEW d \in Deliveries,
                      \/ \E q \in PaymentIds : Confirm(d, q) \/ Decline(d, q)
                      \/ MarkFailed(d) \/ TxStep(d) \/ RefundStep(d)
                      \/ DeliveryDies(d)
               PROVE  pay'[p] = "COMPLETED"
    BY <1>3 DEF WebhookStep
  <2>1. QED
    BY <1>0 DEF Confirm, Decline, MarkFailed, TxStep, RefundStep, DeliveryDies, Claim,
       FlagDuplicate, FindNoOther, MarkForRefund, LeaveUnplaced, PlanEnrollment,
       Enroll, RefundAtProvider, RefundRefused, RecordRefund, Settle
<1>4. QED
  BY <1>1, <1>2, <1>3 DEF Next

\* A payment recorded as a duplicate stands beside a COMPLETED one.
LEMMA DuplicatesStep ==
  ASSUME IInv, [Next]_vars, NEW p \in PaymentIds, note'[p] = "duplicate"
  PROVE  OtherCompleted(p)'
<1>1. note \in [PaymentIds -> Notes]
  BY DEF IInv, TypeOK
<1>2. note[p] = "duplicate" \/ OtherCompleted(p)
  <2>1. CASE InitiateStep \/ OutsideStep \/ UNCHANGED vars
    BY <2>1 DEF InitiateStep, OutsideStep, BeginInitiate, CreatePayment, RefusePayment,
       StoreReference, ProviderFails, RequestDies, BecomeOverdue, StudentPays,
       SessionExpires, RefundSettles, CancelApplication, EnrollByHand, db, vars
  <2>2. CASE WebhookStep
    <3> SUFFICES ASSUME NEW d \in Deliveries,
                        \/ \E q \in PaymentIds : Confirm(d, q) \/ Decline(d, q)
                        \/ MarkFailed(d) \/ TxStep(d) \/ RefundStep(d)
                        \/ DeliveryDies(d)
                 PROVE  note[p] = "duplicate" \/ OtherCompleted(p)
      BY <2>2 DEF WebhookStep
    <3>1. QED
      BY <1>1 DEF Confirm, Decline, MarkFailed, TxStep, RefundStep, DeliveryDies, Claim,
         FlagDuplicate, FindNoOther, MarkForRefund, LeaveUnplaced, PlanEnrollment,
         Enroll, RefundAtProvider, RefundRefused, RecordRefund, Settle, db
  <2>3. QED
    BY <2>1, <2>2 DEF Next
<1>3. OtherCompleted(p)
  BY <1>2 DEF IInv, MoneyIsExplained
<1>4. QED
  BY <1>3, CompletedRemains DEF OtherCompleted, SiblingsOf

LEMMA InitInv == Init => IInv
BY AppOfAssumption, NothingAssumption DEF Init, IInv, TypeOK, CallsOwnTheirPayment, ReferenceComesFirst,
   DeliveriesInOrder, InOrder, LedgerIsExact, MoneyIsExplained, MoneyIsReal, OneLivePayment,
   RefundedOnce, AppStatuses, Live, PayStatuses, Notes, Refunds, Returns, Sessions, Idle,
   ReqState, InTx, DelState

\* The heart of the argument: a payment in the hands of a call or of an open
\* transaction is touched by nobody else, so every step of initiatePayment,
\* reconcilePayment and processRefund keeps the invariant.
LEMMA InvStep == IInv /\ [Next]_vars => IInv'
<1> SUFFICES ASSUME IInv, [Next]_vars PROVE IInv'
  OBVIOUS
<1>0. TypeOK'
  BY TypeStep DEF IInv
<1>d. \A p \in PaymentIds : note'[p] = "duplicate" => OtherCompleted(p)'
  BY DuplicatesStep
<1> USE AppOfAssumption, NothingAssumption, <1>0, <1>d DEF IInv, TypeOK, CallsOwnTheirPayment, ReferenceComesFirst,
        DeliveriesInOrder, InOrder, LedgerIsExact, MoneyIsExplained, MoneyIsReal, OneLivePayment,
        RefundedOnce, db, provider, AppStatuses, Live, PayStatuses, Notes, Refunds,
        Returns, Sessions, Idle, ReqState, InTx, DelState, ReqGoes, ReqEnds, DelGoes, DelEnds, Settle
<1>1. ASSUME NEW r \in Requests, NEW a \in Applications, BeginInitiate(r, a) PROVE IInv'
  BY <1>1 DEF BeginInitiate
<1>2. ASSUME NEW r \in Requests, NEW p \in PaymentIds, CreatePayment(r, p) PROVE IInv'
  BY <1>2 DEF CreatePayment, SiblingsOf, Stale, Locked
<1>3. ASSUME NEW r \in Requests, RefusePayment(r) PROVE IInv'
  BY <1>3 DEF RefusePayment
<1>4. ASSUME NEW r \in Requests, StoreReference(r) PROVE IInv'
  BY <1>4 DEF StoreReference
<1>5. ASSUME NEW r \in Requests, ProviderFails(r) PROVE IInv'
  BY <1>5 DEF ProviderFails
<1>6. ASSUME NEW r \in Requests, RequestDies(r) PROVE IInv'
  BY <1>6 DEF RequestDies
<1>7. ASSUME NEW p \in PaymentIds, BecomeOverdue(p) PROVE IInv'
  BY <1>7 DEF BecomeOverdue
<1>8. ASSUME NEW p \in PaymentIds, StudentPays(p) PROVE IInv'
  BY <1>8 DEF StudentPays
<1>9. ASSUME NEW p \in PaymentIds, SessionExpires(p) PROVE IInv'
  BY <1>9 DEF SessionExpires
<1>9a. ASSUME NEW p \in PaymentIds, RefundSettles(p) PROVE IInv'
  BY <1>9a DEF RefundSettles
<1>10. ASSUME NEW a \in Applications, CancelApplication(a) \/ EnrollByHand(a) PROVE IInv'
  BY <1>10 DEF CancelApplication, EnrollByHand
<1>11. ASSUME NEW d \in Deliveries, NEW p \in PaymentIds, Confirm(d, p) PROVE IInv'
  BY <1>11 DEF Confirm
<1>12. ASSUME NEW d \in Deliveries, NEW p \in PaymentIds, Decline(d, p) PROVE IInv'
  BY <1>12 DEF Decline
<1>13. ASSUME NEW d \in Deliveries, MarkFailed(d) PROVE IInv'
  BY <1>13 DEF MarkFailed, Locked
<1>14. ASSUME NEW d \in Deliveries, Claim(d) PROVE IInv'
  <2>1. CASE pay[del[d].on] = "COMPLETED"
    <3>1. del' = [del EXCEPT ![d] = Idle] /\ UNCHANGED <<db, provider, req>>
      BY <1>14, <2>1 DEF Claim
    <3>2. del'[d] = Idle /\ \A e \in Deliveries \ {d} : del'[e] = del[e]
      BY <3>1
    <3>3. DeliveriesInOrder'
      <4>1. InOrder(d)'
        BY <3>2
      <4>2. ASSUME NEW e \in Deliveries, e # d PROVE InOrder(e)'
        BY <3>1, <3>2, <4>2
      <4> HIDE DEF InOrder
      <4>3. QED
        BY <4>1, <4>2
    <3>4. QED
      BY <3>1, <3>3
  <2>2. CASE pay[del[d].on] # "COMPLETED"
    <3>1. del' = [del EXCEPT ![d] = [pc |-> "claimed", on |-> del[d].on]]
      BY <1>14, <2>2 DEF Claim
    <3>2. \A e \in Deliveries : del[e].on = del[d].on => del[e].pc \notin InTx
      BY <1>14 DEF Claim, Locked
    <3>3. DeliveriesInOrder'
      BY <1>14, <2>2, <3>1, <3>2 DEF Claim
    <3>4. QED
      BY <1>14, <2>2, <3>1, <3>3 DEF Claim
  <2>3. QED
    BY <2>1, <2>2
<1>15. ASSUME NEW d \in Deliveries, FlagDuplicate(d) PROVE IInv'
  BY <1>15 DEF FlagDuplicate
<1>16. ASSUME NEW d \in Deliveries, FindNoOther(d) PROVE IInv'
  BY <1>16 DEF FindNoOther
<1>17. ASSUME NEW d \in Deliveries, MarkForRefund(d) PROVE IInv'
  <2>1. del[d].on \in PaymentIds /\ refund[del[d].on] = "none"
    BY <1>17 DEF MarkForRefund
  <2>2. \A e \in Deliveries : del[e].on = del[d].on
                              => del[e].pc \notin {"refunding", "refunded"}
    BY <2>1
  <2> DEFINE p == del[d].on
  <2>a. /\ del' = [del EXCEPT ![d] = [pc |-> "refunding", on |-> p]]
        /\ refund' = [refund EXCEPT ![p] = "PENDING"]
        /\ pay' = [pay EXCEPT ![p] = "COMPLETED"]
        /\ session' = session /\ refundCalls' = refundCalls /\ moneyBack' = moneyBack
        /\ del[d].pc = "alone"
    BY <1>17 DEF MarkForRefund
  <2>b. refundCalls[p] = 0
    BY <2>1, NotRefundedYet
  <2>3. DeliveriesInOrder'
    <3>1. InOrder(d)'
      BY <2>1, <2>2, <2>a, <2>b
    <3>2. ASSUME NEW e \in Deliveries, e # d PROVE InOrder(e)'
      BY <2>1, <2>2, <2>a, <2>b, <3>2
    <3> HIDE DEF InOrder
    <3>3. QED
      BY <3>1, <3>2
  <2>4. LedgerIsExact' /\ MoneyIsExplained' /\ MoneyIsReal'
    BY <1>17, <2>1 DEF MarkForRefund
  <2>5. RefundedOnce' /\ OneLivePayment'
    BY <1>17, <2>1 DEF MarkForRefund
  <2>6. CallsOwnTheirPayment' /\ ReferenceComesFirst'
    BY <1>17, <2>1 DEF MarkForRefund
  <2>7. QED
    BY <2>3, <2>4, <2>5, <2>6
<1>18. ASSUME NEW d \in Deliveries, LeaveUnplaced(d) PROVE IInv'
  BY <1>18 DEF LeaveUnplaced
<1>19. ASSUME NEW d \in Deliveries, PlanEnrollment(d) PROVE IInv'
  BY <1>19 DEF PlanEnrollment
<1>20. ASSUME NEW d \in Deliveries, Enroll(d) PROVE IInv'
  BY <1>20 DEF Enroll
<1>21. ASSUME NEW d \in Deliveries, RefundAtProvider(d) PROVE IInv'
  BY <1>21 DEF RefundAtProvider
<1>22. ASSUME NEW d \in Deliveries, RefundRefused(d) PROVE IInv'
  BY <1>22 DEF RefundRefused
<1>23. ASSUME NEW d \in Deliveries, RecordRefund(d) PROVE IInv'
  BY <1>23 DEF RecordRefund
<1>24. ASSUME NEW d \in Deliveries, DeliveryDies(d) PROVE IInv'
  BY <1>24 DEF DeliveryDies
<1>25. CASE UNCHANGED vars
  BY <1>25 DEF vars
<1>26. QED
  BY <1>1, <1>2, <1>3, <1>4, <1>5, <1>6, <1>7, <1>8, <1>9, <1>10, <1>11, <1>12, <1>13, <1>14, <1>15, <1>16, <1>17, <1>18, <1>19, <1>20, <1>21, <1>22, <1>23, <1>24, <1>25, <1>9a DEF Next, InitiateStep, OutsideStep, WebhookStep, TxStep, RefundStep

LEMMA Inductive == Spec => []IInv
BY InitInv, InvStep, PTL DEF Spec

\* Each variable keeps its type, for every instance.
THEOREM TypeCorrect == Spec => []TypeOK
<1>1. IInv => TypeOK
  BY DEF IInv
<1>2. QED
  BY <1>1, Inductive, PTL

\* A Transaction row exists exactly for the payments that are COMPLETED: what
\* reconcilePayment commits is all or nothing.
THEOREM LedgerExact == Spec => []LedgerIsExact
<1>1. IInv => LedgerIsExact
  BY DEF IInv
<1>2. QED
  BY <1>1, Inductive, PTL

\* Every confirmed payment has a true explanation in the timeline.
THEOREM MoneyExplained == Spec => []MoneyIsExplained
<1>1. IInv => MoneyIsExplained
  BY DEF IInv
<1>2. QED
  BY <1>1, Inductive, PTL

\* No payment is COMPLETED unless the provider holds the money of its session.
THEOREM MoneyReal == Spec => []MoneyIsReal
<1>1. IInv => MoneyIsReal
  BY DEF IInv
<1>2. QED
  BY <1>1, Inductive, PTL

\* initiatePayment never lets two attempts of one application be in progress.
THEOREM OneLive == Spec => []OneLivePayment
<1>1. IInv => OneLivePayment
  BY DEF IInv
<1>2. QED
  BY <1>1, Inductive, PTL

\* processRefund asks for each payment's money back once at most, only where
\* reconcilePayment marked it, and records only what the provider accepted.
THEOREM RefundsOnce == Spec => []RefundedOnce
<1>1. IInv => RefundedOnce
  BY DEF IInv
<1>2. QED
  BY <1>1, Inductive, PTL

\* Every step writes the explanation and the refund of one payment the way the
\* abstract settlement does, or leaves them alone.
LEMMA SettlementStep == IInv /\ [Next]_vars => [Settlement!Next]_<<note, refund>>
<1> SUFFICES ASSUME IInv, [Next]_vars
             PROVE  Settlement!Next \/ UNCHANGED <<note, refund>>
  OBVIOUS
<1> USE DEF db, provider, vars, Settlement!Next, Settlement!Outcomes
<1>1. CASE UNCHANGED vars
  BY <1>1
<1>2. CASE InitiateStep \/ OutsideStep
  BY <1>2 DEF InitiateStep, OutsideStep, BeginInitiate, CreatePayment, RefusePayment,
     StoreReference, ProviderFails, RequestDies, BecomeOverdue, StudentPays,
     SessionExpires, RefundSettles, CancelApplication, EnrollByHand
<1>3. ASSUME NEW d \in Deliveries,
             \/ \E p \in PaymentIds : Confirm(d, p) \/ Decline(d, p)
             \/ MarkFailed(d) \/ Claim(d) \/ FindNoOther(d) \/ PlanEnrollment(d)
             \/ RefundAtProvider(d) \/ DeliveryDies(d)
      PROVE  UNCHANGED <<note, refund>>
  BY <1>3 DEF Confirm, Decline, MarkFailed, Claim, FindNoOther, PlanEnrollment,
     RefundAtProvider, DeliveryDies
<1>4. ASSUME NEW d \in Deliveries,
             \/ FlagDuplicate(d) \/ MarkForRefund(d) \/ LeaveUnplaced(d) \/ Enroll(d)
      PROVE  Settlement!Next
  <2>1. del[d].pc \in InTx
    BY <1>4 DEF FlagDuplicate, MarkForRefund, LeaveUnplaced, Enroll, InTx
  <2>2. del[d].on \in PaymentIds
    BY <2>1 DEF IInv, TypeOK, DelState, Idle, InTx
  <2>3. pay[del[d].on] # "COMPLETED"
    BY <2>1 DEF IInv, DeliveriesInOrder, InOrder
  <2>4. note[del[d].on] = "none"
    BY <2>2, <2>3 DEF IInv, MoneyIsExplained
  <2>5. \E what \in Settlement!Outcomes : Settlement!Settle(del[d].on, what)
    <3>1. CASE FlagDuplicate(d)
      BY <2>4, <3>1 DEF FlagDuplicate, Settle, Settlement!Settle
    <3>2. CASE MarkForRefund(d)
      BY <2>4, <3>2 DEF MarkForRefund, Settle, Settlement!Settle
    <3>3. CASE LeaveUnplaced(d)
      BY <2>4, <3>3 DEF LeaveUnplaced, Settle, Settlement!Settle
    <3>4. CASE Enroll(d)
      BY <2>4, <3>4 DEF Enroll, Settle, Settlement!Settle
    <3>5. QED
      BY <1>4, <3>1, <3>2, <3>3, <3>4
  <2>6. QED
    BY <2>2, <2>5
<1>5. ASSUME NEW d \in Deliveries, RefundRefused(d) \/ RecordRefund(d)
      PROVE  Settlement!Next
  <2>1. del[d].pc \in {"refunding", "refunded"}
    BY <1>5 DEF RefundRefused, RecordRefund
  <2>2. del[d].on \in PaymentIds
    BY <2>1 DEF IInv, TypeOK, DelState, Idle
  <2>3. refund[del[d].on] = "PENDING"
    BY <2>1 DEF IInv, DeliveriesInOrder, InOrder
  <2>4. \E how \in {"COMPLETED", "FAILED"} : Settlement!CloseRefund(del[d].on, how)
    BY <1>5, <2>3 DEF RefundRefused, RecordRefund, Settlement!CloseRefund
  <2>5. QED
    BY <2>2, <2>4
<1>6. QED
  BY <1>1, <1>2, <1>3, <1>4, <1>5 DEF Next, WebhookStep, TxStep, RefundStep

\* The rows of payments, refunds and timeline, read as a settlement, behave as
\* PaymentSettlement says: settled once and for good, refunds owed and closed
\* once, whatever is delivered twice, late, together or not at all.
THEOREM Refinement == Spec => RefinesSettlement
<1>1. Init => Settlement!Init
  BY DEF Init, Settlement!Init
<1>2. QED
  BY <1>1, SettlementStep, Inductive, PTL DEF Spec, RefinesSettlement, Settlement!Spec

\* A payment in the hands of a call, or of a delivery's transaction, is not
\* COMPLETED; every other write of Payment.status is conditioned on that.
THEOREM CompletedStays == Spec => CompletedForGood
<1>1. ASSUME IInv, [Next]_vars, NEW p \in PaymentIds, pay[p] = "COMPLETED"
      PROVE  pay'[p] = "COMPLETED" /\ note'[p] = note[p]
  <2> USE <1>1 DEF db, provider, vars
  <2>0. note[p] # "none" /\ note \in [PaymentIds -> Notes] /\ pay \in [PaymentIds -> PayStatuses]
    BY DEF IInv, MoneyIsExplained, TypeOK
  <2>1. pay'[p] = "COMPLETED"
    BY CompletedRemains
  <2>2. note'[p] = note[p]
    <3>1. CASE Settlement!Next
      BY <2>0, <3>1 DEF Settlement!Next, Settlement!Settle, Settlement!CloseRefund
    <3>2. QED
      BY <3>1, SettlementStep
  <2>3. QED
    BY <2>1, <2>2
<1>2. IInv /\ [Next]_vars
        => [\A p \in PaymentIds : pay[p] = "COMPLETED"
               => pay'[p] = "COMPLETED" /\ note'[p] = note[p]]_vars
  BY <1>1
<1>3. QED
  BY <1>2, Inductive, PTL DEF Spec, CompletedForGood
-----------------------------------------------------------------------------
(* Counting the payments that enroll a student in silence *)

\* The payments that enrolled the student of a, and the deliveries that have
\* looked for another payment of a and found none.
Enrolling(a) == {p \in PaymentIds : AppOf[p] = a /\ note[p] = "enrolled"}
Deciding(a) == {d \in Deliveries : del[d].pc \in {"alone", "enrolling"} /\ AppOf[del[d].on] = a}

\* Each payment that enrolled the student takes the place of a delivery: once
\* there is one, no further delivery finds the application without a payment.
PlacesSuffice ==
    \A a \in Applications :
        /\ IsFiniteSet(Enrolling(a))
        /\ Cardinality(Enrolling(a)) + Cardinality(Deciding(a)) <= Cardinality(Deliveries)

LEMMA FewerDeliveries ==
  ASSUME NEW S \in SUBSET Deliveries, NEW T \in SUBSET S
  PROVE  /\ IsFiniteSet(S)
         /\ Cardinality(S) \in Nat /\ Cardinality(T) \in Nat
         /\ Cardinality(T) <= Cardinality(S)
<1>1. IsFiniteSet(S)
  BY DeliveriesAssumption, FS_Subset
<1>2. QED
  BY <1>1, FS_Subset, FS_CardinalityType

\* A step that adds neither a payment nor a delivery to those of a.
LEMMA PlacesKept ==
  ASSUME PlacesSuffice, NEW a \in Applications,
         Enrolling(a)' \subseteq Enrolling(a), Deciding(a)' \subseteq Deciding(a)
  PROVE  /\ IsFiniteSet(Enrolling(a)')
         /\ Cardinality(Enrolling(a)') + Cardinality(Deciding(a)') <= Cardinality(Deliveries)
<1>1. /\ IsFiniteSet(Enrolling(a))
      /\ Cardinality(Enrolling(a)) + Cardinality(Deciding(a)) <= Cardinality(Deliveries)
  BY DEF PlacesSuffice
<1>2. /\ IsFiniteSet(Enrolling(a)') /\ Cardinality(Enrolling(a)') <= Cardinality(Enrolling(a))
      /\ Cardinality(Enrolling(a)) \in Nat /\ Cardinality(Enrolling(a)') \in Nat
  BY <1>1, FS_Subset, FS_CardinalityType
<1>3. /\ Cardinality(Deciding(a)') <= Cardinality(Deciding(a))
      /\ Cardinality(Deciding(a)) \in Nat /\ Cardinality(Deciding(a)') \in Nat
  <2>1. Deciding(a) \subseteq Deliveries
    BY DEF Deciding
  <2>2. QED
    BY <2>1, FewerDeliveries
<1>4. Cardinality(Deliveries) \in Nat
  BY DeliveriesAssumption, FS_CardinalityType
<1>5. QED
  BY <1>1, <1>2, <1>3, <1>4

\* A delivery finds no other payment COMPLETED only where none enrolled the
\* student; Enroll gives up the place of the delivery for that of the payment.
LEMMA PlacesStep == IInv /\ PlacesSuffice /\ [Next]_vars => PlacesSuffice'
<1> SUFFICES ASSUME IInv, PlacesSuffice, [Next]_vars, NEW a \in Applications
             PROVE  /\ IsFiniteSet(Enrolling(a)')
                    /\ Cardinality(Enrolling(a)') + Cardinality(Deciding(a)')
                          <= Cardinality(Deliveries)
  BY DEF PlacesSuffice, Enrolling, Deciding
<1>t. /\ del \in [Deliveries -> DelState] /\ note \in [PaymentIds -> Notes]
      /\ \A d \in Deliveries : del[d] # Idle => del[d].on \in PaymentIds
  BY DEF IInv, TypeOK, DelState, Idle, InTx
<1> USE DEF db, provider
<1>1. ASSUME note' = note, del' = del
      PROVE  Enrolling(a)' \subseteq Enrolling(a) /\ Deciding(a)' \subseteq Deciding(a)
  BY <1>1 DEF Enrolling, Deciding
<1>2. CASE InitiateStep \/ OutsideStep \/ UNCHANGED vars
  <2>1. note' = note /\ del' = del
    BY <1>2 DEF InitiateStep, OutsideStep, BeginInitiate, CreatePayment, RefusePayment,
       StoreReference, ProviderFails, RequestDies, BecomeOverdue, StudentPays,
       SessionExpires, RefundSettles, CancelApplication, EnrollByHand, vars
  <2>2. QED
    BY <1>1, <2>1, PlacesKept
<1>3. ASSUME NEW d \in Deliveries, note' = note, NEW new \in DelState,
             del' = [del EXCEPT ![d] = new],
             new.pc \in {"alone", "enrolling"} => del[d].pc = "alone" /\ new.on = del[d].on
      PROVE  Enrolling(a)' \subseteq Enrolling(a) /\ Deciding(a)' \subseteq Deciding(a)
  <2>1. del'[d] = new /\ \A e \in Deliveries \ {d} : del'[e] = del[e]
    BY <1>3, <1>t
  <2>2. ASSUME NEW e \in Deciding(a)'
        PROVE  e \in Deciding(a)
    <3>1. /\ e \in Deliveries /\ AppOf[del'[e].on] = a
          /\ del'[e].pc \in {"alone", "enrolling"}
      BY <2>2 DEF Deciding
    <3>2. CASE e = d
      BY <1>3, <2>1, <3>1, <3>2 DEF Deciding
    <3>3. CASE e # d
      BY <2>1, <3>1, <3>3 DEF Deciding
    <3>4. QED
      BY <3>2, <3>3
  <2>3. QED
    BY <1>3, <2>2 DEF Enrolling
<1>4. ASSUME NEW d \in Deliveries, note' = note, DelEnds(d)
      PROVE  Enrolling(a)' \subseteq Enrolling(a) /\ Deciding(a)' \subseteq Deciding(a)
  <2>1. Idle \in DelState /\ Idle.pc = "idle" /\ del' = [del EXCEPT ![d] = Idle]
    BY <1>4 DEF DelEnds, Idle, DelState
  <2>2. QED
    BY <1>3, <1>4, <2>1
<1>g. ASSUME NEW d \in Deliveries, note' = note, del[d] # Idle,
             NEW pc \in {"claimed", "enrolling", "refunded"}, DelGoes(d, pc),
             pc = "enrolling" => del[d].pc = "alone"
      PROVE  Enrolling(a)' \subseteq Enrolling(a) /\ Deciding(a)' \subseteq Deciding(a)
  <2> DEFINE new == [pc |-> pc, on |-> del[d].on]
  <2>1. new \in DelState
    BY <1>g, <1>t DEF DelState, InTx
  <2>2. /\ new.pc \in {"alone", "enrolling"} => del[d].pc = "alone" /\ new.on = del[d].on
        /\ del' = [del EXCEPT ![d] = new]
    BY <1>g DEF DelGoes
  <2> HIDE DEF new
  <2>3. QED
    BY <1>3, <1>g, <2>1, <2>2
<1>5. ASSUME NEW d \in Deliveries,
             \/ \E p \in PaymentIds : Confirm(d, p) \/ Decline(d, p)
             \/ Claim(d) \/ PlanEnrollment(d) \/ RefundAtProvider(d)
             \/ MarkFailed(d) \/ RefundRefused(d) \/ RecordRefund(d) \/ DeliveryDies(d)
      PROVE  Enrolling(a)' \subseteq Enrolling(a) /\ Deciding(a)' \subseteq Deciding(a)
  <2>1. ASSUME NEW p \in PaymentIds, Confirm(d, p) \/ Decline(d, p)
        PROVE  Enrolling(a)' \subseteq Enrolling(a) /\ Deciding(a)' \subseteq Deciding(a)
    <3>1. PICK pc \in {"confirmed", "declined"} : del' = [del EXCEPT ![d] = [pc |-> pc, on |-> p]]
      BY <2>1 DEF Confirm, Decline
    <3>2. note' = note
      BY <2>1 DEF Confirm, Decline
    <3>3. [pc |-> pc, on |-> p] \in DelState
      BY DEF DelState
    <3>4. QED
      BY <1>3, <3>1, <3>2, <3>3
  <2>2. CASE Claim(d) /\ ~DelEnds(d)
    <3>1. note' = note /\ del[d] # Idle /\ DelGoes(d, "claimed")
      BY <2>2 DEF Claim, Idle
    <3>2. QED
      BY <1>g, <3>1
  <2>3. CASE PlanEnrollment(d)
    <3>1. /\ note' = note /\ del[d] # Idle /\ DelGoes(d, "enrolling")
          /\ del[d].pc = "alone"
      BY <2>3 DEF PlanEnrollment, Idle
    <3>2. QED
      BY <1>g, <3>1
  <2>4. CASE RefundAtProvider(d)
    <3>1. note' = note /\ del[d] # Idle /\ DelGoes(d, "refunded")
      BY <2>4 DEF RefundAtProvider, Idle
    <3>2. QED
      BY <1>g, <3>1
  <2>5. CASE /\ DelEnds(d)
             /\ Claim(d) \/ MarkFailed(d) \/ RefundRefused(d) \/ RecordRefund(d) \/ DeliveryDies(d)
    <3>1. note' = note
      BY <2>5 DEF Claim, MarkFailed, RefundRefused, RecordRefund, DeliveryDies
    <3>2. QED
      BY <1>4, <2>5, <3>1
  <2>6. QED
    BY <1>5, <2>1, <2>2, <2>3, <2>4, <2>5 DEF MarkFailed, RefundRefused, RecordRefund, DeliveryDies
<1>6. ASSUME NEW d \in Deliveries, FindNoOther(d)
      PROVE  /\ IsFiniteSet(Enrolling(a)')
             /\ Cardinality(Enrolling(a)') + Cardinality(Deciding(a)') <= Cardinality(Deliveries)
  <2> DEFINE p == del[d].on
  <2>1. /\ del[d].pc = "claimed" /\ p \in PaymentIds /\ note' = note
        /\ del' = [del EXCEPT ![d] = [pc |-> "alone", on |-> p]]
        /\ \A q \in PaymentIds : AppOf[q] = AppOf[p] /\ q # p => pay[q] # "COMPLETED"
    BY <1>6, <1>t DEF FindNoOther, DelGoes, OtherCompleted, SiblingsOf, Idle
  <2>2. pay[p] # "COMPLETED"
    BY <2>1 DEF IInv, DeliveriesInOrder, InOrder, InTx
  <2>3. CASE AppOf[p] = a
    <3>1. Enrolling(a)' = {}
      BY <2>1, <2>2, <2>3 DEF Enrolling, IInv, MoneyIsExplained
    <3>2. Deciding(a)' \subseteq Deliveries
      BY DEF Deciding
    <3>3. IsFiniteSet(Enrolling(a)') /\ Cardinality(Enrolling(a)') = 0
      BY <3>1, FS_EmptySet
    <3>4. /\ Cardinality(Deciding(a)') <= Cardinality(Deliveries)
          /\ Cardinality(Deciding(a)') \in Nat /\ Cardinality(Deliveries) \in Nat
      BY <3>2, FewerDeliveries
    <3>5. QED
      BY <3>3, <3>4
  <2>4. CASE AppOf[p] # a
    <3>1. Enrolling(a)' \subseteq Enrolling(a) /\ Deciding(a)' \subseteq Deciding(a)
      BY <1>t, <2>1, <2>4 DEF Enrolling, Deciding
    <3>2. QED
      BY <3>1, PlacesKept
  <2>5. QED
    BY <2>3, <2>4
<1>7. ASSUME NEW d \in Deliveries, FlagDuplicate(d) \/ MarkForRefund(d) \/ LeaveUnplaced(d)
      PROVE  Enrolling(a)' \subseteq Enrolling(a) /\ Deciding(a)' \subseteq Deciding(a)
  <2> DEFINE p == del[d].on
  <2>1. \E what \in Notes \ {"enrolled"} : note' = [note EXCEPT ![p] = what]
    BY <1>7 DEF FlagDuplicate, MarkForRefund, LeaveUnplaced, Settle, Notes
  <2>2. Enrolling(a)' \subseteq Enrolling(a)
    BY <1>t, <2>1 DEF Enrolling
  <2>3. \/ del' = [del EXCEPT ![d] = [pc |-> "idle", on |-> Nothing]]
        \/ del' = [del EXCEPT ![d] = [pc |-> "refunding", on |-> p]]
    BY <1>7 DEF FlagDuplicate, MarkForRefund, LeaveUnplaced, DelEnds, DelGoes, Idle
  <2>4. Deciding(a)' \subseteq Deciding(a)
    BY <1>t, <2>3 DEF Deciding
  <2>5. QED
    BY <2>2, <2>4
<1>8. ASSUME NEW d \in Deliveries, Enroll(d)
      PROVE  /\ IsFiniteSet(Enrolling(a)')
             /\ Cardinality(Enrolling(a)') + Cardinality(Deciding(a)') <= Cardinality(Deliveries)
  <2> DEFINE p == del[d].on
  <2>1. /\ del[d].pc = "enrolling" /\ p \in PaymentIds
        /\ note' = [note EXCEPT ![p] = "enrolled"] /\ del' = [del EXCEPT ![d] = Idle]
    BY <1>8, <1>t DEF Enroll, Settle, DelEnds, Idle
  <2>2. CASE AppOf[p] = a
    <3>1. Enrolling(a)' \subseteq Enrolling(a) \cup {p} /\ d \in Deciding(a)
          /\ Deciding(a)' \subseteq Deciding(a) \ {d}
      BY <1>t, <2>1, <2>2 DEF Enrolling, Deciding, Idle
    <3>2. /\ IsFiniteSet(Enrolling(a)) /\ Cardinality(Enrolling(a)) \in Nat
          /\ Cardinality(Enrolling(a)) + Cardinality(Deciding(a)) <= Cardinality(Deliveries)
      BY FS_CardinalityType DEF PlacesSuffice
    <3>3. /\ IsFiniteSet(Enrolling(a) \cup {p})
          /\ Cardinality(Enrolling(a) \cup {p}) \in Nat
          /\ Cardinality(Enrolling(a) \cup {p}) <= Cardinality(Enrolling(a)) + 1
      <4>1. /\ IsFiniteSet(Enrolling(a) \cup {p})
            /\ Cardinality(Enrolling(a) \cup {p}) =
                  IF p \in Enrolling(a) THEN Cardinality(Enrolling(a))
                  ELSE Cardinality(Enrolling(a)) + 1
        BY <3>2, FS_AddElement
      <4>2. Cardinality(Enrolling(a) \cup {p}) \in Nat
        BY <4>1, FS_CardinalityType
      <4>3. QED
        BY <3>2, <4>1, <4>2
    <3>4. /\ IsFiniteSet(Enrolling(a)') /\ Cardinality(Enrolling(a)') \in Nat
          /\ Cardinality(Enrolling(a)') <= Cardinality(Enrolling(a) \cup {p})
      BY <3>1, <3>3, FS_Subset, FS_CardinalityType
    <3>5. /\ IsFiniteSet(Deciding(a)) /\ Cardinality(Deciding(a)) \in Nat
          /\ Cardinality(Deciding(a) \ {d}) = Cardinality(Deciding(a)) - 1
      <4>1. Deciding(a) \subseteq Deliveries
        BY DEF Deciding
      <4>2. QED
        BY <3>1, <4>1, FewerDeliveries, FS_RemoveElement
    <3>6. /\ Cardinality(Deciding(a)') \in Nat
          /\ Cardinality(Deciding(a)') <= Cardinality(Deciding(a) \ {d})
      <4>1. Deciding(a) \ {d} \subseteq Deliveries
        BY DEF Deciding
      <4>2. QED
        BY <3>1, <4>1, FewerDeliveries
    <3>7. Cardinality(Deliveries) \in Nat
      BY DeliveriesAssumption, FS_CardinalityType
    <3>8. QED
      BY <3>2, <3>3, <3>4, <3>5, <3>6, <3>7
  <2>3. CASE AppOf[p] # a
    <3>1. Enrolling(a)' \subseteq Enrolling(a) /\ Deciding(a)' \subseteq Deciding(a)
      BY <1>t, <2>1, <2>3 DEF Enrolling, Deciding, Idle
    <3>2. QED
      BY <3>1, PlacesKept
  <2>4. QED
    BY <2>2, <2>3
<1>9. QED
  BY <1>2, <1>5, <1>6, <1>7, <1>8, PlacesKept DEF Next, WebhookStep, TxStep, RefundStep

LEMMA PlacesInductive == Spec => [](IInv /\ PlacesSuffice)
<1>1. Init => PlacesSuffice
  <2> SUFFICES ASSUME Init, NEW a \in Applications
               PROVE  /\ IsFiniteSet(Enrolling(a))
                      /\ Cardinality(Enrolling(a)) + Cardinality(Deciding(a))
                            <= Cardinality(Deliveries)
    BY DEF PlacesSuffice
  <2>1. Enrolling(a) = {} /\ Deciding(a) = {}
    BY DEF Init, Enrolling, Deciding, Idle
  <2>2. QED
    BY <2>1, FS_EmptySet, DeliveriesAssumption, FS_CardinalityType
<1>2. QED
  BY <1>1, InitInv, InvStep, PlacesStep, PTL DEF Spec

\* Never more payments of one application enroll the student in silence than
\* deliveries run at once: reconcilePayment looks for another COMPLETED payment
\* before it decides, so that only overlapping transactions overlook one.
THEOREM SilentDuplicatesOverlap == Spec => []SilentDuplicatesNeedOverlap
<1>1. PlacesSuffice => SilentDuplicatesNeedOverlap
  <2> SUFFICES ASSUME PlacesSuffice, NEW a \in Applications
               PROVE  Cardinality(Enrolling(a)) <= Cardinality(Deliveries)
    BY DEF SilentDuplicatesNeedOverlap, Enrolling
  <2>1. Deciding(a) \subseteq Deliveries
    BY DEF Deciding
  <2>2. Cardinality(Deciding(a)) \in Nat /\ Cardinality(Deliveries) \in Nat
    BY <2>1, FewerDeliveries
  <2>3. QED
    BY <2>2, FS_CardinalityType DEF PlacesSuffice
<1>2. QED
  BY <1>1, PlacesInductive, PTL

\* With one delivery at a time a second payment of an application never passes
\* in silence, as the comment of reconcilePayment has it.
THEOREM NoSilentDoubleChargeAlone ==
  ASSUME Cardinality(Deliveries) <= 1
  PROVE  Spec => []NoSilentDoubleCharge
<1>1. PlacesSuffice => NoSilentDoubleCharge
  <2> SUFFICES ASSUME PlacesSuffice, NEW p \in PaymentIds, NEW q \in PaymentIds,
                      AppOf[p] = AppOf[q], note[p] = "enrolled", note[q] = "enrolled", p # q
               PROVE  FALSE
    BY DEF NoSilentDoubleCharge
  <2> DEFINE a == AppOf[p]
  <2>1. a \in Applications /\ {p, q} \subseteq Enrolling(a)
    BY AppOfAssumption DEF Enrolling
  <2>2. /\ IsFiniteSet(Enrolling(a)) /\ Cardinality(Enrolling(a)) \in Nat
        /\ Cardinality(Enrolling(a)) + Cardinality(Deciding(a)) <= Cardinality(Deliveries)
    BY <2>1, FS_CardinalityType DEF PlacesSuffice
  <2>3. Cardinality({p, q}) = 2
    <3>1. IsFiniteSet({p}) /\ Cardinality({p}) = 1
      BY FS_Singleton
    <3>2. {p, q} = {p} \cup {q} /\ q \notin {p}
      OBVIOUS
    <3>3. QED
      BY <3>1, <3>2, FS_AddElement
  <2>4. Cardinality({p, q}) <= Cardinality(Enrolling(a))
    BY <2>1, <2>2, FS_Subset
  <2>5. Cardinality(Deciding(a)) \in Nat /\ Cardinality(Deliveries) \in Nat
    <3>1. Deciding(a) \subseteq Deliveries
      BY DEF Deciding
    <3>2. QED
      BY <3>1, FewerDeliveries
  <2> HIDE DEF a
  <2>6. QED
    BY <2>2, <2>3, <2>4, <2>5
<1>2. QED
  BY <1>1, PlacesInductive, PTL
=============================================================================
