-------------------------- MODULE PaymentSettlement --------------------------
(***************************************************************************)
(* What reconciliation promises about money received, said without         *)
(* transactions, sessions or locks: each payment is settled at most once,  *)
(* in one of four ways that never change, and exactly the payments settled *)
(* as "cancelled" owe a refund, which is then given or given up, once.     *)
(*                                                                         *)
(* Source: the comments of PaymentService.reconcilePayment and             *)
(* processRefund (src/backend/src/modules/payment/payment.service.ts).     *)
(***************************************************************************)
CONSTANT PaymentIds

VARIABLES
    settled,   \* "none", or what became of the money
    owed       \* "none", or how the refund of the payment stands

Outcomes == {"enrolled", "duplicate", "cancelled", "unplaced"}

Init ==
    /\ settled = [p \in PaymentIds |-> "none"]
    /\ owed = [p \in PaymentIds |-> "none"]

Settle(p, what) ==
    /\ settled[p] = "none"
    /\ settled' = [settled EXCEPT ![p] = what]
    /\ owed' = IF what = "cancelled" THEN [owed EXCEPT ![p] = "PENDING"] ELSE owed

CloseRefund(p, how) ==
    /\ owed[p] = "PENDING"
    /\ owed' = [owed EXCEPT ![p] = how]
    /\ UNCHANGED settled

Next == \E p \in PaymentIds :
            \/ \E what \in Outcomes : Settle(p, what)
            \/ \E how \in {"COMPLETED", "FAILED"} : CloseRefund(p, how)

Spec == Init /\ [][Next]_<<settled, owed>>
=============================================================================
