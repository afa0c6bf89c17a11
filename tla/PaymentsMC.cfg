SPECIFICATION Spec
CONSTANTS
    a1 = a1
    p1 = p1
    p2 = p2
    p3 = p3
    Nothing = Nothing
    Applications <- OneApplication
    PaymentIds <- ThreePayments
    AppOf <- AllOfOne
    Requests = {r1, r2}
    Deliveries = {d1, d2}
    FlakyProvider = TRUE
SYMMETRY Symmetry
INVARIANTS TypeOK LedgerIsExact MoneyIsExplained MoneyIsReal OneLivePayment RefundedOnce SilentDuplicatesNeedOverlap
PROPERTIES CompletedForGood RefinesSettlement
CHECK_DEADLOCK FALSE
