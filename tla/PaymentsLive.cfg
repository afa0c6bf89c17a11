SPECIFICATION FairSpec
CONSTANTS
    a1 = a1
    p1 = p1
    p2 = p2
    p3 = p3
    Nothing = Nothing
    Applications <- OneApplication
    PaymentIds <- TwoPayments
    AppOf <- AllOfOne
    Requests = {r1}
    Deliveries = {d1}
    FlakyProvider = TRUE
PROPERTIES PaidIsRecorded
CHECK_DEADLOCK FALSE
