SPECIFICATION Spec
CONSTANTS
    r1 = r1
    r2 = r2
    r3 = r3
    Nothing = Nothing
    Apps <- Four
    Rank <- Order
    Requests <- ThreeReqs
    Targets <- DecisionsAndTest
    Capacity = 2
    OneAtATime = TRUE
SYMMETRY Symmetry
INVARIANTS TypeOK CapacityRespected EnrollmentFollowsAcceptance
PROPERTIES TerminalIsFinal AcceptedByTheTable
CHECK_DEADLOCK FALSE
