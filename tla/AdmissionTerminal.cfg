SPECIFICATION Spec
CONSTANTS
    r1 = r1
    r2 = r2
    r3 = r3
    Nothing = Nothing
    Apps <- Three
    Rank <- Order
    Requests <- TwoReqs
    Targets <- DecisionsAndTest
    Capacity = 1
    OneAtATime = FALSE
SYMMETRY Symmetry
PROPERTY TerminalIsFinal
CHECK_DEADLOCK FALSE
