SPECIFICATION Spec
CONSTANTS
    q1 = q1
    q2 = q2
    k = k
    t1 = t1
    t2 = t2
    Requirements = {q1, q2}
    Classes = {k}
    ClassOf <- OneClass
    Need <- Needs
    Teachers = {t1, t2}
    Away <- Absences
    LastTime = 2
    Rooms = {m1, m2}
    Courses = {c1, c2}
    Runs = {g1, g2}
    MaxStarts = 2
    MaxEdits = 1
    None = None
SYMMETRY Symmetry
INVARIANTS
    TypeOK
    ClassNeverTwice
    NeedNotExceeded
    OrphansHaveACause
    UnresolvedIsReal
CHECK_DEADLOCK FALSE
