SPECIFICATION Spec
CONSTANTS
    Students = {s1}
    Programs = {p1, p2}
    MaxLevel = 2
    Courses = {c1}
    Years = {y1, y2}
    Requests = {r1, r2}
    None = None
SYMMETRY Symmetry
INVARIANTS
    TypeOK
    FollowsHisCourses
    ClosedCoursesNeedCrossing
    LevelsNeedCrossing
    TwoYearsNeedCrossing
PROPERTIES
    LeaversKeepCourses
CHECK_DEADLOCK FALSE
