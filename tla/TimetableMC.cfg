SPECIFICATION Spec
CONSTANTS
    c1 = c1
    c2 = c2
    t1 = t1
    t2 = t2
    x = x
    q1 = q1
    q2 = q2
    r1 = r1
    r2 = r2
    Fresh = Fresh
    Gone = Gone
    Nothing = Nothing
    Courses <- TwoCourses
    SchoolOf <- SchoolOfEach
    Teachers <- TwoTeachers
    Rooms <- OneRoom
    Days <- OneDay
    Hours <- Morning
    Given <- Updates
    Slots <- TwoSlots
    Requests <- TwoReqs
    Crashes = TRUE
SYMMETRY SchoolSymmetry
INVARIANTS RowsFollowCourse RoomsSharedUnseen SessionsHaveLength ShownTeacherIsFree
CHECK_DEADLOCK FALSE
