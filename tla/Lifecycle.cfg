SPECIFICATION Spec
CONSTANTS
    w1 = w1
    w2 = w2
    Windows = {w1, w2}
    NoWindow = None
    TransientFor <- MCPair
    Desktops = {1, 2}
    Courses <- MCCourses
CHECK_DEADLOCK FALSE
INVARIANTS
    ShownAgrees
    DesktopsAgree
    UnmapsCounted
    LeaversKept
