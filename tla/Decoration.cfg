SPECIFICATION Spec
CONSTANTS
    Window = {w1}
    MaxRefused = 1
    MaxOps = 3
    MaxHolds = 1
CHECK_DEADLOCK FALSE
INVARIANTS CountedOnce DecorationsAgree
PROPERTIES ComesToRest
