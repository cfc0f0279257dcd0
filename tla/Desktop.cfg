CONSTANTS
    A = A
    B = B
    C = C
    NoWindow = NoWindow
    Windows = {A, B, C}
    Sessions <- MCSessions
    MaxEvents = 3
SPECIFICATION Spec
CHECK_DEADLOCK FALSE
INVARIANTS StackKept FocusKept ClickReaches
