CONSTANTS
    None = None
    Sessions <- MCSessions
    MaxQueue = 2
SPECIFICATION Spec
CHECK_DEADLOCK FALSE
INVARIANTS GrabsAgree KeyActionsEnd EdgeActionsEnd
