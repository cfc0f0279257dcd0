CONSTANTS
    None = None
    Sessions <- MCSessions
    MaxReports = 2
SPECIFICATION Spec
CHECK_DEADLOCK FALSE
INVARIANTS GeometryKept
PROPERTIES RestoredHome PlacedInside
