SPECIFICATION Spec
CONSTANTS
    Window = {w1, w2}
    Cell = {1, 2, 3}
    Outputs = {{1}, {2}}
    Shape = {{1, 2}, {1}, {2, 3}}
    SyncWindow = {w2}
    MaxOps = 3
CHECK_DEADLOCK FALSE
INVARIANTS ScreenShows ResourcesAgree
PROPERTIES ComesToRest
