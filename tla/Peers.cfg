SPECIFICATION Spec
CONSTANTS
    Window = {a, b}
    Dock = {dock}
    Output = {b}
    Pings = {a}
    Deletes = {a}
    DoubleClick = "max"
    MiddleClick = "menu"
    None = None
    Starts = {s}
    Argvs <- MCArgvs
    MouseButton = {1, 2}
    Place = {"close", "roll", "menu", "title", "gap"}
    Budgets <- MCBudgets
    MaxQueue = 2
CHECK_DEADLOCK FALSE
INVARIANTS HoversAgree PeersAgree
PROPERTIES ClicksAct EverAnswered
