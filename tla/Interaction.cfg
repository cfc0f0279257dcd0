SPECIFICATION Spec
CONSTANTS
    Windows = {w1, w2}
    NoWindow = none
    Unsynced = {w1}
    Sizes = {1, 2}
    Places = {0, 1}
    Lazy = TRUE
    SnapOff = TRUE
    DefaultMode = "Stretch"
    KeyToggle = TRUE
    ButtonToggle = FALSE
    ClickToFocus = TRUE
    ShowDesktop = TRUE
    ShowMinimized = FALSE
    Zooming = FALSE
    FocusOnSwitch = FALSE
    Columns = 3
    Faces = 4
    SnapTop = FALSE
    EdgeFlip = {"pointer", "window", "dnd"}
    FlipDelay = TRUE
    MaxOutputs = 3
    MaxInputs = 4
    MaxEvents = 3
    Combinations <- MCCombinations
    Bound <- MCBound
CHECK_DEADLOCK FALSE
INVARIANTS GrabsAgree WindowsAgree PaintAgrees
PROPERTIES ModesEnd
