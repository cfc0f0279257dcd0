CONSTANTS
    w1 = w1
    w2 = w2
    Window <- MCWindow
    Place <- MCPlace
    Loads <- MCLoads
    Neighbours <- MCNeighbours
    FadeTime = 2
    MaxEnergy = 2
    MaxOps = 3
SPECIFICATION Spec
CHECK_DEADLOCK FALSE
INVARIANTS FadesFinish EffectsAgree
PROPERTIES ComesToRest
