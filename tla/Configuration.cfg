CONSTANTS
    Numbers <- MCNumbers
    Range_ <- MCRange
    Broken = {"bad"}
    Scenes <- MCScenes
    Texts <- MCTexts
    Sample <- MCSample
    Lists <- MCLists
    MaxOps = 3
SPECIFICATION Spec
CHECK_DEADLOCK FALSE
INVARIANTS MatchesAgree SettingsAgree
PROPERTIES ComesToRest
