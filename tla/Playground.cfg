SPECIFICATION Spec
CONSTANTS
    MaxKeys = 5
    Modes = {TRUE, FALSE}
INVARIANTS
    PlaygroundInv
    AnswersStayApart
    SettledWhenIdle
PROPERTIES
    FinalStays
