SPECIFICATION Spec
CONSTANTS
    Plain = {p1, p2}
    Search = {s1}
    Settings = {u1, u2}
    MaxClicks = 3
    NumModels = 3
    Limit = 2
    MaxLoops = 2
INVARIANTS
    PageInv
    LatestShown
    BatchLimit
PROPERTIES
    ReportComplete
    BatchEnds
CHECK_DEADLOCK FALSE
