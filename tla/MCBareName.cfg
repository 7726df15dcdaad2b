CONSTANTS
    w1 = w1
    w2 = w2
    w3 = w3
    Overwriters = {w1}
    Replacers = {}
    Linkers = {}
    Plain = {}
    None = None
    Old = Old
    Symlink = Symlink
    Torn = Torn
    BareName = TRUE
    MaxFaults = 0
SPECIFICATION Spec
INVARIANT OkSurvivesPowerLoss
CHECK_DEADLOCK FALSE
