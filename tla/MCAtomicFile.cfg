CONSTANTS
    w1 = w1
    w2 = w2
    w3 = w3
    w4 = w4
    Overwriters = {w1}
    Replacers = {w2}
    Linkers = {w3}
    Plain = {w4}
    None = None
    Old = Old
    Symlink = Symlink
    Torn = Torn
    BareName = FALSE
    MaxFaults = 2
SPECIFICATION Spec
INVARIANTS TypeOK FailureLeavesNoTmp
PROPERTY KeepsPromise
CHECK_DEADLOCK FALSE
