CONSTANTS
    p1 = p1
    p2 = p2
    a = a
    b = b
    Procs = {p1, p2}
    Passwords = {a, b}
    CommandLines <- AllCommandLines
    Nothing = Nothing
    Refused = Refused
    None = None
    Cut = Cut
    Old = Old
    LossyStore = TRUE
    MaxFaults = 2
SPECIFICATION Spec
SYMMETRY Symmetries
INVARIANTS TypeOK ReadAsGetopt StoredPasswordOpens OldPasswordGone SaveIsAnswered
CHECK_DEADLOCK FALSE
