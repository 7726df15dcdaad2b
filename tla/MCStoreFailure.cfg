CONSTANTS
    p1 = p1
    p2 = p2
    a = a
    b = b
    Procs = {p1}
    Passwords = {a, b}
    CommandLines <- OneCommandLine
    Nothing = Nothing
    Refused = Refused
    None = None
    Cut = Cut
    Old = Old
    LossyStore = FALSE
    MaxFaults = 1
SPECIFICATION Spec
PROPERTY StoreErrorsNeverBlock
CHECK_DEADLOCK FALSE
