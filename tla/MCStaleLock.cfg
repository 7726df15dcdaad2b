CONSTANTS
    p1 = p1
    p2 = p2
    Procs = {p1, p2}
    None = None
    Old = Old
    MaxFaults = 0
    Crashable = {}
    MaxPolls = 1
    LockLeftOver = TRUE
    SlowHolders = FALSE
SPECIFICATION OverwriteSpec
SYMMETRY ProcSymmetry
PROPERTY YoungLockKept
CHECK_DEADLOCK FALSE
