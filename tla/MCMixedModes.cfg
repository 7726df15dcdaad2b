CONSTANTS
    create = create
    force = force
    Procs = {create, force}
    Creators = {create}
    None = None
    Old = Old
    MaxFaults = 0
    Crashable = {}
    MaxPolls = 0
    LockLeftOver = FALSE
    SlowHolders = FALSE
SPECIFICATION Spec
PROPERTY CreateLeavesOthersAlone
CHECK_DEADLOCK FALSE
