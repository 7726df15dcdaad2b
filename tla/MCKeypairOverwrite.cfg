CONSTANTS
    p1 = p1
    p2 = p2
    Procs = {p1, p2}
    None = None
    Old = Old
    MaxFaults = 3
    Crashable = {p1}
    MaxPolls = 1
    LockLeftOver = FALSE
    SlowHolders = FALSE
SPECIFICATION FairOverwriteSpec
INVARIANTS OverwriteTypeOK MutualExclusion MixedOnlyAfterCritical FailedOverwriteUndone CommittedPairInPlace
PROPERTIES KeyNotDestroyed EveryOverwriteEnds
CHECK_DEADLOCK FALSE
