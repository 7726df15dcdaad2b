CONSTANTS
    p1 = p1
    p2 = p2
    p3 = p3
    Procs = {p1, p2, p3}
    None = None
    Old = Old
    MaxFaults = 2
    Crashable = {p1, p2, p3}
SPECIFICATION CreateSpec
SYMMETRY ProcSymmetry
INVARIANTS CreateTypeOK OkMeansInstalled FailureLeavesNoKey NeverMixed ExactlyOneWinner
PROPERTY ForeignFileKept
CHECK_DEADLOCK FALSE
