CONSTANTS
    Anything = Anything
    Company = Company
    Runs = {Anything, Company}
    Locs <- AllLocs
    SigOf <- Signatures
    Jobs <- AllJobs
    Directories <- Mixed
    KeyLocs <- BothKeys
    MaxFaults = 1
SPECIFICATION FairSpec
INVARIANTS TypeOK ExitTellsTruth NeverAgainstItself SignedOnce
PROPERTIES InputsIntact EveryBatchEnds
CHECK_DEADLOCK FALSE
