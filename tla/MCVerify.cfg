CONSTANTS
    Files <- AllFiles
    Keys <- AllKeys
    Num <- Numbers
    Contents <- AllContents
    Boxes <- AllBoxes
    NoBox = NoBox
    Worlds <- AllWorlds
    Jobs <- AllJobs
    MaxSize = 2
    MaxChanges = 1
    MaxFaults = 1
SPECIFICATION Spec
INVARIANTS TypeOK GoodIsAccepted
PROPERTY AcceptedIsSigned
CHECK_DEADLOCK FALSE
