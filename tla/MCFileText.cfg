CONSTANTS
    Comments <- AllComments
    NoComment = NoComment
    Default <- DefaultComment
    MaxEdits = 3
SPECIFICATION Spec
INVARIANTS TextTypeOK WrittenIsRead ReadersAgree InspectTellsKind
CHECK_DEADLOCK FALSE
