\* Every list of up to four access points.
CONSTANTS
    Names <- SomeNames
    Unreadable = 3
    Strengths = {0, 1, 2}
    MaxAps = 4
SPECIFICATION Spec
INVARIANTS
    TypeOK
    StrongestOfEachName
CHECK_DEADLOCK FALSE
