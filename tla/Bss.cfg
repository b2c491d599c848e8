\* Up to three elements, cut at any byte.
CONSTANTS
    Ids = {0, 1}
    Payloads <- SomePayloads
    MaxElements = 3
    Signals <- SomeSignals
    InvalidByte = 9
SPECIFICATION FairSpec
INVARIANTS
    TypeOK
    StationIsNamed
    QualityOrdered
PROPERTIES
    Ends
CHECK_DEADLOCK FALSE
