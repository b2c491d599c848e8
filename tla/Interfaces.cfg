\* Up to three messages, in any number of datagrams.
CONSTANTS
    Names <- SomeNames
    Wanted = "wlan0"
    Types <- SomeTypes
    MaxMessages = 3
SPECIFICATION Spec
INVARIANTS
    TypeOK
    FirstOfItsName
PROPERTIES
    Ends
CHECK_DEADLOCK FALSE
