\* Two interfaces of any kind, three polls instead of 45.
CONSTANTS
    Ifaces = {i1, i2}
    WIFI_SCAN_TIMEOUT_SECONDS = 3
    MaxDelay = 2
SPECIFICATION FairSpec
INVARIANTS
    TypeOK
    FreshOrPatient
PROPERTIES
    Concludes
CHECK_DEADLOCK FALSE
