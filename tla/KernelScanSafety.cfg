\* Two requests; wlan0 is plugged in twice, and each radio scans at most twice.
CONSTANTS
    Handlers = {h1, h2}
    MaxPlugs = 2
    MaxScans = 2
SPECIFICATION Spec
SYMMETRY Symmetry
INVARIANTS
    TypeOK
    Synchronised
    FreshResults
\* Requests may wait for ever.
CHECK_DEADLOCK FALSE
