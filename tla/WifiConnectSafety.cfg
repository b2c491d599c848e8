\* Two requests in each of two runs, two profiles at most, one SSID.
CONSTANTS
    Requests = {r1, r2}
    Profiles = {p1, p2}
    Ssids = {home}
    MaxRuns = 2
    NoProfile = NoProfile
SPECIFICATION Spec
SYMMETRY Symmetry
INVARIANTS
    StopTold
PROPERTIES
    ImplementsHotspot
\* The program may be over.
CHECK_DEADLOCK FALSE
