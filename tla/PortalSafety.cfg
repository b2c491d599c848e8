\* Two concurrent stops; two runs, with the same --ssid or with another.
CONSTANTS
    Stops = {s1, s2}
    Profiles = {p1, p2, p3}
    Ssids = {x, y}
    MaxRuns = 2
    NoProfile = NoProfile
SPECIFICATION Spec
SYMMETRY Symmetry
INVARIANTS
    TypeOK
    OneProfilePerSsid
    StopTakesDown
    NothingLeftBehind
CHECK_DEADLOCK FALSE
