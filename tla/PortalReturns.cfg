\* Liveness of one run with two concurrent stops.
CONSTANTS
    Stops = {s1, s2}
    Profiles = {p1, p2}
    Ssids = {x}
    MaxRuns = 1
    NoProfile = NoProfile
SPECIFICATION FairSpec
PROPERTIES
    Returns
CHECK_DEADLOCK FALSE
