\* A user's access point profile with the SSID of the portal.
CONSTANTS
    Stops = {s1}
    Profiles = {p1, p2}
    Ssids = {x}
    MaxRuns = 1
    NoProfile = NoProfile
SPECIFICATION Spec
INVARIANT PurgesOnlyOwn
CHECK_DEADLOCK FALSE
