\* Liveness of one run with two requests.
CONSTANTS
    Requests = {r1, r2}
    Profiles = {p1}
    Ssids = {home}
    MaxRuns = 1
    NoProfile = NoProfile
SPECIFICATION FairSpec
PROPERTIES
    StartupEnds
    StopAnswered
CHECK_DEADLOCK FALSE
