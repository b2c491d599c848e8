\* Liveness of two requests.
CONSTANTS
    Handlers = {h1, h2}
    MaxPlugs = 1
    MaxScans = 1
SPECIFICATION FairSpec
PROPERTIES
    Returns
CHECK_DEADLOCK FALSE
