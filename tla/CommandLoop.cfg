\* Every interleaving of startup and of three requests.
CONSTANTS
    Requests = {r1, r2, r3}
SPECIFICATION FairSpec
INVARIANTS
    TypeOK
    Handshake
    OneResponder
PROPERTIES
    Answered
    ImplementsRpc
\* Every request has been answered, or the process is gone.
CHECK_DEADLOCK FALSE
