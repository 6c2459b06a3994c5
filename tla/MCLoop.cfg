\* Two clients; start may be called twice.
SPECIFICATION FairSpec
CONSTANTS
    Clients = {c1, c2}
    MaxStart = 2
    Waiting = {TRUE, FALSE}
INVARIANTS
    JoinedBeforeFree
PROPERTIES
    StopEndsLoop
CHECK_DEADLOCK FALSE
