SPECIFICATION Spec
CONSTANTS
    MaxSends = 3
    MaxEndpoints = 2
    Sessions = {s1, s2}
    MaxHeaders = 1
INVARIANTS
    WebsocketIsSound
    ServerIsSound
PROPERTIES
    ClosedCloses
    Drains
CHECK_DEADLOCK FALSE
