SPECIFICATION FairSpec
CONSTANTS
    c1 = c1
    c2 = c2
    nil = nil
    Conns <- MCConns
    Configs <- AllConfigs
    PingAfter = 1
    DeadAfter = 2
    RetryAfter = 2
CHECK_DEADLOCK FALSE
INVARIANTS
    ClientIsSound
PROPERTIES
    NeverReplaced
    UnwantedCloses
    ClosedQuitExits
