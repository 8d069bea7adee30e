SPECIFICATION AnsweringSpec
CONSTANTS
    c1 = c1
    c2 = c2
    nil = nil
    Conns <- MCConns
    Configs <- GoodConfig
    PingAfter = 1
    DeadAfter = 2
    RetryAfter = 2
CHECK_DEADLOCK FALSE
PROPERTY QuitExits
