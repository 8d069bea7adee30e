SPECIFICATION FairSpec
CONSTANTS
    p1 = p1
    p2 = p2
    Progs <- TwoProgs
    MaxReloads = 1
INVARIANTS
    KeyboardComesBack
    TerminalIsExclusive
    ResumedAtTheEnd
PROPERTY
    ShutdownEnds
CHECK_DEADLOCK FALSE
