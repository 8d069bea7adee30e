SPECIFICATION FairSpec
CONSTANTS
    Caps <- TwoCaps
    Wanted <- TwoCaps
    Creds <- PlainThenScram
    Kinds <- AllKinds
    ServerMechs <- BothMechs
    MaxChanges = 3
    MaxSasl = 1
    MaxBeside = 1
    MaxNicks = 1
INVARIANTS
    EnabledIsReal
    OneReader
PROPERTY
    Registers
CHECK_DEADLOCK FALSE
