SPECIFICATION FairSpec
CONSTANTS
    MaxWrites = 3
    MaxMsgs = 2
    MaxBatch = 2
INVARIANTS
    QueueSafe
PROPERTIES
    CallbackSequence
    ImplementsLink
    ClosedEnds
CHECK_DEADLOCK FALSE
