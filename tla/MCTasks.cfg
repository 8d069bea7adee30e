SPECIFICATION Spec
CONSTANTS
    Addresses = {a1, a2}
    MaxStarts = 2
    TaskIds = {t1, t2}
    NoTask = NoTask
    MaxCalls = 3
INVARIANTS
    PromptHasAnOwner
    ClosingGetsThrough
    TimerIsTrue
PROPERTY
    SleepersWake
CHECK_DEADLOCK FALSE
