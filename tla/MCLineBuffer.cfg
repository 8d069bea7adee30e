SPECIFICATION Spec
CONSTANTS
    N = 4
    MaxInput = 6
INVARIANTS
    BufferSafe
    NoStaleScreen
    DispatchesAllLines
CHECK_DEADLOCK FALSE
