SPECIFICATION PermFairSpec
CONSTANTS
    s1 = s1
    s2 = s2
    shared = shared
    other = other
    Sessions <- TwoSessions
    CallIds <- TwoCallIds
    Callbacks <- FourCallbacks
    Streams = {1, 2}
    MaxExecutes = 1
INVARIANTS
    PermTypeOK
    WaiterIsReachable
    NothingLeftPending
PROPERTIES
    ToolCallersFreed
    KeepsGate
CHECK_DEADLOCK FALSE
