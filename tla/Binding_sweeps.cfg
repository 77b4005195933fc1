SPECIFICATION BindingSpec
CONSTANTS
    Sessions = {s1, s2}
    ContractSessions = {}
    MaxEpoch = 2
    MaxConversations = 3
    RetryMaxAttempts = 2
    Lifetimes = FALSE
INVARIANTS
    BindingTypeOK
    DiskNamesConversation
    NoHoldAndWait
PROPERTIES
    ChurnsOncePerRestart
CHECK_DEADLOCK FALSE
SYMMETRY SessionSymmetry
