SPECIFICATION BindingFairSpec
CONSTANTS
    Sessions = {s1, s2}
    ContractSessions = {}
    MaxEpoch = 3
    MaxConversations = 2
    RetryMaxAttempts = 1
    Lifetimes = FALSE
PROPERTIES
    RecoveryEnds
CHECK_DEADLOCK FALSE
