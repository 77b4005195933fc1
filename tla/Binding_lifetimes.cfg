SPECIFICATION BindingSpec
CONSTANTS
    Sessions = {s1}
    ContractSessions = {s1}
    MaxEpoch = 3
    MaxConversations = 3
    RetryMaxAttempts = 4
    Lifetimes = TRUE
INVARIANTS
    BindingTruthful
    DiskNamesConversation
PROPERTIES
    MinimalRepairLands
CHECK_DEADLOCK FALSE
