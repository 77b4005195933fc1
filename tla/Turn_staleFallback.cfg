SPECIFICATION TurnSpec
CONSTANTS
    Outcomes <- MCOutcomes
    Members <- MCMembers
    Handshakes <- AllSteps
    Submissions <- MCSubmissions
    MaxAttempts = 1
    StraySubmits = FALSE
    MaxTurnsInputs = {0}
    MaxFinalizeAttempts = 3
    WatchdogMaxCallAttempts = 3
    RetryMaxAttempts = 4
    SendFailures = {"stall", "transient"}
    MaxLivePrompts = 2
PROPERTIES
    LegacyFailureWithoutFallback
