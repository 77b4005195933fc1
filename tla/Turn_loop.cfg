SPECIFICATION TurnFairSpec
CONSTANTS
    Outcomes <- MCOutcomes
    Members <- MCMembers
    Handshakes <- OwnFallbackSteps
    Submissions <- MCSubmissions
    MaxAttempts = 2
    StraySubmits = FALSE
    MaxTurnsInputs = {0, 1}
    MaxFinalizeAttempts = 3
    WatchdogMaxCallAttempts = 3
    RetryMaxAttempts = 4
    SendFailures = {"stall", "transient"}
    MaxLivePrompts = 2
INVARIANTS
    TurnTypeOK
    RecordedFitsStep
PROPERTIES
    FinalizeNeverLost
    KeepsPromise
