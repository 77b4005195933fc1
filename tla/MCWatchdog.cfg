SPECIFICATION WatchFairSpec
CONSTANTS
    t1 = t1
    t2 = t2
    ask = ask
    DefaultWindow = 2
    DefaultGateWindow = 3
    MaxWindow = 5
    MinGateWindow = 3
    WindowKeys = {0, 4, 5}
    GateWindowKeys = {0, 1}
    TickInterval = 2
    CheckInterval = 2
    MaxCallAttempts = 2
    RetryMaxAttempts = 2
    Tools <- TwoTools
    Waits <- OneWait
    Horizon = 6
INVARIANTS
    WatchTypeOK
    GatesAccounted
    QuietCallIsAbandoned
    GateBelongsToCall
    HostSilenceBounded
PROPERTIES
    StallMeansSilence
    SilentCallEnds
CHECK_DEADLOCK FALSE
