SPECIFICATION SettingSpec
CONSTANTS
    Models = {"m1", "m2"}
    Efforts = {"low", "high"}
    OtherEfforts = {"bogus"}
    MaxSdkSessions = 3
INVARIANTS
    DefaultReturns
CHECK_DEADLOCK FALSE
