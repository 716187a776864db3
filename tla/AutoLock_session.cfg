SPECIFICATION FairSpec
CONSTANTS
    Workers = {w1}
    Free = Free
    Unreadable = Unreadable
    Timeouts = {1, 2}
    DefaultTimeout = 2
    Poll = 1
    Cap = 3
    MaxCalls = 2
CHECK_DEADLOCK TRUE
INVARIANTS
    TypeOK
    BackstopInTime
    ItemKeepsVault
    LoginScreenMeansLocked
    UiTimeoutFresh
    SettingsOnDisk
PROPERTY EventuallyLocked
