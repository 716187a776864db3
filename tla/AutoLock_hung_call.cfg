SPECIFICATION Spec
CONSTANTS
    Workers = {w1}
    Free = Free
    Unreadable = Unreadable
    Timeouts = {2}
    DefaultTimeout = 2
    Poll = 1
    Cap = 4
    MaxCalls = 2
CHECK_DEADLOCK TRUE
INVARIANT BackstopAnyway
