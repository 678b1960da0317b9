SPECIFICATION Spec
CONSTANTS
    Addresses = 4
    MaxAttempts = 2
    Delay = 2
    Deadline = 6
INVARIANT WinnerIsConnected
CHECK_DEADLOCK FALSE
