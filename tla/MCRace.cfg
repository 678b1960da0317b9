SPECIFICATION Spec
CONSTANTS
    Addresses = 4
    MaxAttempts = 2
    Delay = 2
    Deadline = 6
INVARIANTS RefusedMeansAllRefused NoAttemptLost
PROPERTY RaceEnds
CHECK_DEADLOCK FALSE
