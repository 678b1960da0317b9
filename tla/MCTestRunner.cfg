SPECIFICATION RunSpec
CONSTANTS
    Suites <- MCSuites
    Filters <- MCFilters
    Options <- MCOptions
    Worlds <- MCWorlds
INVARIANTS PassMeansPassed EndIsAccounted
PROPERTY RunEnds
CHECK_DEADLOCK FALSE
