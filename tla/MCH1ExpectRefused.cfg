SPECIFICATION Spec
CONSTANTS
    Requests = 2
    Kinds = {"get", "expect"}
    MaxInformational = 1
    MaxData = 2
    MaxWire = 4
    Interim = {}
    Misdeclared = {}
    Stray = {}
INVARIANT RequestsFramed
CHECK_DEADLOCK FALSE
