SPECIFICATION Spec
CONSTANTS
    Requests = 2
    Kinds = {"get", "post"}
    MaxInformational = 1
    MaxData = 2
    MaxWire = 4
    Interim = {}
    Misdeclared = {"short"}
    Stray = {}
INVARIANT RequestsFramed
CHECK_DEADLOCK FALSE
