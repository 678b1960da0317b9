SPECIFICATION Spec
CONSTANTS
    Requests = 2
    Kinds = {"expect"}
    MaxInformational = 1
    MaxData = 2
    MaxWire = 4
    Interim = {"expect"}
    Misdeclared = {}
    Stray = {}
INVARIANT AnswerIsFinal
CHECK_DEADLOCK FALSE
