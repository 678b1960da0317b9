SPECIFICATION Spec
CONSTANTS
    Requests = 2
    Kinds = {"get"}
    MaxInformational = 1
    MaxData = 2
    MaxWire = 4
    Interim = {}
    Misdeclared = {}
    Stray = {TRUE}
INVARIANT AnswerIsForRequest
CHECK_DEADLOCK FALSE
