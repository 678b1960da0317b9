SPECIFICATION Spec
CONSTANTS
    Requests = 3
    Kinds = {"get", "head", "post", "expect", "upgrade"}
    MaxInformational = 1
    MaxData = 1
    MaxWire = 4
    Interim = {"get", "head", "post", "upgrade"}
    Misdeclared = {"short", "over"}
    Stray = {FALSE}
INVARIANTS AnswerIsForRequest WholeIsWhole UploadsFramed
PROPERTY ExchangesEnd
CHECK_DEADLOCK FALSE
