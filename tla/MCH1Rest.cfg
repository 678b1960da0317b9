SPECIFICATION Spec
CONSTANTS
    Requests = 3
    Kinds = {"get", "head", "post", "expect", "upgrade"}
    MaxInformational = 1
    MaxData = 2
    MaxWire = 4
    Interim = {"get", "head", "post", "upgrade"}
    Misdeclared = {"short", "over"}
    Stray = {FALSE}
CHECK_DEADLOCK FALSE
INVARIANT TypeOK
PROPERTY NoSendAfterClose
