SPECIFICATION Spec
CONSTANTS
    Requests = 2
    Posts = {1}
    BodySize = 2
    MaxFrame = 2
    OurStreams = 2
    ConnWindow = 1
    StreamWindow = 1
    Settings <- Announced
    RecvCapacity = 3
    MaxInformational = 1
    MaxBlocks = 3
    MaxResets = 1
    MaxData = 2
    MaxWire = 1
    MaxPipe = 1
    MaxChatter = 1
    Rude = TRUE
INVARIANTS WindowsInStep NeverOverrun WindowInHand
PROPERTIES WholeIsWhole ExchangesEnd
CHECK_DEADLOCK FALSE
