SPECIFICATION Spec
CONSTANTS
    Origins = {plain, secure, tunnelled}
    TlsOrigins = {secure}
    TunnelOrigins = {tunnelled}
    Conns = {c1, c2, c3}
    Sources = {s1}
    None = None
    NoConn = NoConn
    NoOrigin = NoOrigin
    NoSource = NoSource
    MaxConnections = 2
    MaxKeepalive = 1
    MaxBatch = 2
INVARIANTS Accounted RefusedAnswerForgotten
PROPERTIES ImplementsLedger BatchesEnd
