SPECIFICATION Spec
CONSTANTS
    Origins = {plain, secure}
    HandshakeOrigins = {secure}
    Conns = {c1, c2, c3, c4}
    Sources = {s1, s2, s3}
    None = None
    NoConn = NoConn
    NoOrigin = NoOrigin
    MaxConnections = 3
    MaxKeepalive = 2
    HasExpiry = TRUE
INVARIANT TypeOK
SYMMETRY Interchangeable
