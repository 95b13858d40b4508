SPECIFICATION FairSpec
CONSTANTS
    Tabs = {t1}
    Conns = {c1, c2}
    NoConn = NoConn
    PingInterval = 2
    PongTimeout = 6
    MaxBackoff = 3
    Doublings = 2
    MaxLate = 1
    RoundTrip = 1
    MaxLost = 1
    MaxOutages = 2
INVARIANTS
    TypeOK
    SilentIsEvicted
PROPERTIES
    LiveIsKept
    Reconnects
