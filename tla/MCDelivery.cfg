SPECIFICATION Spec
CONSTANTS
    Tabs = {t1, t2}
    OutBuf = 1
    ReplayLimit = 1
    ListLimit = 1
    KeepLimit = 2
    MaxSeq = 2
    Lists = 1
    MaxDrops = 0
    MaxUpsets = 0
    MaxLapses = 1
    MaxOvertakes = 1
SYMMETRY TabSymmetry
INVARIANTS
    TypeOK
    HandshakeClosesWindow
    NothingLostWhileConnected
    AckedWasShown
    ListAgrees
CHECK_DEADLOCK FALSE
