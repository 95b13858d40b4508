SPECIFICATION Spec
CONSTANTS
    Tabs = {t1}
    OutBuf = 4
    ReplayLimit = 4
    ListLimit = 4
    KeepLimit = 4
    MaxSeq = 2
    Lists = 1
    MaxDrops = 1
    MaxUpsets = 0
    MaxLapses = 0
    MaxOvertakes = 0
INVARIANTS
    NoLossAcrossDisconnects
CHECK_DEADLOCK FALSE
