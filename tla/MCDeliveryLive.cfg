SPECIFICATION FairSpec
CONSTANTS
    Tabs = {t1}
    OutBuf = 1
    ReplayLimit = 2
    ListLimit = 2
    KeepLimit = 1
    MaxSeq = 2
    Lists = 1
    MaxDrops = 1
    MaxUpsets = 1
    MaxLapses = 1
    MaxOvertakes = 0
PROPERTIES
    ConnectedTabCatchesUp
CHECK_DEADLOCK FALSE
