SPECIFICATION FairSpec
CONSTANTS
    Casters = {s1}
    Repliers = {r1}
    Closers = {reaper}
    Writer = Writer
    OnClose = OnClose
    Nobody = Nobody
    WriteBuf = 2
    MaxFrames = 3
INVARIANTS
    TypeOK
    ClosedByOne
    WireIsPrefix
PROPERTIES
    CloseCompletes
    AcceptedIsWritten
CHECK_DEADLOCK FALSE
