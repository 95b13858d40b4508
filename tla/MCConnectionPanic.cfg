SPECIFICATION Spec
CONSTANTS
    Casters = {s1}
    Repliers = {}
    Closers = {reaper}
    Writer = Writer
    OnClose = OnClose
    Nobody = Nobody
    WriteBuf = 1
    MaxFrames = 1
INVARIANTS
    NoPanic
CHECK_DEADLOCK FALSE
