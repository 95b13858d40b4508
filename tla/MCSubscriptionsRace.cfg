SPECIFICATION Spec
CONSTANTS
    Users = {u1}
    Conns = {c1, c2}
    MaxErrors = 0
INVARIANTS
    HeldIsSubscribed
CHECK_DEADLOCK FALSE
