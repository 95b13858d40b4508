SPECIFICATION FairSpec
CONSTANTS
    Users = {u1, u2}
    Conns = {c1, c2, c3}
    MaxErrors = 2
INVARIANTS
    TypeOK
    CountersAccount
    SubscribedUnlessRaced
    NothingLeaks
PROPERTIES
    CallsReturn
CHECK_DEADLOCK FALSE
