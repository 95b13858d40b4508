SPECIFICATION FairSpec
CONSTANTS
    Users = {u1, u2}
    Creates = {c1, c2, c3}
    PoolSize = 2
    PageSize = 1
    Claims = {0, 1, 4}
    NoCreate = NoCreate
INVARIANTS
    TypeOK
    SeqsAreSound
    NothingSkipped
    CreatedIsDurable
PROPERTIES
    ImplementsLog
    CreateReturns
CHECK_DEADLOCK FALSE
