SPECIFICATION Spec
CONSTANTS
    Users = {alice, bob}
    NoUser = NoUser
    PageSize = 1
    MaxRows = 2
    MaxReqs = 2
SYMMETRY Symmetry
INVARIANTS
    TypeOK
    ReadIsStored
    CountCoversList
    StoreIsOwn
