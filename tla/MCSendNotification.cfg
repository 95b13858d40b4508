SPECIFICATION Spec
CONSTANTS
    alice = alice
    bob = bob
    Blank = Blank
    Users = {alice, bob}
    Lists <- MCLists
    Sends = {s1, s2}
    Nodes = {n1, n2}
    MaxFailures = 2
INVARIANTS
    TypeOK
    AnswersAreTrue
    FramesAreRows
    SilenceIsKnown
PROPERTIES
    UsesLog
CHECK_DEADLOCK FALSE
