SPECIFICATION FairSpec
CONSTANTS
    old = old
    new = new
    other = other
    Nodes = {old, new, other}
    Last <- MCLast
    Served = {new}
INVARIANTS
    TypeOK
    SchemaIsRecorded
    ServesMigrated
    
PROPERTIES
    BootEnds
