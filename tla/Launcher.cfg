SPECIFICATION Spec
CONSTANT Uses <- MCUses
INVARIANTS
    
    NothingLeft
    TeardownOrder
CHECK_DEADLOCK FALSE
