SPECIFICATION Spec
CONSTANTS
    Key <- MCKey
    Client <- MCClient
    Uses <- MCUses
INVARIANTS
    
    NobodyForgotten
CHECK_DEADLOCK FALSE
