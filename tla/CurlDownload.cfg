SPECIFICATION FairSpec
CONSTANTS
    Length = 3
    MaxFaults = 2
INVARIANTS
    Delivered
PROPERTIES
    
    CallShrinks
    Returns
    Completes
