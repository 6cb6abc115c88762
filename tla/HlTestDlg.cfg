SPECIFICATION Spec
CONSTANTS
    MaxCount = 2
    MaxLines = 5
    Callbacks = {c1}
    StartTimes = {4}
INVARIANTS
    
    OrderlyParsed
PROPERTIES
    Spaced
    DropEnds
    CallbackShown
CHECK_DEADLOCK FALSE
