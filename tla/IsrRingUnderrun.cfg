SPECIFICATION Spec
CONSTANTS
    Slots = 2
    Total = 5
    MaxStarts = 2
    MaxResets = 1
    RestartAnytime = FALSE
    PumpAhead = FALSE
INVARIANTS
    InOrder
CHECK_DEADLOCK FALSE
